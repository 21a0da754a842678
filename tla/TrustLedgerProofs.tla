------------------------- MODULE TrustLedgerProofs -------------------------
(***************************************************************************)
(* Proofs about TrustLedger, for every set of extensions, contents and     *)
(* releases.  Whether the two copies of the ledger may exist at once or    *)
(* not, nothing runs that neither the publisher nor the user vouched for;  *)
(* where they do not, no decision is lost and a release pins once.         *)
(***************************************************************************)
EXTENDS TrustLedger, TLAPS

Others == Ext \ FirstParty

\* A consent in a copy of the ledger is one the user gave.
Backed(l, e) ==
    l[e] # NoEntry /\ l[e].decision # "Deny" => l[e].content \in allowed[e]

\* Nothing of what was read has been replaced since, or the history says so.
LoadedFresh(e) ==
    loaded[e] # NoEntry /\ ~loaded[e].replaced
        => loaded[e].manifest = file[e].content.manifest
StartFresh(e) ==
    starting[e] # NoEntry /\ ~starting[e].replaced
        => /\ starting[e].manifest = starting[e].content.manifest
           /\ file[e].content.program = starting[e].content.program

\* The strengthening of NothingRunsUnasked: what was read is what is there
\* unless it was replaced; the file and both copies of it
\* hold no consent of their own invention.  The row the settings page is about
\* to save counts as given by the save itself; a thread that starts extensions
\* writes only rows of packaged ones.
IInv ==
    /\ file \in [Ext -> File]
    /\ allowed \in [Others -> SUBSET Content]
    /\ loaded \in [Ext -> Loaded \cup {NoEntry}]
    /\ DOMAIN runs = Ext /\ DOMAIN ledger = Ext /\ DOMAIN starting = Ext
    /\ \A e \in Others : starting[e] \in Cleared \cup {NoEntry}
    /\ \A e \in Others : LoadedFresh(e) /\ StartFresh(e)
    /\ \A e \in Others : Backed(ledger, e)
    /\ ui # Idle => /\ ui.ext \in Ext /\ DOMAIN ui.ledger = Ext
                    /\ ui.ledger[ui.ext].content \in Content
                    /\ ui.ledger[ui.ext].decision \in Decision
                    /\ \A e \in Others \ {ui.ext} : Backed(ui.ledger, e)
    /\ bg # Idle => DOMAIN bg.ledger = Ext /\ \A e \in Others : Backed(bg.ledger, e)
    /\ NothingRunsUnasked

\* A file whose hashes match an entry holds the content of the entry.
LEMMA SameContent ==
    ASSUME NEW e \in Ext, file \in [Ext -> File],
           NEW entry, entry.content \in Content, HashesMatch(e, entry)
    PROVE  file[e].content = entry.content
<1>1. file[e].content \in Found /\ entry.content \in Content
  BY DEF File
<1> QED
  BY <1>1 DEF HashesMatch, Found, Content

\* assess_with_publisher trusts what is signed or what the ledger consents to.
LEMMA AssessIsBacked ==
    ASSUME IInv, NEW e \in Others, Assess(e, ledger) = "AutoTrusted"
    PROVE  Signature(e) = "Valid" \/ file[e].content \in allowed[e]
<1> SUFFICES ASSUME Signature(e) # "Valid" PROVE file[e].content \in allowed[e]
  OBVIOUS
<1>1. ledger[e] # NoEntry /\ ledger[e].decision # "Deny" /\ HashesMatch(e, ledger[e])
  BY DEF Assess
<1>2. ledger[e].content \in allowed[e] /\ allowed[e] \subseteq Content /\ e \in Ext
  BY <1>1 DEF IInv, Backed, Others
<1>3. file[e].content = ledger[e].content
  BY <1>1, <1>2, SameContent DEF IInv
<1> QED
  BY <1>2, <1>3

LEMMA InitIInv == Init => IInv
<1> SUFFICES ASSUME Init PROVE IInv
  OBVIOUS
<1>1. PICK c \in Content, s \in [Ext -> Content \cup {NoContent}] :
          file = [e \in Ext |-> [content |-> c, sig |-> s[e],
                    origin |-> IF e \in FirstParty THEN "Sidecar" ELSE "UserDir"]]
  BY DEF Init
<1>2. Content \subseteq Found
  BY DEF Content, Found
<1>3. file \in [Ext -> File]
  BY <1>1, <1>2 DEF File
<1> QED
  BY <1>3 DEF Init, IInv, Others, Empty, Backed, LoadedFresh, StartFresh, NothingRunsUnasked

\* The settings page.
LEMMA DecideKeepsIInv ==
    ASSUME IInv, NEW e \in Ext, NEW d \in Decision, Decide(e, d)
    PROVE  IInv'
<1> DEFINE new == [content |-> file[e].content, decision |-> d, pinned |-> 0, by |-> "user"]
<1>1. /\ ui' = [ext |-> e, ledger |-> [ledger EXCEPT ![e] = new]]
      /\ file[e].content.program # "gone"
      /\ UNCHANGED <<file, ledger, bg, loaded, starting, runs, allowed>>
  BY DEF Decide
<1>2. file[e].content \in Content
  <2>1. file[e].content \in Found
    BY DEF IInv, File
  <2> QED BY <1>1, <2>1 DEF Found, Content
<1>3. /\ ui'.ext = e /\ ui'.ledger = [ledger EXCEPT ![e] = new]
      /\ DOMAIN ui'.ledger = Ext /\ ui'.ledger[e] = new
      /\ \A o \in Others \ {e} : ui'.ledger[o] = ledger[o]
  BY <1>1 DEF IInv, Others
<1> QED
  BY <1>1, <1>2, <1>3 DEF IInv, Backed, LoadedFresh, StartFresh, NothingRunsUnasked, Others

\* The save of the settings page is where the user's consent is counted.
LEMMA SaveDecisionKeepsIInv ==
    ASSUME IInv, SaveDecision
    PROVE  IInv'
<1> DEFINE e == ui.ext entry == ui.ledger[ui.ext]
<1>1. /\ ui # Idle /\ ledger' = ui.ledger /\ ui' = Idle
      /\ UNCHANGED <<file, bg, loaded, starting>>
      /\ runs' = [x \in Ext |-> NoEntry]
      /\ allowed' = IF entry.decision = "Allow" /\ e \notin FirstParty
                    THEN [allowed EXCEPT ![e] = @ \cup {entry.content}] ELSE allowed
  BY DEF SaveDecision
<1>2. /\ e \in Ext /\ entry.content \in Content /\ entry.decision \in {"Allow", "Deny"}
  BY <1>1 DEF IInv, Decision
<1>3. /\ allowed' \in [Others -> SUBSET Content]
      /\ \A o \in Others : allowed[o] \subseteq allowed'[o]
      /\ e \in Others /\ entry.decision # "Deny" => entry.content \in allowed'[e]
  BY <1>1, <1>2 DEF IInv, Others
<1> HIDE DEF e, entry
<1>4. \A o \in Others : Backed(ledger, o)'
  BY <1>1, <1>3 DEF IInv, Backed, e, entry
<1>5. bg' # Idle => \A o \in Others : Backed(bg.ledger, o)'
  BY <1>1, <1>3 DEF IInv, Backed
<1> QED
  BY <1>1, <1>3, <1>4, <1>5 DEF IInv, LoadedFresh, StartFresh, NothingRunsUnasked, Others

\* A scan reads the manifest that is there.
LEMMA ScannedIsFresh ==
    ASSUME IInv, NEW e \in Ext, NEW trust, Scanned(e, trust), UNCHANGED file
    PROVE  /\ loaded' \in [Ext -> Loaded \cup {NoEntry}]
           /\ \A o \in Ext : LoadedFresh(o)' \/ loaded'[o] = loaded[o]
           /\ UNCHANGED <<starting, runs>>
<1> DEFINE new == [manifest |-> file[e].content.manifest, replaced |-> FALSE]
<1>1. loaded' = [loaded EXCEPT ![e] = new] /\ UNCHANGED <<starting, runs>>
  BY DEF Scanned
<1>2. file[e].content \in Found
  BY DEF IInv, File
<1>3. new \in Loaded
  BY <1>2 DEF Found, Loaded
<1>4. new.manifest = file[e].content.manifest
  OBVIOUS
<1> HIDE DEF new
<1>5. loaded'[e] = new /\ \A o \in Ext \ {e} : loaded'[o] = loaded[o]
  BY <1>1 DEF IInv
<1>6. loaded' \in [Ext -> Loaded \cup {NoEntry}]
  BY <1>1, <1>3 DEF IInv
<1> QED
  BY <1>1, <1>4, <1>5, <1>6 DEF LoadedFresh

\* The threads that start extensions: what is cleared is vouched for.
LEMMA JudgedIsBacked ==
    ASSUME IInv, NEW e \in Others, Judged(e, Assess(e, ledger)), UNCHANGED <<file, allowed>>
    PROVE  /\ starting'[e] \in Cleared \cup {NoEntry}
           /\ StartFresh(e)'
           /\ starting'[e] # NoEntry =>
                  starting'[e].content \in allowed'[e] \cup {starting'[e].signed}
<1> DEFINE new == [manifest |-> loaded[e].manifest, content |-> file[e].content,
                   signed |-> IF Signature(e) = "Valid" THEN file[e].sig ELSE NoContent,
                   replaced |-> loaded[e].replaced]
<1>1. /\ loaded[e] # NoEntry /\ e \in Ext
      /\ starting' = [starting EXCEPT ![e] =
             IF Assess(e, ledger) = "AutoTrusted" THEN new ELSE NoEntry]
  BY DEF Judged, Others
<1>2. starting'[e] = IF Assess(e, ledger) = "AutoTrusted" THEN new ELSE NoEntry
  BY <1>1 DEF IInv
<1>3. ASSUME Assess(e, ledger) = "AutoTrusted"
      PROVE  /\ new \in Cleared /\ new.content \in allowed[e] \cup {new.signed}
             /\ ~new.replaced => new.manifest = new.content.manifest
             /\ file[e].content.program = new.content.program
  <2>1. Signature(e) = "Valid" \/ file[e].content \in allowed[e]
    BY <1>3, AssessIsBacked
  <2>2. /\ file[e] \in File /\ loaded[e] \in Loaded /\ allowed[e] \subseteq Content
        /\ LoadedFresh(e)
    BY <1>1 DEF IInv
  <2>3. Signature(e) = "Valid" => file[e].sig = file[e].content
    BY DEF Signature
  <2>4. file[e].content \in Found /\ file[e].sig \in Content \cup {Garbled, NoContent}
        /\ Garbled \notin Found /\ NoContent \notin Found
    BY <2>2 DEF File, Found, Garbled, NoContent
  <2>5. file[e].content \in Content
    BY <2>1, <2>2, <2>3, <2>4
  <2>6. new.signed \in Content \cup {NoContent} /\ file[e].content \in allowed[e] \cup {new.signed}
    BY <2>1, <2>3, <2>5
  <2>7. new \in Cleared
    BY <2>2, <2>5, <2>6 DEF Cleared, Loaded
  <2> QED BY <1>1, <2>2, <2>6, <2>7 DEF LoadedFresh
<1> HIDE DEF new
<1>4. CASE Assess(e, ledger) = "AutoTrusted"
  BY <1>2, <1>3, <1>4 DEF StartFresh
<1>5. CASE Assess(e, ledger) # "AutoTrusted"
  BY <1>2, <1>5 DEF StartFresh
<1> QED
  BY <1>4, <1>5

LEMMA JudgeOtherKeepsIInv ==
    ASSUME IInv, NEW e \in Ext, JudgeOther(e)
    PROVE  IInv'
<1>1. /\ UNCHANGED <<file, ledger, ui, bg, allowed>>
      /\ Scanned(e, Assess(e, ledger)) \/ Judged(e, Assess(e, ledger))
  BY DEF JudgeOther
<1>2. CASE Scanned(e, Assess(e, ledger))
  <2>1. /\ loaded' \in [Ext -> Loaded \cup {NoEntry}] /\ UNCHANGED <<starting, runs>>
        /\ \A o \in Others : LoadedFresh(o)'
    BY <1>1, <1>2, ScannedIsFresh DEF IInv, LoadedFresh, Others
  <2> QED BY <1>1, <2>1 DEF IInv, Backed, StartFresh, NothingRunsUnasked
<1>3. CASE Judged(e, Assess(e, ledger))
  <2>1. /\ UNCHANGED loaded /\ DOMAIN starting' = Ext /\ DOMAIN runs' = Ext
        /\ runs'[e] = NoEntry
        /\ \A o \in Ext \ {e} : runs'[o] = runs[o] /\ starting'[o] = starting[o]
    BY <1>3 DEF Judged, IInv
  <2>2. e \in Others =>
            /\ starting'[e] \in Cleared \cup {NoEntry} /\ StartFresh(e)'
            /\ starting'[e] # NoEntry =>
                   starting'[e].content \in allowed'[e] \cup {starting'[e].signed}
    BY <1>1, <1>3, JudgedIsBacked
  <2>3. \A o \in Others : starting'[o] \in Cleared \cup {NoEntry} /\ LoadedFresh(o)' /\ StartFresh(o)'
    BY <1>1, <2>1, <2>2 DEF IInv, LoadedFresh, StartFresh, Others
  <2>4. NothingRunsUnasked'
    BY <1>1, <2>1, <2>2 DEF IInv, NothingRunsUnasked, Others
  <2> QED BY <1>1, <2>1, <2>3, <2>4 DEF IInv, Backed
<1> QED
  BY <1>1, <1>2, <1>3

LEMMA JudgeSidecarKeepsIInv ==
    ASSUME IInv, NEW e \in Ext, JudgeSidecar(e)
    PROVE  IInv'
<1> DEFINE v == AssessSidecar(e, ledger)
<1>1. /\ e \in FirstParty /\ UNCHANGED <<file, ledger, ui, allowed>>
      /\ Scanned(e, v.trust) \/ Judged(e, v.trust)
      /\ bg' = IF v.entry = NoEntry THEN Idle
               ELSE [ext |-> e, ledger |-> [ledger EXCEPT ![e] = v.entry]]
  BY DEF JudgeSidecar, IsSidecar
<1> HIDE DEF v
<1>2. /\ DOMAIN runs' = Ext /\ DOMAIN starting' = Ext
      /\ loaded' \in [Ext -> Loaded \cup {NoEntry}]
      /\ \A o \in Others : runs'[o] = runs[o] /\ starting'[o] = starting[o]
      /\ \A o \in Others : LoadedFresh(o)'
  <2>1. CASE Scanned(e, v.trust)
    BY <1>1, <2>1, ScannedIsFresh DEF IInv, LoadedFresh, Others
  <2>2. CASE Judged(e, v.trust)
    BY <1>1, <2>2 DEF Judged, IInv, LoadedFresh, Others
  <2> QED BY <1>1, <2>1, <2>2
<1>3. bg' # Idle => /\ DOMAIN bg'.ledger = Ext
                    /\ \A o \in Others : bg'.ledger[o] = ledger[o]
  BY <1>1 DEF IInv, Others
<1>4. NothingRunsUnasked' /\ \A o \in Others : StartFresh(o)'
  BY <1>1, <1>2 DEF IInv, NothingRunsUnasked, StartFresh, Others
<1> QED
  BY <1>1, <1>2, <1>3, <1>4 DEF IInv, Backed

\* What is spawned is what was cleared, unless it was replaced since.
LEMMA StartKeepsIInv ==
    ASSUME IInv, NEW e \in Ext, Start(e)
    PROVE  IInv'
<1> DEFINE ran == [manifest |-> starting[e].manifest, program |-> file[e].content.program]
           new == [content |-> ran, signed |-> starting[e].signed,
                   replaced |-> starting[e].replaced]
<1>1. /\ starting[e] # NoEntry /\ starting' = [starting EXCEPT ![e] = NoEntry]
      /\ runs' = [runs EXCEPT ![e] =
             IF file[e].content.program = "gone" THEN NoEntry ELSE new]
      /\ UNCHANGED <<file, ledger, ui, bg, loaded, allowed>>
  BY DEF Start
<1>2. ASSUME e \in Others
      PROVE  new.content \in allowed[e] \cup {new.signed} \/ new.replaced
  <2>1. /\ starting[e] \in Cleared /\ StartFresh(e)
        /\ starting[e].content \in allowed[e] \cup {starting[e].signed}
    BY <1>1, <1>2 DEF IInv, NothingRunsUnasked, Others
  <2>2. starting[e].content = [manifest |-> starting[e].content.manifest,
                               program |-> starting[e].content.program]
    BY <2>1 DEF Cleared, Content
  <2>3. ~starting[e].replaced => ran = starting[e].content
    BY <1>1, <2>1, <2>2 DEF StartFresh
  <2> QED BY <2>1, <2>3
<1> HIDE DEF new
<1>3. /\ DOMAIN runs' = Ext /\ DOMAIN starting' = Ext
      /\ starting'[e] = NoEntry /\ runs'[e] \in {NoEntry, new}
      /\ \A o \in Ext \ {e} : runs'[o] = runs[o] /\ starting'[o] = starting[o]
  BY <1>1 DEF IInv
<1>4. \A o \in Others : starting'[o] \in Cleared \cup {NoEntry} /\ LoadedFresh(o)' /\ StartFresh(o)'
  BY <1>1, <1>3 DEF IInv, LoadedFresh, StartFresh, Others
<1>5. NothingRunsUnasked'
  BY <1>1, <1>2, <1>3 DEF IInv, NothingRunsUnasked, Others
<1> QED
  BY <1>1, <1>3, <1>4, <1>5 DEF IInv, Backed

\* Files are replaced: the contents stay contents.
LEMMA ReplaceKeepsIInv ==
    ASSUME IInv, NEW e \in Ext, Replace(e)
    PROVE  IInv'
<1>1. /\ UNCHANGED <<ledger, ui, bg, runs, allowed>>
      /\ loaded' = IF loaded[e] # NoEntry /\ file'[e].content.manifest # file[e].content.manifest
                   THEN [loaded EXCEPT ![e].replaced = TRUE] ELSE loaded
      /\ starting' = IF starting[e] # NoEntry /\ file'[e].content.program # file[e].content.program
                     THEN [starting EXCEPT ![e].replaced = TRUE] ELSE starting
  BY DEF Replace
<1>2. file[e] \in File /\ file[e].content \in Found
  BY DEF IInv, File
<1>3. file' \in [Ext -> File]
  <2>1. ASSUME NEW p \in Program \cup {"gone"}, file' = [file EXCEPT ![e].content.program = p]
        PROVE  file' \in [Ext -> File]
    <3>1. [file[e].content EXCEPT !.program = p] \in Found
      BY <1>2 DEF Found
    <3> DEFINE content == [file[e].content EXCEPT !.program = p]
               new == [file[e] EXCEPT !.content = content]
    <3>2. file' = [file EXCEPT ![e] = new]
      BY <2>1
    <3> HIDE DEF content
    <3>3. new \in File
      BY <1>2, <3>1 DEF File, content
    <3> HIDE DEF new
    <3> QED BY <3>2, <3>3 DEF IInv
  <2>2. ASSUME NEW m \in Manifest, file' = [file EXCEPT ![e].content.manifest = m]
        PROVE  file' \in [Ext -> File]
    <3>1. [file[e].content EXCEPT !.manifest = m] \in Found
      BY <1>2 DEF Found
    <3> DEFINE content == [file[e].content EXCEPT !.manifest = m]
               new == [file[e] EXCEPT !.content = content]
    <3>2. file' = [file EXCEPT ![e] = new]
      BY <2>2
    <3> HIDE DEF content
    <3>3. new \in File
      BY <1>2, <3>1 DEF File, content
    <3> HIDE DEF new
    <3> QED BY <3>2, <3>3 DEF IInv
  <2>3. ASSUME NEW s \in Content \cup {Garbled, NoContent}, file' = [file EXCEPT ![e].sig = s]
        PROVE  file' \in [Ext -> File]
    BY <1>2, <2>3 DEF IInv, File
  <2>4. ASSUME NEW o \in {"Sidecar", "UserDir"}, file' = [file EXCEPT ![e].origin = o]
        PROVE  file' \in [Ext -> File]
    BY <1>2, <2>4 DEF IInv, File
  <2> QED BY <2>1, <2>2, <2>3, <2>4 DEF Replace
<1>4. \A o \in Ext \ {e} : file'[o] = file[o]
  BY DEF Replace, IInv
<1>5. /\ loaded' \in [Ext -> Loaded \cup {NoEntry}]
      /\ \A o \in Ext \ {e} : loaded'[o] = loaded[o]
      /\ e \in Others => LoadedFresh(e)'
  <2> DEFINE new == [loaded[e] EXCEPT !.replaced = TRUE]
  <2>1. CASE loaded' = loaded /\ (loaded[e] = NoEntry
                                  \/ file'[e].content.manifest = file[e].content.manifest)
    BY <2>1 DEF IInv, LoadedFresh
  <2>2. CASE loaded[e] # NoEntry /\ loaded' = [loaded EXCEPT ![e].replaced = TRUE]
    <3>1. new \in Loaded /\ new.replaced
      BY <2>2 DEF IInv, Loaded
    <3>2. loaded' = [loaded EXCEPT ![e] = new]
      BY <2>2
    <3> HIDE DEF new
    <3> QED BY <3>1, <3>2 DEF IInv, LoadedFresh
  <2> QED BY <1>1, <2>1, <2>2
<1>6. /\ DOMAIN starting' = Ext /\ \A o \in Ext \ {e} : starting'[o] = starting[o]
      /\ e \in Others => /\ starting'[e] \in Cleared \cup {NoEntry} /\ StartFresh(e)'
                         /\ starting'[e] # NoEntry =>
                              /\ starting[e] # NoEntry
                              /\ starting'[e].content = starting[e].content
                              /\ starting'[e].signed = starting[e].signed
  <2> DEFINE new == [starting[e] EXCEPT !.replaced = TRUE]
  <2>1. CASE starting' = starting /\ (starting[e] = NoEntry
                                  \/ file'[e].content.program = file[e].content.program)
    BY <2>1 DEF IInv, StartFresh
  <2>2. CASE starting[e] # NoEntry /\ starting' = [starting EXCEPT ![e].replaced = TRUE]
    <3>1. e \in Others => /\ new \in Cleared /\ new.replaced
                         /\ new.content = starting[e].content /\ new.signed = starting[e].signed
      BY <2>2 DEF IInv, Cleared
    <3>2. starting' = [starting EXCEPT ![e] = new]
      BY <2>2
    <3> HIDE DEF new
    <3> QED BY <2>2, <3>1, <3>2 DEF IInv, StartFresh
  <2> QED BY <1>1, <2>1, <2>2
<1>7. \A o \in Others : /\ starting'[o] \in Cleared \cup {NoEntry}
                        /\ LoadedFresh(o)' /\ StartFresh(o)'
  BY <1>4, <1>5, <1>6 DEF IInv, LoadedFresh, StartFresh, Others
<1>8. NothingRunsUnasked'
  BY <1>1, <1>6 DEF IInv, NothingRunsUnasked, Others
<1> QED
  BY <1>1, <1>3, <1>5, <1>6, <1>7, <1>8 DEF IInv, Backed

\* Every step keeps the invariant.
LEMMA NextIInv ==
    ASSUME IInv, [Next]_trustVars
    PROVE  IInv'
<1>1. ASSUME NEW e \in Ext,
             \/ \E d \in Decision : Decide(e, d)
             \/ JudgeOther(e) \/ JudgeSidecar(e) \/ Start(e) \/ Replace(e)
      PROVE  IInv'
  BY <1>1, DecideKeepsIInv, JudgeOtherKeepsIInv, JudgeSidecarKeepsIInv,
     StartKeepsIInv, ReplaceKeepsIInv
<1>2. CASE SaveDecision
  BY <1>2, SaveDecisionKeepsIInv
<1>3. CASE SaveFails
  BY <1>3 DEF SaveFails, IInv, Backed, LoadedFresh, StartFresh, NothingRunsUnasked
<1>4. CASE SavePin
  BY <1>4 DEF SavePin, IInv, Backed, LoadedFresh, StartFresh, NothingRunsUnasked
<1>5. CASE SavePinFails
  BY <1>5 DEF SavePinFails, IInv, Backed, LoadedFresh, StartFresh, NothingRunsUnasked
<1>6. CASE Restart
  <2>1. /\ UNCHANGED <<file, ledger, allowed>> /\ ui' = Idle /\ bg' = Idle
        /\ loaded' = [e \in Ext |-> NoEntry] /\ starting' = [e \in Ext |-> NoEntry]
        /\ runs' = [e \in Ext |-> NoEntry]
    BY <1>6 DEF Restart
  <2>2. NothingRunsUnasked'
    BY <2>1 DEF NothingRunsUnasked
  <2>3. \A e \in Others : LoadedFresh(e)' /\ StartFresh(e)'
    BY <2>1 DEF LoadedFresh, StartFresh, Others
  <2> QED BY <2>1, <2>2, <2>3 DEF IInv, Backed, Others
<1>7. CASE Damage
  BY <1>7 DEF Damage, IInv, Backed, LoadedFresh, StartFresh, NothingRunsUnasked, Empty, Others
<1>8. CASE UNCHANGED trustVars
  BY <1>8 DEF trustVars, IInv, Backed, LoadedFresh, StartFresh, NothingRunsUnasked
<1> QED
  BY <1>1, <1>2, <1>3, <1>4, <1>5, <1>6, <1>7, <1>8 DEF Next

\* An extension that was not packaged with the host is cleared to start only
\* with contents the user allowed or the publisher signed, and runs these unless
\* the manifest was replaced between scan and judgement, or the program between
\* judgement and start, however else files are replaced and the two writers of
\* the ledger interleave.
THEOREM NothingUnaskedRuns == Spec => []NothingRunsUnasked
<1>1. IInv => NothingRunsUnasked
  BY DEF IInv
<1> QED
  BY <1>1, InitIInv, NextIInv, PTL DEF Spec

-----------------------------------------------------------------------------
(* Types.                                                                  *)

\* A copy of the ledger has a row for what it is about; without it TypeOK is
\* not inductive, as the save of a pin reads that row.
TypeIInv ==
    /\ TypeOK
    /\ ui # Idle => ui.ledger[ui.ext] # NoEntry
    /\ bg # Idle => bg.ledger[bg.ext] # NoEntry

LEMMA NotAnEntry == NoEntry \notin Entry /\ Idle \notin Job
  BY DEF NoEntry, Entry, Idle, Job

LEMMA ContentOfFile ==
    ASSUME TypeOK, NEW e \in Ext
    PROVE  /\ file[e] \in File /\ file[e].content \in Found
           /\ file[e].content.program # "gone" => file[e].content \in Content
           /\ Signature(e) = "Valid" => file[e].content \in Content
<1>1. file[e] \in File /\ file[e].content \in Found
  BY DEF TypeOK, File
<1>2. file[e].content.program # "gone" => file[e].content \in Content
  BY <1>1 DEF Found, Content
<1>3. Signature(e) = "Valid" => file[e].sig = file[e].content
  BY DEF Signature
<1>4. file[e].sig \in Content \cup {Garbled, NoContent}
  BY <1>1 DEF File
<1>5. Garbled \notin Found /\ NoContent \notin Found
  BY DEF Garbled, NoContent, Found
<1> QED
  BY <1>1, <1>2, <1>3, <1>4, <1>5

\* What assess_with_publisher trusts, and what the sidecar assessment trusts or
\* writes, is a content with a program.
LEMMA TrustedIsContent ==
    ASSUME TypeOK, NEW e \in Ext, Assess(e, ledger) = "AutoTrusted"
    PROVE  file[e].content \in Content
<1>1. CASE Signature(e) = "Valid"
  BY <1>1, ContentOfFile
<1>2. CASE Signature(e) # "Valid"
  <2>1. ledger[e] # NoEntry /\ HashesMatch(e, ledger[e])
    BY <1>2 DEF Assess
  <2>2. ledger[e] \in Entry
    BY <2>1 DEF TypeOK, Ledger
  <2> QED BY <2>1, <2>2, SameContent DEF TypeOK, Entry
<1> QED BY <1>1, <1>2

\* The cases of assess_sidecar_with_ledger.
LEMMA SidecarVerdict ==
    ASSUME TypeOK, NEW e \in Ext
    PROVE  LET v == AssessSidecar(e, ledger) entry == ledger[e] IN
           /\ v.trust = "AutoTrusted" => file[e].content \in Content
           /\ \/ v.entry = NoEntry
              \/ /\ v.entry = Pinned(e) /\ file[e].content \in Content
                 /\ entry # NoEntry => entry.decision # "Deny" /\ entry.pinned # version
              \/ /\ v.entry = [entry EXCEPT !.pinned = version] /\ entry \in Entry
                 /\ entry.decision # "Deny" /\ entry.pinned # version
<1> DEFINE v == AssessSidecar(e, ledger) entry == ledger[e]
           gone == file[e].content.program = "gone"
           pinning == v.trust = "AutoTrusted" /\ v.entry = Pinned(e) /\ ~gone
           nothing == v.trust # "AutoTrusted" /\ v.entry = NoEntry
<1>1. ledger[e] = NoEntry \/ ledger[e] \in Entry
  BY DEF TypeOK, Ledger
<1>2. CASE Signature(e) = "Valid"
  <2>1. v = [trust |-> "AutoTrusted", entry |-> NoEntry]
    BY <1>2 DEF AssessSidecar
  <2> QED BY <1>2, <2>1, ContentOfFile
<1>3. CASE Signature(e) # "Valid" /\ entry = NoEntry
  <2>1. \/ v = [trust |-> "Pending", entry |-> NoEntry]
        \/ ~gone /\ v = [trust |-> "AutoTrusted", entry |-> Pinned(e)]
    BY <1>3 DEF AssessSidecar
  <2> QED BY <1>3, <2>1, ContentOfFile
<1>4. CASE Signature(e) # "Valid" /\ entry # NoEntry /\ HashesMatch(e, entry)
  <2>1. file[e].content \in Content
    BY <1>1, <1>4, SameContent DEF Entry, TypeOK
  <2>2. \/ v.entry = NoEntry
        \/ /\ v = [trust |-> "AutoTrusted", entry |-> [entry EXCEPT !.pinned = version]]
           /\ entry.decision # "Deny" /\ entry.pinned # version
    BY <1>4 DEF AssessSidecar
  <2> QED BY <1>1, <1>4, <2>1, <2>2
<1>5. CASE Signature(e) # "Valid" /\ entry # NoEntry /\ ~HashesMatch(e, entry)
  <2>1. nothing \/ (pinning /\ entry.decision # "Deny" /\ entry.pinned # version)
    BY <1>5 DEF AssessSidecar
  <2> QED BY <2>1, ContentOfFile
<1> QED BY <1>2, <1>3, <1>4, <1>5

LEMMA InitTypeIInv ==
    ASSUME MaxVersion \in Nat \ {0}, Init
    PROVE  TypeIInv
<1>1. file \in [Ext -> File]
  BY InitIInv DEF IInv
<1> QED
  BY <1>1 DEF Init, TypeIInv, TypeOK, Version, Ledger, Empty

\* The two steps that take a copy of the ledger, and the two that save it.
LEMMA DecideKeepsTypes ==
    ASSUME TypeIInv, NEW e \in Ext, NEW d \in Decision, Decide(e, d)
    PROVE  TypeIInv'
<1> DEFINE new == [content |-> file[e].content, decision |-> d, pinned |-> 0, by |-> "user"]
<1>1. new \in Entry
  BY ContentOfFile DEF Decide, Entry, TypeIInv
<1>2. /\ ui' = [ext |-> e, ledger |-> [ledger EXCEPT ![e] = new]]
      /\ UNCHANGED <<file, version, ledger, bg, offered, loaded, starting, runs, allowed,
                     decided, firstPin>>
  BY DEF Decide
<1> HIDE DEF new
<1>3. [ledger EXCEPT ![e] = new] \in Ledger /\ [ledger EXCEPT ![e] = new][e] = new
  BY <1>1 DEF Ledger, TypeIInv, TypeOK
<1>4. ui' \in Job /\ ui'.ledger[ui'.ext] # NoEntry
  BY <1>1, <1>2, <1>3, NotAnEntry DEF Job
<1> QED
  BY <1>2, <1>4 DEF TypeIInv, TypeOK

\* What the steps that scan, clear, start and replace leave behind.
ProcessTypes ==
    /\ offered' \subseteq Ext
    /\ loaded' \in [Ext -> Loaded \cup {NoEntry}]
    /\ starting' \in [Ext -> Cleared \cup {NoEntry}]
    /\ runs' \in [Ext -> Process \cup {NoEntry}]

LEMMA JudgedTypes ==
    ASSUME TypeIInv, NEW e \in Ext, NEW trust, Scanned(e, trust) \/ Judged(e, trust),
           trust = "AutoTrusted" => file[e].content \in Content
    PROVE  ProcessTypes
<1> DEFINE read == [manifest |-> file[e].content.manifest, replaced |-> FALSE]
           new == [manifest |-> loaded[e].manifest, content |-> file[e].content,
                   signed |-> IF Signature(e) = "Valid" THEN file[e].sig ELSE NoContent,
                   replaced |-> loaded[e].replaced]
<1>1. read \in Loaded
  BY ContentOfFile DEF Loaded, Found, TypeIInv
<1>2. ASSUME loaded[e] # NoEntry, trust = "AutoTrusted"
      PROVE  new \in Cleared
  <2>1. loaded[e] \in Loaded
    BY <1>2 DEF TypeIInv, TypeOK
  <2>2. Signature(e) = "Valid" => file[e].sig = file[e].content
    BY DEF Signature
  <2> QED BY <1>2, <2>1, <2>2 DEF Cleared, Loaded
<1>3. CASE Scanned(e, trust)
  <2>1. loaded' = [loaded EXCEPT ![e] = read] /\ UNCHANGED <<starting, runs>>
        /\ offered' \in {offered \ {e}, offered \cup {e}}
    BY <1>3 DEF Scanned
  <2> HIDE DEF read
  <2> QED BY <1>1, <2>1 DEF ProcessTypes, TypeIInv, TypeOK
<1>4. CASE Judged(e, trust)
  <2>1. /\ loaded[e] # NoEntry /\ UNCHANGED <<offered, loaded>>
        /\ starting' = [starting EXCEPT ![e] = IF trust = "AutoTrusted" THEN new ELSE NoEntry]
        /\ runs' = [runs EXCEPT ![e] = NoEntry]
    BY <1>4 DEF Judged
  <2> HIDE DEF new
  <2> QED BY <1>2, <2>1 DEF ProcessTypes, TypeIInv, TypeOK
<1> QED
  BY <1>3, <1>4

LEMMA StartTypes ==
    ASSUME TypeIInv, NEW e \in Ext, Start(e)
    PROVE  ProcessTypes
<1> DEFINE new == [content |-> [manifest |-> starting[e].manifest,
                                program |-> file[e].content.program],
                   signed |-> starting[e].signed, replaced |-> starting[e].replaced]
<1>1. /\ starting[e] # NoEntry /\ UNCHANGED <<offered, loaded>>
      /\ starting' = [starting EXCEPT ![e] = NoEntry]
      /\ runs' = [runs EXCEPT ![e] =
             IF file[e].content.program = "gone" THEN NoEntry ELSE new]
  BY DEF Start
<1>2. starting[e] \in Cleared
  BY <1>1 DEF TypeIInv, TypeOK
<1>3. file[e].content.program # "gone" => file[e].content.program \in Program
  BY ContentOfFile DEF TypeIInv, Found
<1>4. file[e].content.program # "gone" => new \in Process
  BY <1>2, <1>3 DEF Cleared, Process, Content
<1> HIDE DEF new
<1> QED
  BY <1>1, <1>4 DEF ProcessTypes, TypeIInv, TypeOK

LEMMA ReplaceTypes ==
    ASSUME TypeIInv, NEW e \in Ext, Replace(e)
    PROVE  ProcessTypes
<1>1. /\ UNCHANGED <<offered, runs>>
      /\ \/ loaded' = loaded
         \/ loaded[e] # NoEntry /\ loaded' = [loaded EXCEPT ![e].replaced = TRUE]
      /\ \/ starting' = starting
         \/ starting[e] # NoEntry /\ starting' = [starting EXCEPT ![e].replaced = TRUE]
  BY DEF Replace
<1>2. loaded' \in [Ext -> Loaded \cup {NoEntry}]
  <2> DEFINE new == [loaded[e] EXCEPT !.replaced = TRUE]
  <2>1. loaded[e] # NoEntry => new \in Loaded
    BY DEF TypeIInv, TypeOK, Loaded
  <2>2. loaded' = loaded \/ (loaded[e] # NoEntry /\ loaded' = [loaded EXCEPT ![e] = new])
    BY <1>1
  <2> HIDE DEF new
  <2> QED BY <2>1, <2>2 DEF TypeIInv, TypeOK
<1>3. starting' \in [Ext -> Cleared \cup {NoEntry}]
  <2> DEFINE new == [starting[e] EXCEPT !.replaced = TRUE]
  <2>1. starting[e] # NoEntry => new \in Cleared
    BY DEF TypeIInv, TypeOK, Cleared
  <2>2. starting' = starting \/ (starting[e] # NoEntry /\ starting' = [starting EXCEPT ![e] = new])
    BY <1>1
  <2> HIDE DEF new
  <2> QED BY <2>1, <2>2 DEF TypeIInv, TypeOK
<1> QED
  BY <1>1, <1>2, <1>3 DEF ProcessTypes, TypeIInv, TypeOK

LEMMA JudgeSidecarKeepsTypes ==
    ASSUME TypeIInv, NEW e \in Ext, JudgeSidecar(e)
    PROVE  TypeIInv'
<1> DEFINE v == AssessSidecar(e, ledger)
<1>1. /\ Scanned(e, v.trust) \/ Judged(e, v.trust)
      /\ bg' = IF v.entry = NoEntry THEN Idle
               ELSE [ext |-> e, ledger |-> [ledger EXCEPT ![e] = v.entry]]
      /\ UNCHANGED <<file, version, ledger, ui, allowed, decided, firstPin>>
  BY DEF JudgeSidecar
<1>2. /\ v.trust = "AutoTrusted" => file[e].content \in Content
      /\ \/ v.entry = NoEntry
         \/ v.entry = Pinned(e) /\ file[e].content \in Content
         \/ v.entry = [ledger[e] EXCEPT !.pinned = version] /\ ledger[e] \in Entry
  BY SidecarVerdict DEF TypeIInv
<1> HIDE DEF v
<1>3. v.entry = NoEntry \/ v.entry \in Entry
  BY <1>2 DEF Pinned, Entry, TypeIInv, TypeOK, Decision
<1>4. v.entry # NoEntry => /\ [ledger EXCEPT ![e] = v.entry] \in Ledger
                           /\ [ledger EXCEPT ![e] = v.entry][e] = v.entry
  BY <1>3 DEF Ledger, TypeIInv, TypeOK
<1>5. /\ bg' \in Job \cup {Idle}
      /\ bg' # Idle => bg'.ledger[bg'.ext] # NoEntry
  BY <1>1, <1>4 DEF Job
<1>6. ProcessTypes
  BY <1>1, <1>2, JudgedTypes
<1> QED
  BY <1>1, <1>5, <1>6 DEF ProcessTypes, TypeIInv, TypeOK

LEMMA SaveDecisionKeepsTypes ==
    ASSUME TypeIInv, SaveDecision
    PROVE  TypeIInv'
<1> DEFINE e == ui.ext entry == ui.ledger[ui.ext]
<1>1. e \in Ext /\ ui.ledger \in Ledger /\ entry \in Entry
  <2>1. ui \in Job /\ entry # NoEntry
    BY DEF SaveDecision, TypeIInv, TypeOK
  <2> QED BY <2>1 DEF Job, Ledger
<1>2. /\ ledger' = ui.ledger /\ ui' = Idle /\ runs' = [x \in Ext |-> NoEntry]
      /\ decided' = [decided EXCEPT ![e] = [content |-> entry.content, decision |-> entry.decision]]
      /\ allowed' = IF entry.decision = "Allow" /\ e \notin FirstParty
                    THEN [allowed EXCEPT ![e] = @ \cup {entry.content}] ELSE allowed
      /\ firstPin' = [firstPin EXCEPT ![e] = NoContent]
      /\ UNCHANGED <<file, version, bg, offered, loaded, starting>>
  BY DEF SaveDecision
<1>3. entry.content \in Content /\ entry.decision \in Decision
  BY <1>1 DEF Entry
<1> HIDE DEF e, entry
<1>4. decided' \in [Ext -> [content : Content, decision : Decision] \cup {NoEntry}]
  BY <1>1, <1>2, <1>3 DEF TypeIInv, TypeOK
<1>5. allowed' \in [Ext \ FirstParty -> SUBSET Content]
  BY <1>1, <1>2, <1>3 DEF TypeIInv, TypeOK
<1>6. firstPin' \in [Ext -> Content \cup {NoContent}]
  BY <1>1, <1>2 DEF TypeIInv, TypeOK
<1> QED
  BY <1>1, <1>2, <1>4, <1>5, <1>6 DEF TypeIInv, TypeOK

LEMMA SavePinKeepsTypes ==
    ASSUME TypeIInv, SavePin
    PROVE  TypeIInv'
<1> DEFINE e == bg.ext entry == bg.ledger[bg.ext]
<1>1. e \in Ext /\ bg.ledger \in Ledger /\ entry.content \in Content
  <2>1. bg \in Job /\ entry # NoEntry
    BY DEF SavePin, TypeIInv, TypeOK
  <2> QED BY <2>1 DEF Job, Ledger, Entry
<1>2. /\ ledger' = bg.ledger /\ bg' = Idle
      /\ firstPin' \in {firstPin, [firstPin EXCEPT ![e] = entry.content]}
      /\ UNCHANGED <<file, version, ui, offered, loaded, starting, runs, allowed, decided>>
  BY DEF SavePin
<1> HIDE DEF e, entry
<1>3. firstPin' \in [Ext -> Content \cup {NoContent}]
  BY <1>1, <1>2 DEF TypeIInv, TypeOK
<1> QED
  BY <1>1, <1>2, <1>3 DEF TypeIInv, TypeOK

LEMMA NextTypeIInv ==
    ASSUME MaxVersion \in Nat \ {0}, IInv, TypeIInv, [Next]_trustVars
    PROVE  TypeIInv'
<1> file' \in [Ext -> File]
  BY NextIInv DEF IInv
<1>1. ASSUME NEW e \in Ext, NEW d \in Decision, Decide(e, d)
      PROVE  TypeIInv'
  BY <1>1, DecideKeepsTypes
<1>2. ASSUME NEW e \in Ext, JudgeSidecar(e)
      PROVE  TypeIInv'
  BY <1>2, JudgeSidecarKeepsTypes
<1>3. ASSUME NEW e \in Ext, JudgeOther(e)
      PROVE  TypeIInv'
  <2>1. /\ Scanned(e, Assess(e, ledger)) \/ Judged(e, Assess(e, ledger))
        /\ UNCHANGED <<file, version, ledger, ui, bg, allowed, decided, firstPin>>
    BY <1>3 DEF JudgeOther
  <2>2. ProcessTypes
    BY <2>1, TrustedIsContent, JudgedTypes DEF TypeIInv
  <2> QED BY <2>1, <2>2 DEF ProcessTypes, TypeIInv, TypeOK
<1>4. ASSUME NEW e \in Ext, Start(e) \/ Replace(e)
      PROVE  TypeIInv'
  <2>1. UNCHANGED <<version, ledger, ui, bg, allowed, decided, firstPin>>
    BY <1>4 DEF Start, Replace
  <2>2. ProcessTypes
    BY <1>4, StartTypes, ReplaceTypes
  <2> QED BY <2>1, <2>2 DEF ProcessTypes, TypeIInv, TypeOK
<1>5. CASE SaveDecision
  BY <1>5, SaveDecisionKeepsTypes
<1>6. CASE SavePin
  BY <1>6, SavePinKeepsTypes
<1>7. CASE SaveFails
  BY <1>7 DEF SaveFails, TypeIInv, TypeOK
<1>8. CASE SavePinFails
  BY <1>8 DEF SavePinFails, TypeIInv, TypeOK
<1>9. CASE Restart
  BY <1>9 DEF Restart, TypeIInv, TypeOK, Version
<1>10. CASE Damage
  BY <1>10 DEF Damage, TypeIInv, TypeOK, Ledger, Empty
<1>11. CASE UNCHANGED trustVars
  BY <1>11 DEF trustVars, TypeIInv, TypeOK
<1> QED
  BY <1>1, <1>2, <1>3, <1>4, <1>5, <1>6, <1>7, <1>8, <1>9, <1>10, <1>11 DEF Next

\* The file, the two copies of it and what is remembered of the decisions keep
\* their shapes, for any number of releases and with a program that is gone.
THEOREM TypeCorrect ==
    ASSUME MaxVersion \in Nat \ {0}
    PROVE  Spec => []TypeOK
<1>1. TypeIInv => TypeOK
  BY DEF TypeIInv
<1>2. Init => IInv /\ TypeIInv
  BY InitIInv, InitTypeIInv
<1>3. IInv /\ TypeIInv /\ [Next]_trustVars => (IInv /\ TypeIInv)'
  BY NextIInv, NextTypeIInv
<1> QED
  BY <1>1, <1>2, <1>3, PTL DEF Spec

-----------------------------------------------------------------------------
(* One copy of the ledger at a time.                                       *)

PinnedNow(e) == ledger[e] # NoEntry /\ ledger[e].by = "pin" /\ ledger[e].pinned = version

\* A copy that is about to be saved differs from the file in one row only.
KeepsRest(job) == \A o \in Ext \ {job.ext} : job.ledger[o] = ledger[o]

\* The strengthening of OnePinPerRelease and DecisionsLast: there is one copy at
\* most, it is the file but for the row it is about, and a row that is about to
\* be pinned is neither pinned by this release nor denied.
AloneIInv ==
    /\ \A e \in Ext : ledger[e] # NoEntry => ledger[e].pinned \in 0 .. version
    /\ ui = Idle \/ bg = Idle
    /\ ui # Idle => /\ KeepsRest(ui)
                    /\ ui.ledger[ui.ext].by = "user" /\ ui.ledger[ui.ext].pinned = 0
    /\ bg # Idle => /\ KeepsRest(bg)
                    /\ bg.ledger[bg.ext].pinned = version
                    /\ bg.ext \in FirstParty /\ bg.ledger[bg.ext].decision # "Deny"
                    /\ ledger[bg.ext] # NoEntry =>
                         ledger[bg.ext].decision # "Deny" /\ ledger[bg.ext].pinned # version
    /\ \A e \in Ext : firstPin[e] # NoContent => PinnedNow(e)
    /\ OnePinPerRelease
    /\ DecisionsLast

LEMMA InitAloneIInv == Init => AloneIInv
  BY DEF Init, AloneIInv, Empty, PinnedNow, OnePinPerRelease, DecisionsLast

LEMMA DecideKeepsAlone ==
    ASSUME ~Overlap, TypeIInv, AloneIInv, NEW e \in Ext, NEW d \in Decision, Decide(e, d)
    PROVE  AloneIInv'
<1> DEFINE new == [content |-> file[e].content, decision |-> d, pinned |-> 0, by |-> "user"]
<1>1. /\ ui' = [ext |-> e, ledger |-> [ledger EXCEPT ![e] = new]]
      /\ bg = Idle
      /\ UNCHANGED <<version, ledger, bg, decided, firstPin>>
  BY DEF Decide, MayLoad
<1>2. /\ ui'.ext = e /\ ui'.ledger[e] = new
      /\ \A o \in Ext \ {e} : ui'.ledger[o] = ledger[o]
  BY <1>1 DEF TypeIInv, TypeOK, Ledger
<1> QED
  BY <1>1, <1>2 DEF AloneIInv, KeepsRest, PinnedNow, OnePinPerRelease, DecisionsLast

LEMMA JudgeSidecarKeepsAlone ==
    ASSUME ~Overlap, TypeIInv, AloneIInv, NEW e \in Ext, JudgeSidecar(e)
    PROVE  AloneIInv'
<1> DEFINE n == AssessSidecar(e, ledger).entry
<1>1. /\ ui = Idle /\ e \in FirstParty
      /\ bg' = IF n = NoEntry THEN Idle ELSE [ext |-> e, ledger |-> [ledger EXCEPT ![e] = n]]
      /\ UNCHANGED <<version, ledger, ui, decided, firstPin>>
  BY DEF JudgeSidecar, MayLoad, IsSidecar
<1>2. ASSUME n # NoEntry
      PROVE  /\ n.pinned = version /\ n.decision # "Deny"
             /\ ledger[e] # NoEntry => ledger[e].decision # "Deny" /\ ledger[e].pinned # version
  <2>1. CASE n = Pinned(e) /\ (ledger[e] # NoEntry =>
                                 ledger[e].decision # "Deny" /\ ledger[e].pinned # version)
    BY <2>1 DEF Pinned
  <2>2. CASE /\ n = [ledger[e] EXCEPT !.pinned = version] /\ ledger[e] \in Entry
             /\ ledger[e].decision # "Deny" /\ ledger[e].pinned # version
    BY <2>2 DEF Entry
  <2> QED BY <1>2, <2>1, <2>2, SidecarVerdict DEF TypeIInv
<1> HIDE DEF n
<1>3. bg' # Idle => /\ n # NoEntry /\ bg'.ext = e /\ bg'.ledger[e] = n
                    /\ \A o \in Ext \ {e} : bg'.ledger[o] = ledger[o]
  BY <1>1 DEF TypeIInv, TypeOK, Ledger
<1> QED
  BY <1>1, <1>2, <1>3 DEF AloneIInv, KeepsRest, PinnedNow, OnePinPerRelease, DecisionsLast

\* The row the user decided is the only one that changes, and it is no pin.
LEMMA SaveDecisionKeepsAlone ==
    ASSUME ~Overlap, TypeIInv, AloneIInv, SaveDecision
    PROVE  AloneIInv'
<1> DEFINE e == ui.ext entry == ui.ledger[ui.ext]
<1>1. /\ bg = Idle /\ bg' = Idle /\ ui' = Idle /\ version' = version
      /\ ledger' = ui.ledger
      /\ decided' = [decided EXCEPT ![e] = [content |-> entry.content, decision |-> entry.decision]]
      /\ firstPin' = [firstPin EXCEPT ![e] = NoContent]
      /\ e \in Ext /\ entry \in Entry /\ entry # NoEntry
  <2>1. ui # Idle /\ ui \in Job /\ entry # NoEntry
    BY DEF SaveDecision, TypeIInv, TypeOK
  <2> QED BY <2>1 DEF SaveDecision, AloneIInv, Job, Ledger
<1>2. /\ \A o \in Ext \ {e} : /\ ledger'[o] = ledger[o] /\ decided'[o] = decided[o]
                              /\ firstPin'[o] = firstPin[o]
      /\ ledger'[e] = entry /\ firstPin'[e] = NoContent
      /\ decided'[e] = [content |-> entry.content, decision |-> entry.decision]
      /\ entry.by = "user" /\ entry.pinned = 0
  BY <1>1 DEF SaveDecision, AloneIInv, KeepsRest, TypeIInv, TypeOK
<1> HIDE DEF e, entry
<1>3. \A o \in Ext : ledger'[o] # NoEntry => ledger'[o].pinned \in 0 .. version
  BY <1>2 DEF AloneIInv, TypeIInv, TypeOK, Version
<1>4. \A o \in Ext : firstPin'[o] # NoContent => PinnedNow(o)'
  BY <1>1, <1>2 DEF AloneIInv, PinnedNow
<1>5. OnePinPerRelease'
  BY <1>1, <1>2 DEF AloneIInv, OnePinPerRelease
<1>6. DecisionsLast'
  BY <1>1, <1>2 DEF AloneIInv, DecisionsLast
<1> QED
  BY <1>1, <1>3, <1>4, <1>5, <1>6 DEF AloneIInv

\* The row that is pinned is one this release has not pinned and nobody denied.
LEMMA SavePinKeepsAlone ==
    ASSUME ~Overlap, TypeIInv, AloneIInv, SavePin
    PROVE  AloneIInv'
<1> DEFINE e == bg.ext entry == bg.ledger[bg.ext]
<1>1. /\ ui = Idle /\ ui' = Idle /\ bg' = Idle /\ version' = version /\ decided' = decided
      /\ ledger' = bg.ledger
      /\ firstPin' = IF firstPin[e] = NoContent /\ entry.by = "pin"
                     THEN [firstPin EXCEPT ![e] = entry.content] ELSE firstPin
      /\ e \in Ext /\ entry \in Entry /\ entry # NoEntry
  <2>1. bg # Idle /\ bg \in Job /\ entry # NoEntry
    BY DEF SavePin, TypeIInv, TypeOK
  <2> QED BY <2>1 DEF SavePin, AloneIInv, Job, Ledger
<1>2. /\ entry.pinned = version /\ e \in FirstParty /\ entry.decision # "Deny"
      /\ ledger[e] # NoEntry => ledger[e].decision # "Deny" /\ ledger[e].pinned # version
      /\ \A o \in Ext \ {e} : ledger'[o] = ledger[o]
  BY <1>1 DEF SavePin, AloneIInv, KeepsRest
<1>3. firstPin[e] = NoContent
  BY <1>1, <1>2 DEF AloneIInv, PinnedNow
<1> HIDE DEF e, entry
<1>4. /\ \A o \in Ext \ {e} : firstPin'[o] = firstPin[o]
      /\ firstPin'[e] = IF entry.by = "pin" THEN entry.content ELSE NoContent
      /\ ledger'[e] = entry
  BY <1>1, <1>3 DEF TypeIInv, TypeOK, e, entry
<1>5. \A o \in Ext : ledger'[o] # NoEntry => ledger'[o].pinned \in 0 .. version
  BY <1>2, <1>4 DEF AloneIInv, TypeIInv, TypeOK, Version
<1>6. \A o \in Ext : firstPin'[o] # NoContent => PinnedNow(o)'
  BY <1>1, <1>2, <1>4 DEF AloneIInv, PinnedNow
<1>7. OnePinPerRelease'
  BY <1>1, <1>2, <1>4 DEF AloneIInv, OnePinPerRelease
<1>8. DecisionsLast'
  BY <1>1, <1>2, <1>4 DEF AloneIInv, DecisionsLast
<1> QED
  BY <1>1, <1>5, <1>6, <1>7, <1>8 DEF AloneIInv

LEMMA RestartKeepsAlone ==
    ASSUME TypeIInv, AloneIInv, Restart
    PROVE  AloneIInv'
<1>1. /\ ui' = Idle /\ bg' = Idle /\ UNCHANGED <<ledger, decided>>
      /\ \/ version' = version /\ firstPin' = firstPin
         \/ version' = version + 1 /\ firstPin' = [e \in Ext |-> NoContent]
  BY DEF Restart
<1>2. version \in Nat
  BY DEF TypeIInv, TypeOK, Version
<1>3. \A e \in Ext : ledger[e] # NoEntry => ledger[e].pinned \in 0 .. version
  BY DEF AloneIInv
<1>4. CASE version' = version /\ firstPin' = firstPin
  BY <1>1, <1>4 DEF AloneIInv, PinnedNow, OnePinPerRelease, DecisionsLast
<1>5. CASE version' = version + 1 /\ firstPin' = [e \in Ext |-> NoContent]
  <2>1. \A e \in Ext : ledger'[e] # NoEntry => ledger'[e].pinned \in 0 .. version' /\ ledger'[e].pinned # version'
    BY <1>1, <1>2, <1>3, <1>5
  <2>2. OnePinPerRelease'
    BY <2>1 DEF OnePinPerRelease
  <2>3. DecisionsLast'
    BY <1>1 DEF AloneIInv, DecisionsLast
  <2> QED BY <1>1, <1>5, <2>1, <2>2, <2>3 DEF AloneIInv
<1> QED BY <1>1, <1>4, <1>5

LEMMA NextAloneIInv ==
    ASSUME ~Overlap, TypeIInv, AloneIInv, [Next]_trustVars
    PROVE  AloneIInv'
<1> DEFINE Kept == UNCHANGED <<version, ledger, decided, firstPin>>
<1>1. ASSUME Kept, ui' = ui \/ ui' = Idle, bg' = bg \/ bg' = Idle
      PROVE  AloneIInv'
  BY <1>1 DEF AloneIInv, KeepsRest, PinnedNow, OnePinPerRelease, DecisionsLast
<1> HIDE DEF Kept
<1>2. ASSUME NEW e \in Ext, NEW d \in Decision, Decide(e, d)
      PROVE  AloneIInv'
  BY <1>2, DecideKeepsAlone
<1>3. ASSUME NEW e \in Ext, JudgeSidecar(e)
      PROVE  AloneIInv'
  BY <1>3, JudgeSidecarKeepsAlone
<1>4. ASSUME NEW e \in Ext, JudgeOther(e) \/ Start(e) \/ Replace(e)
      PROVE  AloneIInv'
  BY <1>1, <1>4 DEF JudgeOther, Start, Replace, Kept
<1>5. CASE SaveDecision
  BY <1>5, SaveDecisionKeepsAlone
<1>6. CASE SavePin
  BY <1>6, SavePinKeepsAlone
<1>7. CASE SaveFails \/ SavePinFails \/ UNCHANGED trustVars
  BY <1>1, <1>7 DEF SaveFails, SavePinFails, trustVars, Kept
<1>8. CASE Restart
  BY <1>8, RestartKeepsAlone
<1>9. CASE Damage
  BY <1>9 DEF Damage, Empty, AloneIInv, PinnedNow, OnePinPerRelease, DecisionsLast
<1> QED
  BY <1>2, <1>3, <1>4, <1>5, <1>6, <1>7, <1>8, <1>9 DEF Next

\* Where the settings page and the starting threads do not hold copies of the
\* ledger at once, a release pins the files of a packaged extension once, and
\* no decision the user saw accepted is undone by a pin, a failed save, a new
\* release or a crash between load and save.
THEOREM DecisionsAndPinsLast ==
    ASSUME MaxVersion \in Nat \ {0}, ~Overlap
    PROVE  Spec => [](OnePinPerRelease /\ DecisionsLast)
<1>1. Init => IInv /\ TypeIInv /\ AloneIInv
  BY InitIInv, InitTypeIInv, InitAloneIInv
<1>2. IInv /\ TypeIInv /\ AloneIInv /\ [Next]_trustVars => (IInv /\ TypeIInv /\ AloneIInv)'
  BY NextIInv, NextTypeIInv, NextAloneIInv
<1>3. AloneIInv => OnePinPerRelease /\ DecisionsLast
  BY DEF AloneIInv
<1> QED
  BY <1>1, <1>2, <1>3, PTL DEF Spec
=============================================================================
