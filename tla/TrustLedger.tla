---------------------------- MODULE TrustLedger ----------------------------
(***************************************************************************)
(* Which extensions the host may run (crates/dd-host: trust.rs,            *)
(* signing.rs; crates/dd-gui: aggregator/scan.rs, aggregator/spawn.rs,     *)
(* app/keys/settings_actions.rs).  Consent is kept per extension in        *)
(* trust.json, bound to the contents of its manifest and its program.  The *)
(* settings page and the threads that start extensions each load the file, *)
(* change their copy and write all of it back.                             *)
(***************************************************************************)
EXTENDS Naturals, FiniteSets

CONSTANTS
    Ext,            \* installed extensions, the built-in ones aside
    FirstParty,     \* FIRST_PARTY_IDS
    Signed,         \* extensions beside whose manifest a signature may lie
    Manifest,       \* what the manifest of an extension can say
    Program,        \* what the program it names can be
    MaxVersion,     \* bound: releases of the host
    Overlap         \* may the two copies of the ledger exist at once

Decision == {"Allow", "Deny"}
Version == 1 .. MaxVersion

\* What sha256_file tells apart; a program may be gone.
Content == [manifest : Manifest, program : Program]
Found == [manifest : Manifest, program : Program \cup {"gone"}]

NoContent == [manifest |-> "none"]
Garbled == [manifest |-> "?"]

\* ExtOrigin and the files behind an extension.  A signature file holds the
\* publisher's signature over some content, is garbled or is not there.
File == [origin : {"Sidecar", "UserDir"},
         content : Found,
         sig : Content \cup {Garbled, NoContent}]

\* TrustEntry; a decision of the user has pinned = 0, the empty version.
Entry == [content : Content, decision : Decision, pinned : {0} \cup Version,
          by : {"user", "pin"}]
NoEntry == [content |-> "none"]
Ledger == [Ext -> Entry \cup {NoEntry}]
Empty == [e \in Ext |-> NoEntry]

\* A copy of the ledger that is about to be written back.
Idle == [ext |-> "none"]
Job == [ext : Ext, ledger : Ledger]

\* LoadedExtension; history: its file was replaced since it was read.
Loaded == [manifest : Manifest, replaced : BOOLEAN]

\* A start between its judgement and the spawn: the manifest in memory, what
\* was hashed, what the signature is over, and the history of a file replaced
\* after it was read, the manifest by the scan or the program by the judgement.
Cleared == [manifest : Manifest, content : Content,
            signed : Content \cup {NoContent}, replaced : BOOLEAN]
Process == [content : Content, signed : Content \cup {NoContent}, replaced : BOOLEAN]

VARIABLES
    file,
    version,        \* HOST_VERSION
    ledger,         \* what trust.json says
    ui,             \* set_extension_trust between load and save
    bg,             \* assess_sidecar between load and save
    offered,        \* the rows that offer "allow" and "block" since the last scan
    loaded,         \* the manifests of the last scan, in memory
    starting,       \* starts that were judged and have not spawned yet
    runs,           \* what the last start of an extension runs
    allowed,        \* history: contents the user allowed, first party aside
    decided,        \* history: the last decision the user saw accepted
    firstPin        \* history: what this release pinned first

trustVars == <<file, version, ledger, ui, bg, offered, loaded, starting, runs,
               allowed, decided, firstPin>>

TypeOK ==
    /\ file \in [Ext -> File]
    /\ version \in Version
    /\ ledger \in Ledger
    /\ ui \in Job \cup {Idle} /\ bg \in Job \cup {Idle}
    /\ offered \subseteq Ext
    /\ loaded \in [Ext -> Loaded \cup {NoEntry}]
    /\ starting \in [Ext -> Cleared \cup {NoEntry}]
    /\ runs \in [Ext -> Process \cup {NoEntry}]
    /\ allowed \in [Ext \ FirstParty -> SUBSET Content]
    /\ decided \in [Ext -> [content : Content, decision : Decision] \cup {NoEntry}]
    /\ firstPin \in [Ext -> Content \cup {NoContent}]

\* A fresh installation: the packaged extensions, unsigned or signed.
Init ==
    /\ \E c \in Content, s \in [Ext -> Content \cup {NoContent}] :
           /\ \A e \in Ext : s[e] \in IF e \in Signed THEN {c, NoContent} ELSE {NoContent}
           /\ file = [e \in Ext |-> [content |-> c, sig |-> s[e],
               origin |-> IF e \in FirstParty THEN "Sidecar" ELSE "UserDir"]]
    /\ version = 1
    /\ ledger = Empty
    /\ ui = Idle /\ bg = Idle
    /\ offered = {}
    /\ loaded = [e \in Ext |-> NoEntry]
    /\ starting = [e \in Ext |-> NoEntry]
    /\ runs = [e \in Ext |-> NoEntry]
    /\ allowed = [e \in Ext \ FirstParty |-> {}]
    /\ decided = [e \in Ext |-> NoEntry]
    /\ firstPin = [e \in Ext |-> NoContent]

-----------------------------------------------------------------------------
(* Judging.                                                                *)

\* Mutant: the program may have been replaced.
HashesMatchManifest(e, entry) ==
    file[e].content.manifest = entry.content.manifest

\* hashes_match: both hashes, and a file that is gone matches nothing.
HashesMatch(e, entry) ==
    /\ file[e].content.manifest = entry.content.manifest
    /\ file[e].content.program = entry.content.program

\* check_signature_parts: whatever is wrong with a signature that is there,
\* its form, its content or a file that cannot be hashed, makes it invalid.
Signature(e) ==
    CASE file[e].sig = NoContent -> "Absent"
      [] file[e].sig = file[e].content -> "Valid"
      [] OTHER -> "Invalid"

\* assess_with_publisher: the user's denial comes before a valid signature.
Assess(e, l) ==
    LET known == l[e] # NoEntry
        denied == known /\ l[e].decision = "Deny"
        same == known /\ HashesMatch(e, l[e])
    IN  IF Signature(e) = "Invalid" THEN "Pending"
        ELSE IF denied THEN IF same THEN "Blocked" ELSE "Pending"
        ELSE IF Signature(e) = "Valid" \/ same THEN "AutoTrusted" ELSE "Pending"

Pinned(e) == [content |-> file[e].content, decision |-> "Allow",
              pinned |-> version, by |-> "pin"]

\* assess_sidecar_with_ledger: the verdict and the entry to write back
\* (NoEntry when nothing changes).
AssessSidecar(e, l) ==
    LET entry == l[e]
        gone == file[e].content.program = "gone"
        verdict(t, n) == [trust |-> t, entry |-> n]
        pin == IF gone THEN verdict("Pending", NoEntry)
                       ELSE verdict("AutoTrusted", Pinned(e))
    IN  IF Signature(e) = "Valid" THEN verdict("AutoTrusted", NoEntry)
        ELSE IF Signature(e) = "Invalid" THEN verdict("Pending", NoEntry)
        ELSE IF entry = NoEntry THEN pin
        ELSE IF entry.decision = "Deny"
             THEN verdict(IF HashesMatch(e, entry) THEN "Blocked" ELSE "Pending", NoEntry)
        ELSE IF HashesMatch(e, entry)
             THEN verdict("AutoTrusted", IF entry.pinned = version THEN NoEntry
                                         ELSE [entry EXCEPT !.pinned = version])
        ELSE IF entry.pinned = version THEN verdict("Pending", NoEntry)
        ELSE pin

\* uses_sidecar_assessment
IsSidecar(e) == file[e].origin = "Sidecar" /\ e \in FirstParty

\* A scan reads the manifest and fills the trust map behind the settings page.
Scanned(e, trust) ==
    /\ loaded' = [loaded EXCEPT ![e] =
                     [manifest |-> file[e].content.manifest, replaced |-> FALSE]]
    /\ offered' = IF trust = "AutoTrusted" THEN offered \ {e} ELSE offered \cup {e}
    /\ UNCHANGED <<starting, runs>>

\* A start, of an extension the scan found trusted, is cleared or refused.
Judged(e, trust) ==
    /\ loaded[e] # NoEntry /\ e \notin offered /\ starting[e] = NoEntry
    /\ starting' = [starting EXCEPT ![e] =
           IF trust = "AutoTrusted"
           THEN [manifest |-> loaded[e].manifest, content |-> file[e].content,
                 signed |-> IF Signature(e) = "Valid" THEN file[e].sig ELSE NoContent,
                 replaced |-> loaded[e].replaced]
           ELSE NoEntry]
    /\ runs' = [runs EXCEPT ![e] = NoEntry]
    /\ UNCHANGED <<offered, loaded>>

MayLoad == Overlap \/ (ui = Idle /\ bg = Idle)

-----------------------------------------------------------------------------
(* The settings page.                                                      *)

\* set_extension_trust, offered by ExtRow::needs_approval, up to save: load and
\* record with the hashes of now; a file that cannot be hashed ends it.
Decide(e, d) ==
    /\ ui = Idle /\ MayLoad /\ e \in offered
    /\ file[e].content.program # "gone"
    /\ ui' = [ext |-> e, ledger |-> [ledger EXCEPT ![e] =
           [content |-> file[e].content, decision |-> d, pinned |-> 0, by |-> "user"]]]
    /\ UNCHANGED <<file, version, ledger, bg, offered, loaded, starting, runs, allowed, decided, firstPin>>

\* save through atomic_write replaces the whole file, and restart_aggregation
\* has every extension judged again.
SaveDecision ==
    /\ ui # Idle
    /\ ledger' = ui.ledger
    /\ LET e == ui.ext entry == ui.ledger[ui.ext]
       IN  /\ decided' = [decided EXCEPT ![e] =
                  [content |-> entry.content, decision |-> entry.decision]]
           /\ allowed' = IF entry.decision = "Allow" /\ e \notin FirstParty
                         THEN [allowed EXCEPT ![e] = @ \cup {entry.content}] ELSE allowed
           /\ firstPin' = [firstPin EXCEPT ![e] = NoContent]
    /\ ui' = Idle
    /\ runs' = [e \in Ext |-> NoEntry]
    /\ UNCHANGED <<file, version, bg, offered, loaded, starting>>

\* The write failed: a toast, and the file is as it was.
SaveFails ==
    /\ ui # Idle
    /\ ui' = Idle
    /\ UNCHANGED <<file, version, ledger, bg, offered, loaded, starting, runs, allowed, decided, firstPin>>

-----------------------------------------------------------------------------
(* The threads that start extensions.                                      *)

\* A scan, or assess_for_spawn, of all but packaged first-party extensions.
JudgeOther(e) ==
    /\ ~IsSidecar(e)
    /\ LET trust == Assess(e, ledger) IN Scanned(e, trust) \/ Judged(e, trust)
    /\ UNCHANGED <<file, version, ledger, ui, bg, allowed, decided, firstPin>>

\* assess_sidecar up to save_ledger_quiet.
JudgeSidecar(e) ==
    /\ IsSidecar(e) /\ bg = Idle /\ MayLoad
    /\ LET v == AssessSidecar(e, ledger)
       IN  /\ Scanned(e, v.trust) \/ Judged(e, v.trust)
           /\ bg' = IF v.entry = NoEntry THEN Idle
                    ELSE [ext |-> e, ledger |-> [ledger EXCEPT ![e] = v.entry]]
    /\ UNCHANGED <<file, version, ledger, ui, allowed, decided, firstPin>>

SavePin ==
    /\ bg # Idle
    /\ ledger' = bg.ledger
    /\ firstPin' = IF firstPin[bg.ext] = NoContent /\ bg.ledger[bg.ext].by = "pin"
                   THEN [firstPin EXCEPT ![bg.ext] = bg.ledger[bg.ext].content]
                   ELSE firstPin
    /\ bg' = Idle
    /\ UNCHANGED <<file, version, ui, offered, loaded, starting, runs, allowed, decided>>

\* ExtensionProcess::spawn, after the verdict: the command of the manifest in
\* memory, and whatever program is on the disk by now.
Start(e) ==
    /\ starting[e] # NoEntry
    /\ starting' = [starting EXCEPT ![e] = NoEntry]
    /\ runs' = [runs EXCEPT ![e] =
           IF file[e].content.program = "gone" THEN NoEntry
           ELSE [content |-> [manifest |-> starting[e].manifest,
                              program |-> file[e].content.program],
                 signed |-> starting[e].signed, replaced |-> starting[e].replaced]]
    /\ UNCHANGED <<file, version, ledger, ui, bg, offered, loaded, allowed, decided, firstPin>>

\* save_ledger_quiet swallows the failure; the extension runs all the same.
SavePinFails ==
    /\ bg # Idle
    /\ bg' = Idle
    /\ UNCHANGED <<file, version, ledger, ui, offered, loaded, starting, runs, allowed, decided, firstPin>>

-----------------------------------------------------------------------------
(* The world outside.                                                      *)

\* A file is replaced, or the user's directory comes to shadow the packaged one.
Replace(e) ==
    /\ \/ \E p \in Program \cup {"gone"} : file' = [file EXCEPT ![e].content.program = p]
       \/ \E m \in Manifest : file' = [file EXCEPT ![e].content.manifest = m]
       \/ /\ e \in Signed
          /\ \E s \in Content \cup {Garbled, NoContent} : file' = [file EXCEPT ![e].sig = s]
       \/ /\ e \in FirstParty
          /\ \E o \in {"Sidecar", "UserDir"} : file' = [file EXCEPT ![e].origin = o]
    /\ file' # file
    /\ loaded' = IF loaded[e] # NoEntry /\ file'[e].content.manifest # file[e].content.manifest
                 THEN [loaded EXCEPT ![e].replaced = TRUE] ELSE loaded
    /\ starting' = IF starting[e] # NoEntry /\ file'[e].content.program # file[e].content.program
                   THEN [starting EXCEPT ![e].replaced = TRUE] ELSE starting
    /\ UNCHANGED <<version, ledger, ui, bg, offered, runs, allowed, decided, firstPin>>

\* The host is started again: what was unsaved is lost, and a new release may
\* bring other packaged files.
Restart ==
    /\ ui' = Idle /\ bg' = Idle
    /\ offered' = {}
    /\ loaded' = [e \in Ext |-> NoEntry]
    /\ starting' = [e \in Ext |-> NoEntry]
    /\ runs' = [e \in Ext |-> NoEntry]
    /\ \/ version' = version /\ UNCHANGED firstPin
       \/ /\ version < MaxVersion /\ version' = version + 1
          /\ firstPin' = [e \in Ext |-> NoContent]
    /\ UNCHANGED <<file, ledger, allowed, decided>>

\* trust.json is damaged or lost: load_with_state takes it for an empty ledger,
\* and with it every consent is gone.  A start that was judged before counts
\* as one that ended before: it does not look at the ledger again.
Damage ==
    /\ ui = Idle /\ bg = Idle
    /\ \A e \in Ext : starting[e] = NoEntry
    /\ ledger' = Empty
    /\ decided' = [e \in Ext |-> NoEntry]
    /\ allowed' = [e \in Ext \ FirstParty |-> {}]
    /\ firstPin' = [e \in Ext |-> NoContent]
    /\ runs' = [e \in Ext |-> NoEntry]
    /\ UNCHANGED <<file, version, ui, bg, offered, loaded, starting>>

Next ==
    \/ \E e \in Ext : \/ \E d \in Decision : Decide(e, d)
                      \/ JudgeOther(e) \/ JudgeSidecar(e) \/ Start(e) \/ Replace(e)
    \/ SaveDecision \/ SaveFails \/ SavePin \/ SavePinFails
    \/ Restart \/ Damage

Spec == Init /\ [][Next]_trustVars

-----------------------------------------------------------------------------
(* Properties.                                                             *)

\* An extension that was not packaged with the host is cleared to start only
\* with contents the user allowed for it or the publisher signed, and these are
\* what then runs, whatever is replaced on the disk before the decision, the
\* scan or the judgement.  Left open are a manifest replaced between the scan
\* that read it and the judgement that hashes it, and a program replaced
\* between its hash and its start.
NothingRunsUnasked ==
    \A e \in Ext \ FirstParty :
        /\ starting[e] # NoEntry =>
               starting[e].content \in allowed[e] \cup {starting[e].signed}
        /\ runs[e] # NoEntry =>
               \/ runs[e].content \in allowed[e] \cup {runs[e].signed}
               \/ runs[e].replaced

\* A decision the user saw accepted is not lost: a denial stays in the ledger,
\* and so does the consent to an extension the host does not package (a
\* packaged one is pinned again by the next release).
DecisionsLast ==
    \A e \in Ext :
        decided[e] # NoEntry /\ (decided[e].decision = "Deny" \/ e \notin FirstParty) =>
            /\ ledger[e] # NoEntry
            /\ ledger[e].content = decided[e].content
            /\ ledger[e].decision = decided[e].decision

\* One release pins one content of a packaged extension: files replaced under
\* the same release are not pinned again until the user decides.
OnePinPerRelease ==
    \A e \in Ext :
        ledger[e] # NoEntry /\ ledger[e].by = "pin" /\ ledger[e].pinned = version
            => ledger[e].content = firstPin[e]

\* What the user denied does not run, as the code comment of assess_sidecar
\* has it ("a denial of the user always comes first").
DenialHolds ==
    \A e \in Ext :
        decided[e] # NoEntry /\ decided[e].decision = "Deny" /\ runs[e] # NoEntry
            => runs[e].content # decided[e].content
=============================================================================
