----------------------------- MODULE HostProofs -----------------------------
(***************************************************************************)
(* Proofs about the parts of the host (MCHost): the stubs on disk, what    *)
(* starts and with which environment, the extensions inside the host, the  *)
(* loop of an extension's SDK, the scan of the manifests and the framing   *)
(* of the lines; at the end, the types of all of them.  The parts share no *)
(* variable: each has an invariant of its own, kept by its steps and by    *)
(* those of the others, which leave its variables alone.                   *)
(***************************************************************************)
EXTENDS MCHost, InboundGateProofs, Integers, FiniteSetTheorems, SequenceTheorems,
        WellFoundedInduction

-----------------------------------------------------------------------------
(* The stubs on disk (FrozenCache).                                        *)

\* What every file holds: a snapshot lies under a name of its version and was
\* given by the extension it names, and under a new name there is none for a
\* pair with fallbacks.
OwnFile(n) ==
    /\ disk[n] \in Stubs!Snapshot =>
          /\ disk[n].by = <<disk[n].ext, disk[n].version>>
          /\ disk[n].version = n.version
    /\ n.kind = "new" /\ disk[n] # Stubs!Absent => <<n.stem, n.version>> \notin Fallback

\* The strengthening of both properties: the files as above, and no round is
\* about to save the commands of an extension with fallbacks.
StubsIInv ==
    /\ Stubs!TypeOK
    /\ \A n \in Stubs!Name : OwnFile(n)
    /\ \A r \in Round, e \in Frozen :
          task[r][e].at = "invalidated" => <<e, task[r][e].version>> \notin Fallback
    /\ Stubs!StubsAreTheirOwn

\* Under a name there is one version and one pair, so a stub is found under
\* its own.
LEMMA StubNames ==
    ASSUME NEW e \in Frozen, NEW v \in Release
    PROVE  /\ Stubs!New(e, v) \in Stubs!Name /\ Stubs!New(e, v).version = v
           /\ Stubs!New(e, v).kind = "new" /\ Stubs!New(e, v).stem = e
           /\ Stubs!Legacy(v) \in Stubs!Name /\ Stubs!Legacy(v).version = v
           /\ Stubs!Legacy(v).kind = "legacy"
  BY DEF Stubs!New, Stubs!Legacy, Stubs!Name

\* An empty place and a damaged one hold no stub.
LEMMA NoSnapshot ==
    Stubs!Absent \notin Stubs!Snapshot /\ Stubs!Corrupt \notin Stubs!Snapshot
    /\ Stubs!Absent # Stubs!Corrupt
  BY DEF Stubs!Absent, Stubs!Corrupt, Stubs!Snapshot

\* What FrozenCache::load finds was given by the extension it is asked for, in
\* the version it is asked for.
LEMMA LoadIsOwn ==
    ASSUME StubsIInv, NEW e \in Frozen, NEW v \in Release,
           Stubs!Load(e, v) # Stubs!Absent
    PROVE  Stubs!Load(e, v).by = <<e, v>>
<1>1. PICK n \in Stubs!Name : n.version = v /\ Stubs!Load(e, v) = Stubs!Verified(n, e)
  BY StubNames DEF Stubs!Load
<1>2. disk[n] \in Stubs!Snapshot /\ disk[n].ext = e /\ Stubs!Load(e, v) = disk[n]
  BY <1>1 DEF Stubs!Verified
<1> QED
  BY <1>1, <1>2 DEF StubsIInv, OwnFile

\* There is nothing on disk at first.
LEMMA StubsInit == Stubs!Init => StubsIInv
<1> SUFFICES ASSUME Stubs!Init PROVE StubsIInv
  OBVIOUS
<1>1. PICK old \in [Release -> {Stubs!Corrupt, Stubs!Absent} \cup
                        {s \in Stubs!Snapshot : s.by = <<s.ext, s.version>>}] :
          /\ \A v \in Release : old[v] \in Stubs!Snapshot => old[v].version = v
          /\ disk = [n \in Stubs!Name |->
                       IF n.kind = "legacy" THEN old[n.version] ELSE Stubs!Absent]
  BY DEF Stubs!Init
<1>2. \A n \in Stubs!Name : n.version \in Release /\ n.kind \in {"new", "legacy"}
  BY DEF Stubs!Name
<1>3. \A n \in Stubs!Name : disk[n] \in Stubs!Snapshot \cup {Stubs!Corrupt, Stubs!Absent} /\ OwnFile(n)
  BY <1>1, <1>2, NoSnapshot DEF OwnFile
<1>4. disk = [n \in Stubs!Name |-> disk[n]]
  BY <1>1
<1>5. disk \in [Stubs!Name -> Stubs!Snapshot \cup {Stubs!Corrupt, Stubs!Absent}]
  BY <1>3, <1>4
<1> QED
  BY <1>3, <1>5 DEF Stubs!Init, StubsIInv, Stubs!TypeOK, Stubs!StubsAreTheirOwn, Stubs!Quiet

\* A step of one round with one extension leaves the others where they are.
LEMMA OneTaskMoves ==
    ASSUME StubsIInv, NEW r \in Round, NEW e \in Frozen, NEW t \in Stubs!Task \cup {Stubs!Quiet},
           task' = [task EXCEPT ![r][e] = t]
    PROVE  /\ task' \in [Round -> [Frozen -> Stubs!Task \cup {Stubs!Quiet}]]
           /\ task'[r][e] = t
           /\ \A q \in Round, x \in Frozen : q # r \/ x # e => task'[q][x] = task[q][x]
  BY DEF StubsIInv, Stubs!TypeOK

\* A round begins: it reads what is on disk, and no more.
LEMMA BeginKeepsStubsIInv ==
    ASSUME StubsIInv, NEW r \in Round, NEW e \in Frozen, Stubs!Begin(r, e)
    PROVE  StubsIInv'
<1> DEFINE v == installed[e]
           hit == Stubs!Load(e, v)
           t == IF hit # Stubs!Absent THEN [at |-> "stub", version |-> v, by |-> hit.by]
                                      ELSE [at |-> "opened", version |-> v]
<1>1. v \in Release
  BY DEF StubsIInv, Stubs!TypeOK
<1>2. hit # Stubs!Absent => hit.by = <<e, v>>
  BY <1>1, LoadIsOwn
<1>3. task' = [task EXCEPT ![r][e] = t] /\ UNCHANGED <<disk, installed>>
  BY DEF Stubs!Begin
<1> HIDE DEF hit, v
<1>4. /\ t \in Stubs!Task \cup {Stubs!Quiet}
      /\ t.at # "invalidated"
      /\ t.at = "stub" => t.by = <<e, t.version>>
  BY <1>1, <1>2 DEF Stubs!Task
<1> HIDE DEF t
<1> QED
  BY <1>3, <1>4, OneTaskMoves DEF StubsIInv, Stubs!TypeOK, OwnFile, Stubs!StubsAreTheirOwn

\* An extension answered: its stub is the one it gave.
LEMMA AnsweredKeepsStubsIInv ==
    ASSUME StubsIInv, NEW r \in Round, NEW e \in Frozen, Stubs!Answered(r, e)
    PROVE  StubsIInv'
<1> DEFINE v == task[r][e].version
           t == IF <<e, v>> \in Fallback THEN Stubs!Quiet ELSE [at |-> "invalidated", version |-> v]
<1>1. task[r][e] \in Stubs!Task /\ v \in Release
  <2>1. task[r][e] \in Stubs!Task \cup {Stubs!Quiet} /\ task[r][e].at = "opened"
    BY DEF StubsIInv, Stubs!TypeOK, Stubs!Answered
  <2> QED BY <2>1 DEF Stubs!Task, Stubs!Quiet
<1>2. task' = [task EXCEPT ![r][e] = t] /\ UNCHANGED installed
  BY DEF Stubs!Answered
<1>3. \A n \in Stubs!Name : disk'[n] = disk[n] \/ disk'[n] = Stubs!Absent
  BY DEF Stubs!Answered
<1>4. disk' \in [Stubs!Name -> Stubs!Snapshot \cup {Stubs!Corrupt, Stubs!Absent}]
  BY DEF Stubs!Answered, StubsIInv, Stubs!TypeOK
<1>5. /\ t \in Stubs!Task \cup {Stubs!Quiet} /\ t.at # "stub"
      /\ t.at = "invalidated" => <<e, t.version>> \notin Fallback
  BY <1>1 DEF Stubs!Task, Stubs!Quiet
<1>6. \A n \in Stubs!Name : OwnFile(n)'
  BY <1>3, NoSnapshot DEF StubsIInv, OwnFile
<1> HIDE DEF t
<1>7. /\ task' \in [Round -> [Frozen -> Stubs!Task \cup {Stubs!Quiet}]]
      /\ task'[r][e] = t
      /\ \A q \in Round, x \in Frozen : q # r \/ x # e => task'[q][x] = task[q][x]
  BY <1>2, <1>5, OneTaskMoves
<1>8. Stubs!TypeOK'
  BY <1>2, <1>4, <1>7 DEF StubsIInv, Stubs!TypeOK
<1>9. \A q \in Round, x \in Frozen :
         /\ task'[q][x].at = "invalidated" => <<x, task'[q][x].version>> \notin Fallback
         /\ task'[q][x].at = "stub" => task'[q][x].by = <<x, task'[q][x].version>>
  BY <1>5, <1>7 DEF StubsIInv, Stubs!StubsAreTheirOwn
<1> QED
  BY <1>6, <1>8, <1>9 DEF StubsIInv, Stubs!StubsAreTheirOwn

\* A stub is written, whole or damaged, under the name of its version.
LEMMA SaveKeepsStubsIInv ==
    ASSUME StubsIInv, NEW r \in Round, NEW e \in Frozen, Stubs!Save(r, e)
    PROVE  StubsIInv'
<1> DEFINE v == task[r][e].version
           saved == [ext |-> e, version |-> v, by |-> <<e, v>>]
<1>1. v \in Release /\ <<e, v>> \notin Fallback
  <2>1. task[r][e] \in Stubs!Task \cup {Stubs!Quiet} /\ task[r][e].at = "invalidated"
    BY DEF StubsIInv, Stubs!TypeOK, Stubs!Save
  <2> QED BY <2>1 DEF Stubs!Task, Stubs!Quiet, StubsIInv
<1>2. /\ task' = [task EXCEPT ![r][e] = Stubs!Quiet] /\ UNCHANGED installed
      /\ disk' = [disk EXCEPT ![Stubs!New(e, v)] = saved] \/ UNCHANGED disk
  BY DEF Stubs!Save
<1>3. saved \in Stubs!Snapshot
  BY <1>1 DEF Stubs!Snapshot
<1>4. /\ \A n \in Stubs!Name : disk'[n] = disk[n] \/ (n = Stubs!New(e, v) /\ disk'[n] = saved)
      /\ disk' \in [Stubs!Name -> Stubs!Snapshot \cup {Stubs!Corrupt, Stubs!Absent}]
  <2> HIDE DEF v, saved
  <2>1. Stubs!New(e, v) \in Stubs!Name
    BY <1>1, StubNames
  <2>2. disk \in [Stubs!Name -> Stubs!Snapshot \cup {Stubs!Corrupt, Stubs!Absent}]
    BY DEF StubsIInv, Stubs!TypeOK
  <2> QED BY <1>2, <1>3, <2>1, <2>2
<1>5. \A n \in Stubs!Name : OwnFile(n)'
  <2> SUFFICES ASSUME NEW n \in Stubs!Name PROVE OwnFile(n)'
    OBVIOUS
  <2>1. CASE disk'[n] = disk[n]
    BY <2>1 DEF StubsIInv, OwnFile
  <2>2. CASE n = Stubs!New(e, v) /\ disk'[n] = saved
    <3>1. n.version = v /\ n.stem = e
      BY <1>1, <2>2, StubNames
    <3> QED BY <1>1, <2>2, <3>1 DEF OwnFile
  <2> QED BY <1>4, <2>1, <2>2
<1> HIDE DEF v, saved
<1>6. /\ task' \in [Round -> [Frozen -> Stubs!Task \cup {Stubs!Quiet}]]
      /\ task'[r][e] = Stubs!Quiet
      /\ \A q \in Round, x \in Frozen : q # r \/ x # e => task'[q][x] = task[q][x]
  BY <1>2, OneTaskMoves
<1>7. Stubs!TypeOK'
  BY <1>2, <1>4, <1>6 DEF StubsIInv, Stubs!TypeOK
<1>8. \A q \in Round, x \in Frozen :
         /\ task'[q][x].at = "invalidated" => <<x, task'[q][x].version>> \notin Fallback
         /\ task'[q][x].at = "stub" => task'[q][x].by = <<x, task'[q][x].version>>
  BY <1>6 DEF StubsIInv, Stubs!StubsAreTheirOwn, Stubs!Quiet
<1> QED
  BY <1>5, <1>7, <1>8 DEF StubsIInv, Stubs!StubsAreTheirOwn

\* A round ends: its stubs are on screen.
LEMMA EndKeepsStubsIInv ==
    ASSUME StubsIInv, NEW r \in Round, NEW e \in Frozen, Stubs!End(r, e)
    PROVE  StubsIInv'
<1>1. task' = [task EXCEPT ![r][e] = Stubs!Quiet] /\ UNCHANGED <<disk, installed>>
  BY DEF Stubs!End
<1>2. /\ task' \in [Round -> [Frozen -> Stubs!Task \cup {Stubs!Quiet}]]
      /\ task'[r][e] = Stubs!Quiet
      /\ \A q \in Round, x \in Frozen : q # r \/ x # e => task'[q][x] = task[q][x]
  BY <1>1, OneTaskMoves
<1> QED
  BY <1>1, <1>2 DEF StubsIInv, Stubs!TypeOK, OwnFile, Stubs!StubsAreTheirOwn, Stubs!Quiet

\* Every step keeps the invariant of the stubs.
LEMMA StubsNext ==
    ASSUME StubsIInv, Stubs!Next
    PROVE  StubsIInv'
<1>1. ASSUME NEW r \in Round, NEW e \in Frozen,
             Stubs!Begin(r, e) \/ Stubs!Answered(r, e) \/ Stubs!Save(r, e) \/ Stubs!End(r, e)
      PROVE  StubsIInv'
  BY <1>1, BeginKeepsStubsIInv, AnsweredKeepsStubsIInv, SaveKeepsStubsIInv, EndKeepsStubsIInv
<1>2. ASSUME NEW e \in Frozen, Stubs!Install(e)
      PROVE  StubsIInv'
  BY <1>2 DEF Stubs!Install, StubsIInv, Stubs!TypeOK, OwnFile, Stubs!StubsAreTheirOwn
<1>3. ASSUME NEW n \in Stubs!Name, Stubs!Damage(n)
      PROVE  StubsIInv'
  BY <1>3, NoSnapshot DEF Stubs!Damage, StubsIInv, Stubs!TypeOK, OwnFile, Stubs!StubsAreTheirOwn
<1> QED
  BY <1>1, <1>2, <1>3 DEF Stubs!Next

\* The host never shows a stub that another extension, or another version of
\* the same, has written, and never leaves one that would keep it from asking
\* an extension for its fallbacks, for all extensions, versions and overlapping
\* rounds (cache.rs, spawn.rs).
THEOREM StubsStaySound == HostSpec => []StubsAreSound
<1> DEFINE I == part = "stubs" => StubsIInv
<1>1. HostInit => I
  BY StubsInit DEF HostInit, StubsStart
<1>2. I /\ [HostNext]_hostVars => I'
  <2>1. ASSUME I, HostNext PROVE I'
    <3>1. CASE part = "stubs"
      <4>1. part' = "stubs" /\ (Stubs!Next \/ UNCHANGED stubsVars)
        BY <2>1, <3>1 DEF HostNext
      <4> QED
        BY <2>1, <3>1, <4>1, StubsNext DEF stubsVars, StubsIInv, Stubs!TypeOK, OwnFile, Stubs!StubsAreTheirOwn
    <3>2. CASE part # "stubs"
      BY <2>1, <3>2 DEF HostNext
    <3> QED BY <3>1, <3>2
  <2>2. ASSUME I, UNCHANGED hostVars PROVE I'
    BY <2>2 DEF hostVars, stubsVars, StubsIInv, Stubs!TypeOK, OwnFile, Stubs!StubsAreTheirOwn
  <2> QED BY <2>1, <2>2
<1>3. I => StubsAreSound
  <2> SUFFICES ASSUME StubsIInv PROVE Stubs!StubsAreTheirOwn /\ Stubs!NoStubHidesFallbacks
    BY DEF StubsAreSound
  <2>1. ASSUME NEW p \in Fallback PROVE disk[Stubs!New(p[1], p[2])] = Stubs!Absent
    <3>1. p[1] \in Frozen /\ p[2] \in Release /\ p = <<p[1], p[2]>>
      BY HostAssumption
    <3> QED BY <2>1, <3>1, StubNames DEF StubsIInv, OwnFile
  <2> QED BY <2>1 DEF StubsIInv, Stubs!NoStubHidesFallbacks
<1> QED
  BY <1>1, <1>2, <1>3, PTL DEF HostSpec
-----------------------------------------------------------------------------
(* The environment of a process (ProcessEnvironment).                      *)

Begun == 1 .. newest
Ready == {"inject", "collect", "over"}

\* No step takes a round back, and what it was given stays.
RoundsOK ==
    /\ MaxRounds \in Nat /\ newest \in 1 .. MaxRounds /\ DOMAIN round = 1 .. MaxRounds
    /\ settings \in Env!Settings /\ memory \in Env!Settings
    /\ \A r \in 1 .. MaxRounds :
          round[r] \in IF r \in Begun THEN Env!Aggregation ELSE {Env!NotBegun}

\* A process has the language and the configuration it was started with, unless
\* its own manifest spells the variable otherwise.
Configured(p, given) ==
    /\ <<"LANG", "other">> \notin declared[p.ext] => p.env["LANG"] = given.lang
    /\ declared[p.ext] \cap {<<"CFG", "exact">>, <<"CFG", "other">>} = {} =>
         p.env["CFG"] = IF p.ext \in Strangers /\ given.cfg # "none" THEN given.cfg ELSE "host"

\* What was started from an earlier round was with a thread when the first
\* result of the newest came.
OnlyNewest ==
    \A c \in Client : clients[c] # Env!NoProcess =>
        clients[c].of = newest \/ clients[c].outlived = newest

\* What the newest round has been told is what it still has to collect: the
\* rest. As long as it has been told anything, the clients in the vector are
\* its own or came back.
PoolOK ==
    /\ envExts \in 0 .. newest
    /\ DOMAIN clients = Client
    /\ \A c \in Client : clients[c] \in Env!Process \cup {Env!NoProcess}
    /\ \A c \in Client : clients[c].by = "round" =>
          /\ clients[c].of \in Begun
          /\ Configured(clients[c], round[clients[c].of].given)
    /\ round[newest].at \in Ready =>
          /\ envExts = newest
          /\ arrived # {} \/ round[newest].at = "over" => OnlyNewest
    /\ round[newest].at \in {"inject", "collect"} => arrived = Ext \ round[newest].todo
    /\ round[newest].at \in {"lang", "scan", "inject"} => round[newest].todo = Ext
    /\ round[newest].at = "over" => round[newest].todo = {}

\* While the newest round is the only one that may write a global, they follow
\* it from step to step.
GlobalsOK ==
    round[newest].alone =>
       /\ \A r \in Begun \ {newest} : round[r].at \in {"collect", "over"}
       /\ round[newest].at # "lang" => memory.lang = round[newest].given.lang
       /\ round[newest].at \in Ready => round[newest].specs = round[newest].given.lang
       /\ round[newest].at \in {"collect", "over"} => memory.cfg = round[newest].given.cfg

EnvIInv == RoundsOK /\ PoolOK /\ GlobalsOK /\ Env!ProtectedIsKept

\* filter_env_overrides, whatever a manifest holds.
LEMMA PathIsTheHosts ==
    ASSUME NEW f
    PROVE  Env!Started(f)["PATH"] = "host"
  BY DEF Env!Started, Env!Kept, Env!Restrict, Env!Variable

\* What the round injected is what the process has, unless the manifest spells
\* the variable otherwise.
LEMMA InjectedIsStarted ==
    ASSUME NEW e \in Ext, NEW given
    PROVE  /\ <<"LANG", "other">> \notin declared[e] =>
                Env!Started(Env!Injected(e, given))["LANG"] = given.lang
           /\ declared[e] \cap {<<"CFG", "exact">>, <<"CFG", "other">>} = {} =>
                Env!Started(Env!Injected(e, given))["CFG"] =
                  IF e \in Strangers /\ given.cfg # "none" THEN given.cfg ELSE "host"
<1> DEFINE inj == Env!Injected(e, given)
           added == {<<"LANG", "exact">>} \cup
                    IF e \in Strangers /\ given.cfg # "none" THEN {<<"CFG", "exact">>} ELSE {}
<1>1. /\ DOMAIN inj = declared[e] \cup added
      /\ \A k \in declared[e] \cup added :
            inj[k] = IF k \notin added THEN "manifest"
                     ELSE IF k[1] = "LANG" THEN given.lang ELSE given.cfg
  BY DEF Env!Injected
<1> HIDE DEF inj
<1>2. /\ DOMAIN Env!Kept(inj) = {k \in DOMAIN inj : k[1] # "PATH"}
      /\ \A k \in DOMAIN Env!Kept(inj) : Env!Kept(inj)[k] = inj[k]
  BY DEF Env!Kept, Env!Restrict
<1>3. /\ <<"LANG", "exact">> \in DOMAIN Env!Kept(inj)
      /\ Env!Kept(inj)[<<"LANG", "exact">>] = given.lang
      /\ <<"LANG", "other">> \notin declared[e] => <<"LANG", "other">> \notin DOMAIN Env!Kept(inj)
  BY <1>1, <1>2
<1>4. ASSUME declared[e] \cap {<<"CFG", "exact">>, <<"CFG", "other">>} = {}
      PROVE  /\ <<"CFG", "other">> \notin DOMAIN Env!Kept(inj)
             /\ e \in Strangers /\ given.cfg # "none" =>
                  /\ <<"CFG", "exact">> \in DOMAIN Env!Kept(inj)
                  /\ Env!Kept(inj)[<<"CFG", "exact">>] = given.cfg
             /\ ~(e \in Strangers /\ given.cfg # "none") => <<"CFG", "exact">> \notin DOMAIN Env!Kept(inj)
  BY <1>1, <1>2, <1>4
<1>5. \A v \in {"LANG", "CFG"} :
         /\ <<v, "other">> \notin DOMAIN Env!Kept(inj) /\ <<v, "exact">> \in DOMAIN Env!Kept(inj)
              => Env!Started(inj)[v] = Env!Kept(inj)[<<v, "exact">>]
         /\ <<v, "other">> \notin DOMAIN Env!Kept(inj) /\ <<v, "exact">> \notin DOMAIN Env!Kept(inj)
              => Env!Started(inj)[v] = "host"
  BY DEF Env!Started, Env!Variable
<1>6. <<"LANG", "other">> \notin declared[e] => Env!Started(inj)["LANG"] = given.lang
  BY <1>3, <1>5
<1>7. declared[e] \cap {<<"CFG", "exact">>, <<"CFG", "other">>} = {} =>
         Env!Started(inj)["CFG"] = IF e \in Strangers /\ given.cfg # "none" THEN given.cfg ELSE "host"
  BY <1>4, <1>5
<1> QED
  BY <1>6, <1>7 DEF inj

\* What a process is started with is an environment.
LEMMA StartedTyped ==
    ASSUME NEW f, \A k \in DOMAIN f : f[k] \in {"host", "manifest", "set"} \cup Env!Lang
    PROVE  Env!Started(f) \in Env!Environment
<1> DEFINE Values == {"host", "manifest", "set"} \cup Env!Lang
           kept == Env!Kept(f)
<1>1. DOMAIN kept \subseteq DOMAIN f /\ \A k \in DOMAIN kept : kept[k] = f[k]
  BY DEF Env!Kept, Env!Restrict
<1> DEFINE Found0(v) ==
             CASE <<v, "other">> \in DOMAIN kept -> kept[<<v, "other">>]
               [] <<v, "exact">> \in DOMAIN kept /\ <<v, "other">> \notin DOMAIN kept
                    -> kept[<<v, "exact">>]
               [] OTHER -> "host"
<1>2. Env!Started(f) = [v \in Env!Variable |-> Found0(v)]
  BY DEF Env!Started
<1> HIDE DEF kept
<1>3. \A v \in Env!Variable : Found0(v) \in Values
  BY <1>1
<1> HIDE DEF Found0, Values
<1>4. Env!Started(f) \in [Env!Variable -> Values]
  BY <1>2, <1>3
<1> QED BY <1>4 DEF Env!Environment, Values

\* Both ways to start a process.
LEMMA ProcessTyped ==
    ASSUME NEW e \in Ext, NEW r \in 1 .. MaxRounds, NEW given \in Env!Settings,
           MaxRounds \in Nat, NEW at \in {"pool", "thread"}
    PROVE  /\ Env!New(e, "round", r, Env!Started(Env!Injected(e, given)), at) \in Env!Process
           /\ Env!New(e, "reheat", r, Env!Started(Env!Declared(e)), at) \in Env!Process
<1>1. \A k \in DOMAIN Env!Declared(e) :
         Env!Declared(e)[k] \in {"host", "manifest", "set"} \cup Env!Lang
  BY DEF Env!Declared
<1> DEFINE Sets == e \in Strangers /\ given.cfg # "none"
           added == {<<"LANG", "exact">>} \cup IF Sets THEN {<<"CFG", "exact">>} ELSE {}
           Gives(k) == IF k \notin added THEN "manifest"
                       ELSE IF k[1] = "LANG" THEN given.lang ELSE given.cfg
<1>2. Env!Injected(e, given) = [k \in declared[e] \cup added |-> Gives(k)]
  BY DEF Env!Injected
<1>3. given.lang \in Env!Lang /\ given.cfg \in {"none", "set"}
  BY DEF Env!Settings
<1>4. \A k \in added : k[1] = "LANG" \/ Sets
  OBVIOUS
<1> HIDE DEF added
<1>5. \A k \in declared[e] \cup added :
         Gives(k) \in {"host", "manifest", "set"} \cup Env!Lang
  BY <1>3, <1>4
<1> HIDE DEF Gives
<1>6. \A k \in DOMAIN Env!Injected(e, given) :
         Env!Injected(e, given)[k] \in {"host", "manifest", "set"} \cup Env!Lang
  BY <1>2, <1>5
<1>7. /\ Env!Started(Env!Injected(e, given)) \in Env!Environment
      /\ Env!Started(Env!Declared(e)) \in Env!Environment
  BY <1>1, <1>6, StartedTyped
<1> HIDE DEF Sets
<1>8. 0 \in 0 .. MaxRounds
  OBVIOUS
<1> QED BY <1>7, <1>8 DEF Env!Process, Env!New

\* No process runs at first.
LEMMA EnvInit == Env!Init => EnvIInv
<1> SUFFICES ASSUME Env!Init PROVE EnvIInv
  OBVIOUS
<1> DEFINE none == [r \in 1 .. MaxRounds |-> Env!NotBegun]
<1>0. settings \in Env!Settings
  BY HostAssumption DEF Env!Init, Env!Settings, Env!Lang
<1>1. /\ newest = 1 /\ 1 \in 1 .. MaxRounds
      /\ round = [none EXCEPT ![1] = Env!Begin(settings, none)]
      /\ clients = [c \in Client |-> Env!NoProcess] /\ arrived = {} /\ envExts = 0
      /\ memory = [lang |-> "zh_cn", cfg |-> "none"]
  BY HostAssumption DEF Env!Init
<1>2. /\ DOMAIN round = 1 .. MaxRounds /\ round[1] = Env!Begin(settings, none)
      /\ \A r \in (1 .. MaxRounds) \ {1} : round[r] = Env!NotBegun
  BY <1>1
<1>3. Env!Begin(settings, none) \in Env!Aggregation /\ Env!Begin(settings, none).at = "lang"
      /\ Env!Begin(settings, none).todo = Ext
  BY <1>0, <1>1 DEF Env!Begin, Env!Aggregation, Env!Lang
<1>4. RoundsOK
  BY <1>0, <1>1, <1>2, <1>3, HostAssumption DEF RoundsOK, Begun, Env!Settings, Env!Lang
<1>7. envExts \in 0 .. newest /\ newest \in 1 .. MaxRounds
  BY <1>1
<1>8. /\ DOMAIN clients = Client /\ \A c \in Client : clients[c] = Env!NoProcess
      /\ Env!NoProcess.by = "none"
  BY <1>1 DEF Env!NoProcess
<1>9. round[newest].at = "lang" /\ round[newest].todo = Ext
  BY <1>1, <1>2, <1>3
<1>5. PoolOK /\ Env!ProtectedIsKept
  BY <1>7, <1>8, <1>9 DEF PoolOK, Ready, Env!ProtectedIsKept
<1>6. GlobalsOK
  BY <1>1, <1>2, <1>3 DEF GlobalsOK, Ready, Begun
<1> QED BY <1>4, <1>5, <1>6 DEF EnvIInv

\* A step of one round: only its place, its texts and what it has to do change.
LEMMA RoundMoves ==
    ASSUME RoundsOK, NEW r \in Begun, NEW n \in Env!Aggregation,
           round' = [round EXCEPT ![r] = n], newest' = newest,
           settings' = settings, memory' \in Env!Settings
    PROVE  /\ RoundsOK' /\ round'[r] = n
           /\ \A q \in (1 .. MaxRounds) \ {r} : round'[q] = round[q]
  BY DEF RoundsOK, Begun

\* What the first step of a round leaves behind.
LEMMA RoundIsBegun ==
    ASSUME RoundsOK, NEW r \in Begun
    PROVE  /\ r \in 1 .. MaxRounds /\ round[r] \in Env!Aggregation
           /\ DOMAIN round[r] = {"at", "given", "alone", "specs", "todo"}
           /\ round[r].given \in Env!Settings /\ newest \in Begun
<1>1. r \in 1 .. MaxRounds /\ round[r] \in Env!Aggregation /\ newest \in Begun
  BY DEF RoundsOK, Begun
<1> QED BY <1>1 DEF Env!Aggregation

\* The steps of a round that start no process, whatever they release.
LEMMA RoundStepKeepsPool ==
    ASSUME EnvIInv, NEW r \in Begun, newest' = newest, envExts' = envExts, declared' = declared,
           DOMAIN clients' = Client,
           \A c \in Client : clients'[c] \in {clients[c], Env!NoProcess},
           arrived' = arrived \/ (round'[newest].at = "over" /\ arrived' = {}),
           \A q \in (1 .. MaxRounds) \ {r} : round'[q] = round[q],
           round'[r].given = round[r].given, round'[r].todo = round[r].todo,
           \/ round[r].at = "lang" /\ round'[r].at = "scan"
           \/ round[r].at = "inject" /\ round'[r].at = "collect"
           \/ round[r].at = "collect" /\ round'[r].at = "over" /\ round[r].todo = {}
    PROVE  PoolOK' /\ Env!ProtectedIsKept'
<1>1. \A q \in Begun : round'[q].given = round[q].given /\ round'[q].todo = round[q].todo
  BY DEF EnvIInv, RoundsOK, Begun
<1>2. newest \in Begun /\ \A c \in Client : clients[c].by = "round" => clients[c].of \in Begun
  BY RoundIsBegun DEF EnvIInv, PoolOK
<1>3. \/ round'[newest].at = round[newest].at
      \/ round[newest].at = "lang" /\ round'[newest].at = "scan"
      \/ round[newest].at = "inject" /\ round'[newest].at = "collect"
      \/ round[newest].at = "collect" /\ round'[newest].at = "over" /\ round[newest].todo = {}
  BY <1>2 DEF EnvIInv, RoundsOK, Begun
<1>4. Env!NoProcess.by = "none" /\ \A c \in Client : clients[c] \in Env!Process \cup {Env!NoProcess}
  BY DEF EnvIInv, PoolOK, Env!NoProcess
<1>5. \A c \in Client : clients'[c].by = "round" =>
          /\ clients'[c].of \in Begun
          /\ Configured(clients[c], round[clients[c].of].given)'
  <2> SUFFICES ASSUME NEW c \in Client, clients'[c].by = "round"
               PROVE  /\ clients'[c].of \in Begun
                      /\ Configured(clients[c], round[clients[c].of].given)'
    OBVIOUS
  <2>1. clients'[c] = clients[c] /\ clients[c].by = "round"
    BY <1>4
  <2> QED BY <1>1, <1>2, <2>1 DEF EnvIInv, PoolOK, Configured
<1>6. round'[newest].todo = round[newest].todo
  BY <1>1, <1>2
<1>7. /\ round'[newest].at \in Ready => round[newest].at \in Ready
      /\ round'[newest].at \in {"lang", "scan", "inject"} =>
           round[newest].at \in {"lang", "scan", "inject"}
      /\ round'[newest].at \in {"inject", "collect"} =>
           round[newest].at \in {"inject", "collect"} /\ arrived' = arrived
      /\ round'[newest].at = "over" => round[newest].at = "over" \/ round[newest].todo = {}
  BY <1>3 DEF Ready
<1>8. ASSUME round'[newest].at \in Ready, arrived' # {} \/ round'[newest].at = "over"
      PROVE  OnlyNewest'
  <2>1. OnlyNewest
    <3>1. CASE arrived # {} \/ round[newest].at = "over"
      BY <1>7, <1>8, <3>1 DEF EnvIInv, PoolOK
    <3>2. CASE arrived = {} /\ round[newest].at # "over"
      <4>1. round[newest].at = "collect" /\ round[newest].todo = {}
        BY <1>3, <1>8, <3>2
      <4>2. Ext = {}
        BY <3>2, <4>1 DEF EnvIInv, PoolOK
      <4> QED BY <1>4, <4>2 DEF OnlyNewest, Env!Process
    <3> QED BY <3>1, <3>2
  <2> QED BY <2>1 DEF OnlyNewest
<1>9. \A c \in Client : clients'[c] \in Env!Process \cup {Env!NoProcess}
  BY <1>4
<1>10. PoolOK'
  BY <1>5, <1>6, <1>7, <1>8, <1>9 DEF EnvIInv, PoolOK, Begun
<1> QED BY <1>10 DEF EnvIInv, Env!ProtectedIsKept

\* A round that is not the newest is past the globals when the newest is alone.
LEMMA AloneIsNewest ==
    ASSUME EnvIInv, NEW r \in Begun, round[newest].alone, round[r].at \notin {"collect", "over"}
    PROVE  r = newest
  BY DEF EnvIInv, GlobalsOK

\* The language is changed in the settings.
LEMMA SetLangKeepsEnvIInv ==
    ASSUME EnvIInv, NEW r \in Begun, Env!SetLang(r)
    PROVE  EnvIInv'
<1> DEFINE n == [round[r] EXCEPT !.at = "scan"]
<1>1. /\ round[r].at = "lang" /\ round' = [round EXCEPT ![r] = n]
      /\ memory' = [memory EXCEPT !.lang = round[r].given.lang]
      /\ UNCHANGED <<declared, settings, newest, arrived, clients, envExts>>
  BY DEF Env!SetLang, Env!Step
<1>2. round[r] \in Env!Aggregation /\ round[r].given \in Env!Settings /\ r \in 1 .. MaxRounds
      /\ newest \in Begun
  BY RoundIsBegun DEF EnvIInv
<1>3. n \in Env!Aggregation /\ n.at = "scan" /\ n.given = round[r].given /\ n.todo = round[r].todo
      /\ n.alone = round[r].alone
  BY <1>2 DEF Env!Aggregation
<1>4. memory' \in Env!Settings /\ memory'.lang = round[r].given.lang
  BY <1>1, <1>2 DEF Env!Settings, EnvIInv, RoundsOK
<1> HIDE DEF n
<1>5. /\ RoundsOK' /\ round'[r] = n
      /\ \A q \in (1 .. MaxRounds) \ {r} : round'[q] = round[q]
  BY <1>1, <1>3, <1>4, RoundMoves DEF EnvIInv
<1>6. PoolOK' /\ Env!ProtectedIsKept'
  BY <1>1, <1>3, <1>5, RoundStepKeepsPool DEF EnvIInv, PoolOK
<1>7. GlobalsOK'
  <2> SUFFICES ASSUME round'[newest].alone PROVE GlobalsOK'
    BY <1>1 DEF GlobalsOK
  <2>1. round[newest].alone
    BY <1>3, <1>5 DEF EnvIInv, RoundsOK
  <2>2. r = newest
    BY <1>1, <2>1, AloneIsNewest
  <2> QED BY <1>1, <1>3, <1>4, <1>5, <2>1, <2>2 DEF EnvIInv, GlobalsOK, Begun, Ready, RoundsOK
<1> QED BY <1>5, <1>6, <1>7 DEF EnvIInv

\* A round hands an extension its environment.
LEMMA InjectKeepsEnvIInv ==
    ASSUME EnvIInv, NEW r \in Begun, Env!Inject(r)
    PROVE  EnvIInv'
<1> DEFINE n == [round[r] EXCEPT !.at = "collect"]
<1>1. /\ round[r].at = "inject" /\ round' = [round EXCEPT ![r] = n]
      /\ memory' = [memory EXCEPT !.cfg = round[r].given.cfg]
      /\ UNCHANGED <<declared, settings, newest, arrived, clients, envExts>>
  BY DEF Env!Inject, Env!Step
<1>2. round[r] \in Env!Aggregation /\ round[r].given \in Env!Settings /\ r \in 1 .. MaxRounds
      /\ newest \in Begun
  BY RoundIsBegun DEF EnvIInv
<1>3. n \in Env!Aggregation /\ n.at = "collect" /\ n.given = round[r].given /\ n.todo = round[r].todo
      /\ n.alone = round[r].alone /\ n.specs = round[r].specs
  BY <1>2 DEF Env!Aggregation
<1>4. memory' \in Env!Settings /\ memory'.cfg = round[r].given.cfg /\ memory'.lang = memory.lang
  BY <1>1, <1>2 DEF Env!Settings, EnvIInv, RoundsOK
<1> HIDE DEF n
<1>5. /\ RoundsOK' /\ round'[r] = n
      /\ \A q \in (1 .. MaxRounds) \ {r} : round'[q] = round[q]
  BY <1>1, <1>3, <1>4, RoundMoves DEF EnvIInv
<1>6. PoolOK' /\ Env!ProtectedIsKept'
  BY <1>1, <1>3, <1>5, RoundStepKeepsPool DEF EnvIInv, PoolOK
<1>7. GlobalsOK'
  <2> SUFFICES ASSUME round'[newest].alone PROVE GlobalsOK'
    BY <1>1 DEF GlobalsOK
  <2>1. round[newest].alone
    BY <1>3, <1>5 DEF EnvIInv, RoundsOK
  <2>2. r = newest
    BY <1>1, <2>1, AloneIsNewest
  <2> QED BY <1>1, <1>3, <1>4, <1>5, <2>1, <2>2 DEF EnvIInv, GlobalsOK, Begun, Ready, RoundsOK
<1> QED BY <1>5, <1>6, <1>7 DEF EnvIInv

\* A round is over.
LEMMA DoneKeepsEnvIInv ==
    ASSUME EnvIInv, NEW r \in Begun, Env!Done(r)
    PROVE  EnvIInv'
<1> DEFINE n == [round[r] EXCEPT !.at = "over"]
<1>1. /\ round[r].at = "collect" /\ round[r].todo = {} /\ round' = [round EXCEPT ![r] = n]
      /\ UNCHANGED <<declared, settings, newest, envExts, memory>>
      /\ \/ r = newest /\ arrived' = {} /\ \E V \in Env!Victims : clients' = Env!Without(V)
         \/ r # newest /\ UNCHANGED <<arrived, clients>>
  BY DEF Env!Done, Env!Step
<1>2. round[r] \in Env!Aggregation /\ r \in 1 .. MaxRounds /\ newest \in Begun
  BY RoundIsBegun DEF EnvIInv
<1>3. n \in Env!Aggregation /\ n.at = "over" /\ n.given = round[r].given /\ n.todo = round[r].todo
      /\ n.alone = round[r].alone /\ n.specs = round[r].specs
  BY <1>2 DEF Env!Aggregation
<1> HIDE DEF n
<1>4. memory' \in Env!Settings
  BY <1>1 DEF EnvIInv, RoundsOK
<1>5. /\ RoundsOK' /\ round'[r] = n
      /\ \A q \in (1 .. MaxRounds) \ {r} : round'[q] = round[q]
  BY <1>1, <1>3, <1>4, RoundMoves DEF EnvIInv
<1>8. DOMAIN clients' = Client /\ \A c \in Client : clients'[c] \in {clients[c], Env!NoProcess}
  BY <1>1 DEF Env!Without, EnvIInv, PoolOK
<1>9. arrived' = arrived \/ (round'[newest].at = "over" /\ arrived' = {})
  BY <1>1, <1>3, <1>5
<1>10. PoolOK' /\ Env!ProtectedIsKept'
  BY <1>1, <1>3, <1>5, <1>8, <1>9, RoundStepKeepsPool
<1>7. GlobalsOK'
  BY <1>1, <1>2, <1>3, <1>5 DEF EnvIInv, GlobalsOK, Begun, Ready, RoundsOK
<1> QED BY <1>5, <1>10, <1>7 DEF EnvIInv

\* The manifests are read again.
LEMMA MetaKeepsEnvIInv ==
    ASSUME EnvIInv, NEW r \in Begun, Env!Meta(r)
    PROVE  EnvIInv'
<1> DEFINE n == [round[r] EXCEPT !.at = "inject", !.specs = memory.lang]
<1>1. /\ round[r].at = "scan" /\ round' = [round EXCEPT ![r] = n]
      /\ arrived' = IF r = newest THEN {} ELSE arrived
      /\ envExts' = IF r = newest THEN r ELSE envExts
      /\ UNCHANGED <<declared, settings, newest, clients, memory>>
  BY DEF Env!Meta
<1>2. round[r] \in Env!Aggregation /\ r \in 1 .. MaxRounds /\ newest \in Begun
  BY RoundIsBegun DEF EnvIInv
<1>3. memory \in Env!Settings
  BY DEF EnvIInv, RoundsOK
<1>4. n \in Env!Aggregation /\ n.at = "inject" /\ n.given = round[r].given /\ n.todo = round[r].todo
      /\ n.alone = round[r].alone /\ n.specs = memory.lang
  BY <1>2, <1>3 DEF Env!Aggregation, Env!Settings
<1> HIDE DEF n
<1>5. /\ RoundsOK' /\ round'[r] = n
      /\ \A q \in (1 .. MaxRounds) \ {r} : round'[q] = round[q]
  BY <1>1, <1>3, <1>4, RoundMoves DEF EnvIInv
<1>6. \A q \in Begun : round'[q].given = round[q].given /\ round'[q].todo = round[q].todo
  BY <1>4, <1>5 DEF EnvIInv, RoundsOK, Begun
<1>7. \A c \in Client : clients[c].by = "round" =>
          /\ clients[c].of \in Begun
          /\ Configured(clients[c], round[clients[c].of].given)'
  BY <1>1, <1>6 DEF EnvIInv, PoolOK, Configured
<1>8. PoolOK'
  <2>1. CASE r = newest
    <3>1. /\ round'[newest].at = "inject" /\ round'[newest].todo = Ext /\ arrived' = {}
          /\ envExts' = newest
      BY <1>1, <1>4, <1>5, <2>1 DEF EnvIInv, PoolOK
    <3>2. newest \in 0 .. newest
      BY DEF EnvIInv, RoundsOK
    <3> QED BY <1>1, <1>7, <3>1, <3>2 DEF EnvIInv, PoolOK, Ready, Begun
  <2>2. CASE r # newest
    <3>1. round'[newest] = round[newest] /\ arrived' = arrived /\ envExts' = envExts
      BY <1>1, <1>5, <2>2 DEF EnvIInv, RoundsOK
    <3> QED BY <1>1, <1>7, <3>1 DEF EnvIInv, PoolOK, Begun, OnlyNewest
  <2> QED BY <2>1, <2>2
<1>9. GlobalsOK'
  <2> SUFFICES ASSUME round'[newest].alone PROVE GlobalsOK'
    BY <1>1 DEF GlobalsOK
  <2>1. round[newest].alone
    BY <1>4, <1>5 DEF EnvIInv, RoundsOK
  <2>2. r = newest
    BY <1>1, <2>1, AloneIsNewest
  <2> QED BY <1>1, <1>4, <1>5, <2>1, <2>2 DEF EnvIInv, GlobalsOK, Begun, Ready, RoundsOK
<1> QED BY <1>1, <1>5, <1>8, <1>9 DEF EnvIInv, Env!ProtectedIsKept

\* Another round begins: what there is, an earlier one has brought.
LEMMA RestartKeepsEnvIInv ==
    ASSUME EnvIInv, Env!Restart
    PROVE  EnvIInv'
<1> DEFINE n == Env!Begin(settings, round)
<1>1. /\ newest \in 1 .. MaxRounds /\ newest < MaxRounds /\ newest' = newest + 1
      /\ round' = [round EXCEPT ![newest'] = n]
      /\ UNCHANGED <<declared, settings, envExts, arrived, clients, memory>>
  BY DEF Env!Restart, EnvIInv, RoundsOK
<1>2. /\ n \in Env!Aggregation /\ n.at = "lang" /\ n.todo = Ext
      /\ n.alone => \A r \in 1 .. MaxRounds : round[r].at \in {"none", "collect", "over"}
  BY DEF Env!Begin, Env!Aggregation, Env!Lang, EnvIInv, RoundsOK
<1> HIDE DEF n
<1>3. /\ MaxRounds \in Nat /\ newest' \in 1 .. MaxRounds /\ newest' \notin Begun
      /\ Begun' = Begun \cup {newest'} /\ Begun \subseteq 1 .. MaxRounds
      /\ DOMAIN round = 1 .. MaxRounds
  BY <1>1 DEF EnvIInv, RoundsOK, Begun
<1>4. /\ round'[newest'] = n /\ DOMAIN round' = 1 .. MaxRounds
      /\ \A r \in (1 .. MaxRounds) \ {newest'} : round'[r] = round[r]
  BY <1>1, <1>3
<1>5. RoundsOK'
  BY <1>1, <1>2, <1>3, <1>4 DEF EnvIInv, RoundsOK
<1>6. \A c \in Client : clients[c].by = "round" =>
          /\ clients[c].of \in Begun'
          /\ Configured(clients[c], round[clients[c].of].given)'
  BY <1>1, <1>3, <1>4 DEF EnvIInv, PoolOK, Configured
<1>10. envExts \in 0 .. newest'
  BY <1>1 DEF EnvIInv, PoolOK
<1>7. PoolOK'
  BY <1>1, <1>2, <1>4, <1>6, <1>10 DEF EnvIInv, PoolOK, Ready
<1>8. n.alone => \A r \in Begun : round[r].at \in {"collect", "over"}
  <2> SUFFICES ASSUME NEW r \in Begun, round[r].at = "none" PROVE FALSE
    BY <1>2, <1>3
  <2>1. round[r] \in Env!Aggregation
    BY RoundIsBegun DEF EnvIInv
  <2> QED BY <2>1 DEF Env!Aggregation
<1>9. GlobalsOK'
  BY <1>2, <1>3, <1>4, <1>8 DEF GlobalsOK, Ready
<1> QED BY <1>1, <1>5, <1>7, <1>9 DEF EnvIInv, Env!ProtectedIsKept

\* What is left of the clients when the newest round has a result.
LEMMA SurvivorsRemain ==
    ASSUME EnvIInv, round[newest].at = "collect"
    PROVE  /\ DOMAIN Env!Survivors(newest) = Client
           /\ \A c \in Client : Env!Survivors(newest)[c] # Env!NoProcess =>
                /\ clients[c] # Env!NoProcess
                /\ Env!Survivors(newest)[c] \in Env!Process
                /\ \A f \in {"ext", "by", "of", "env"} :
                      Env!Survivors(newest)[c][f] = clients[c][f]
                /\ newest \in {clients[c].of, Env!Survivors(newest)[c].outlived}
<1>1. /\ DOMAIN clients = Client /\ newest \in 0 .. MaxRounds
      /\ \A c \in Client : clients[c] \in Env!Process \cup {Env!NoProcess}
  BY DEF EnvIInv, PoolOK, RoundsOK
<1>2. CASE arrived # {}
  <2>1. Env!Survivors(newest) = clients
    BY <1>2 DEF Env!Survivors
  <2>2. OnlyNewest
    BY <1>2 DEF EnvIInv, PoolOK, Ready
  <2> QED BY <1>1, <2>1, <2>2 DEF OnlyNewest
<1>3. CASE arrived = {}
  <2>1. Env!Survivors(newest) =
          [c \in Client |-> IF clients[c].at = "thread" THEN [clients[c] EXCEPT !.outlived = newest]
                            ELSE Env!NoProcess]
    BY <1>3 DEF Env!Survivors
  <2>2. \A p \in Env!Process :
          /\ [p EXCEPT !.outlived = newest] \in Env!Process
          /\ [p EXCEPT !.outlived = newest].outlived = newest
          /\ \A f \in {"ext", "by", "of", "env"} : [p EXCEPT !.outlived = newest][f] = p[f]
    BY <1>1 DEF Env!Process
  <2>3. Env!NoProcess.at # "thread"
    BY DEF Env!NoProcess
  <2> HIDE DEF Env!Process
  <2> QED BY <1>1, <2>1, <2>2, <2>3
<1> QED BY <1>2, <1>3

\* What a round collects takes the place of what an earlier one has left.
LEMMA CollectKeepsEnvIInv ==
    ASSUME EnvIInv, NEW r \in Begun, NEW e \in Ext, Env!Collect(r, e)
    PROVE  EnvIInv'
<1> DEFINE n == [round[r] EXCEPT !.todo = @ \ {e}]
           env == Env!Started(Env!Injected(e, round[r].given))
           started == Env!New(e, "round", r, env, "pool")
<1>1. /\ round[r].at = "collect" /\ e \in round[r].todo /\ round' = [round EXCEPT ![r] = n]
      /\ Env!ArriveStub(r, e) \/ Env!Arrive(r, e, env)
      /\ UNCHANGED <<declared, settings, newest, envExts, memory>>
  BY DEF Env!Collect
<1>2. round[r] \in Env!Aggregation /\ r \in 1 .. MaxRounds /\ newest \in Begun
      /\ round[r].given \in Env!Settings
  BY RoundIsBegun DEF EnvIInv
<1>3. n \in Env!Aggregation /\ n.at = "collect" /\ n.given = round[r].given /\ n.todo = round[r].todo \ {e}
      /\ n.alone = round[r].alone /\ n.specs = round[r].specs
  BY <1>1, <1>2 DEF Env!Aggregation
<1> HIDE DEF n
<1>4. memory' \in Env!Settings
  BY <1>1 DEF EnvIInv, RoundsOK
<1>5. /\ RoundsOK' /\ round'[r] = n
      /\ \A q \in (1 .. MaxRounds) \ {r} : round'[q] = round[q]
  BY <1>1, <1>3, <1>4, RoundMoves DEF EnvIInv
<1>6. GlobalsOK'
  BY <1>1, <1>2, <1>3, <1>5 DEF EnvIInv, GlobalsOK, Begun, Ready, RoundsOK
<1>7. \A q \in Begun : round'[q].given = round[q].given
  BY <1>3, <1>5 DEF EnvIInv, RoundsOK, Begun
<1>8. CASE r # newest
  <2>1. UNCHANGED <<arrived, clients>> /\ round'[newest] = round[newest]
    BY <1>1, <1>5, <1>8 DEF Env!ArriveStub, Env!Arrive, EnvIInv, RoundsOK
  <2>2. \A c \in Client : clients[c].by = "round" =>
          /\ clients[c].of \in Begun
          /\ Configured(clients[c], round[clients[c].of].given)'
    BY <1>1, <1>7, <2>1 DEF EnvIInv, PoolOK, Configured
  <2>3. PoolOK'
    BY <1>1, <2>1, <2>2 DEF EnvIInv, PoolOK, Begun, OnlyNewest
  <2> QED BY <1>5, <1>6, <2>1, <2>3 DEF EnvIInv, Env!ProtectedIsKept
<1>9. CASE r = newest
  <2> DEFINE left == Env!Survivors(newest)
  <2>1. /\ started \in Env!Process /\ started.by = "round" /\ started.of = newest
        /\ started.ext = e /\ started.env = env
    <3>1. MaxRounds \in Nat
      BY DEF EnvIInv, RoundsOK
    <3>2. started \in Env!Process
      BY <1>2, <3>1, ProcessTyped
    <3> HIDE DEF env
    <3> QED BY <1>9, <3>2 DEF Env!New
  <2>2. env["PATH"] = "host" /\ Configured(started, round[newest].given)
    <3>1. env["PATH"] = "host"
      BY PathIsTheHosts
    <3>2. /\ <<"LANG", "other">> \notin declared[e] => env["LANG"] = round[newest].given.lang
          /\ declared[e] \cap {<<"CFG", "exact">>, <<"CFG", "other">>} = {} =>
               env["CFG"] = IF e \in Strangers /\ round[newest].given.cfg # "none"
                            THEN round[newest].given.cfg ELSE "host"
      BY <1>9, InjectedIsStarted
    <3> HIDE DEF env, started
    <3> QED BY <2>1, <3>1, <3>2 DEF Configured
  <2> HIDE DEF started
  <2>3. /\ DOMAIN left = Client
        /\ \A c \in Client : left[c] # Env!NoProcess =>
                /\ clients[c] # Env!NoProcess /\ left[c] \in Env!Process
                /\ left[c].ext = clients[c].ext /\ left[c].by = clients[c].by
                /\ left[c].of = clients[c].of /\ left[c].env = clients[c].env
                /\ newest = clients[c].of \/ newest = left[c].outlived
    BY <1>1, <1>9, SurvivorsRemain
  <2>4. /\ arrived' = arrived \cup {e}
        /\ clients' = left \/ \E d \in Client : clients' = [left EXCEPT ![d] = started]
    BY <1>1, <1>9 DEF Env!ArriveStub, Env!Arrive, started
  <2> HIDE DEF left, env
  <2>5. /\ DOMAIN clients' = Client
        /\ \A c \in Client : clients'[c] = left[c] \/ clients'[c] = started
    BY <2>3, <2>4
  <2>6. arrived = Ext \ round[newest].todo /\ arrived' = Ext \ round'[newest].todo
    BY <1>1, <1>3, <1>5, <1>9, <2>4 DEF EnvIInv, PoolOK
  <2>7. \A c \in Client : clients'[c] \in Env!Process \cup {Env!NoProcess}
    BY <2>1, <2>3, <2>5
  <2>8. OnlyNewest'
    BY <1>1, <2>1, <2>3, <2>5 DEF OnlyNewest
  <2>9. \A c \in Client : clients'[c].by = "round" =>
          /\ clients'[c].of \in Begun
          /\ Configured(clients[c], round[clients[c].of].given)'
    <3> SUFFICES ASSUME NEW c \in Client, clients'[c].by = "round"
                 PROVE  clients'[c].of \in Begun /\ Configured(clients[c], round[clients[c].of].given)'
      OBVIOUS
    <3>1. CASE clients'[c] = started
      <4>1. round'[newest].given = round[newest].given
        BY <1>2, <1>7
      <4> QED BY <1>1, <1>2, <2>1, <2>2, <3>1, <4>1 DEF Configured
    <3>2. CASE clients'[c] = left[c]
      <4>1. left[c] # Env!NoProcess
        BY <3>2 DEF Env!NoProcess
      <4>2. clients[c].by = "round"
        BY <2>3, <3>2, <4>1
      <4>3. clients[c].of \in Begun /\ Configured(clients[c], round[clients[c].of].given)
        BY <4>2 DEF EnvIInv, PoolOK
      <4>4. clients'[c].of = clients[c].of /\ clients'[c].ext = clients[c].ext
            /\ clients'[c].env = clients[c].env
        BY <2>3, <3>2, <4>1
      <4>5. round'[clients[c].of].given = round[clients[c].of].given
        BY <1>7, <4>3
      <4> QED BY <1>1, <4>3, <4>4, <4>5 DEF Configured
    <3> QED BY <2>5, <3>1, <3>2
  <2>10. PoolOK'
    <3>1. /\ round'[newest].at = "collect" /\ envExts' = newest
          /\ envExts \in 0 .. newest
      BY <1>1, <1>3, <1>5, <1>9 DEF EnvIInv, PoolOK, Ready
    <3> QED BY <1>1, <2>5, <2>6, <2>7, <2>8, <2>9, <3>1 DEF PoolOK, Begun
  <2>11. Env!ProtectedIsKept'
    <3> SUFFICES ASSUME NEW c \in Client, clients'[c] # Env!NoProcess
                 PROVE  clients'[c].env["PATH"] = "host"
      BY DEF Env!ProtectedIsKept
    <3>1. CASE clients'[c] = started
      BY <2>1, <2>2, <3>1
    <3>2. CASE clients'[c] = left[c]
      BY <2>3, <3>2 DEF EnvIInv, Env!ProtectedIsKept
    <3> QED BY <2>5, <3>1, <3>2
  <2> QED BY <1>5, <1>6, <2>10, <2>11 DEF EnvIInv
<1> QED BY <1>8, <1>9

\* A client changes its place.
LEMMA PlaceMoves ==
    ASSUME NEW p \in Env!Process, NEW at \in {"pool", "thread"}
    PROVE  /\ [p EXCEPT !.at = at] \in Env!Process
           /\ [p EXCEPT !.at = at].ext = p.ext /\ [p EXCEPT !.at = at].by = p.by
           /\ [p EXCEPT !.at = at].of = p.of /\ [p EXCEPT !.at = at].env = p.env
           /\ [p EXCEPT !.at = at].outlived = p.outlived
  BY DEF Env!Process

\* A client is what it was, wherever it is now.
SameProcess(p, q) == p.ext = q.ext /\ p.by = q.by /\ p.of = q.of /\ p.env = q.env /\ p.outlived = q.outlived

\* The steps outside the rounds move clients, let them go, or reheat one.
LEMMA MovesKeepEnvIInv ==
    ASSUME EnvIInv, UNCHANGED <<declared, settings, round, newest, envExts, arrived, memory>>,
           DOMAIN clients' = Client,
           \A c \in Client :
              \/ clients'[c] = Env!NoProcess
              \/ /\ clients'[c] \in Env!Process /\ clients[c] # Env!NoProcess
                 /\ SameProcess(clients'[c], clients[c])
              \/ /\ clients'[c] \in Env!Process /\ clients'[c].by = "reheat"
                 /\ clients'[c].of = envExts /\ clients'[c].env["PATH"] = "host"
    PROVE  EnvIInv'
<1>1. Env!NoProcess.by = "none"
  BY DEF Env!NoProcess
<1>2. \A c \in Client : clients'[c].by = "round" =>
          /\ clients'[c].of \in Begun
          /\ Configured(clients[c], round[clients[c].of].given)'
  <2> SUFFICES ASSUME NEW c \in Client, clients'[c].by = "round"
               PROVE  clients'[c].of \in Begun /\ Configured(clients[c], round[clients[c].of].given)'
    OBVIOUS
  <2>1. SameProcess(clients'[c], clients[c]) /\ clients[c].by = "round"
    BY <1>1 DEF SameProcess
  <2>2. clients[c].of \in Begun /\ Configured(clients[c], round[clients[c].of].given)
    BY <2>1 DEF EnvIInv, PoolOK
  <2> QED BY <2>1, <2>2 DEF SameProcess, Configured
<1>3. round[newest].at \in Ready /\ OnlyNewest => OnlyNewest'
  BY DEF EnvIInv, PoolOK, OnlyNewest, SameProcess
<1>4. \A c \in Client : clients'[c] \in Env!Process \cup {Env!NoProcess}
  OBVIOUS
<1>5. PoolOK'
  BY <1>2, <1>3, <1>4 DEF EnvIInv, PoolOK, Begun
<1>6. Env!ProtectedIsKept'
  BY DEF EnvIInv, Env!ProtectedIsKept, SameProcess
<1> QED BY <1>5, <1>6 DEF EnvIInv, RoundsOK, GlobalsOK, Begun

\* A client goes out with a thread, comes back, or does not.
LEMMA MovedClients ==
    ASSUME EnvIInv, \/ \E c \in Client : Env!Take(c) \/ Env!GiveBack(c) \/ Env!Lose(c)
                    \/ Env!Evict
    PROVE  EnvIInv'
<1> DEFINE Stays(c) == \/ clients'[c] = Env!NoProcess
                       \/ /\ clients'[c] \in Env!Process /\ clients[c] # Env!NoProcess
                          /\ SameProcess(clients'[c], clients[c])
<1>1. /\ DOMAIN clients = Client
      /\ \A c \in Client : clients[c] \in Env!Process \cup {Env!NoProcess}
  BY DEF EnvIInv, PoolOK
<1>2. \A V : /\ DOMAIN Env!Without(V) = Client
             /\ \A c \in Client : Env!Without(V)[c] \in {clients[c], Env!NoProcess}
             /\ \A c \in Client : c \notin V => Env!Without(V)[c] = clients[c]
  BY <1>1 DEF Env!Without
<1>3. \A c \in Client : clients[c].at \in {"pool", "thread"} => clients[c] \in Env!Process
  BY <1>1 DEF Env!NoProcess
<1>4. \A V : clients' = Env!Without(V) => DOMAIN clients' = Client /\ \A c \in Client : Stays(c)
  BY <1>1, <1>2 DEF SameProcess
<1>5. ASSUME NEW c \in Client, NEW left, NEW at \in {"pool", "thread"},
             clients[c].at \in {"pool", "thread"}, DOMAIN left = Client, left[c] = clients[c],
             \A d \in Client : left[d] \in {clients[d], Env!NoProcess},
             clients' = [left EXCEPT ![c].at = at]
      PROVE  DOMAIN clients' = Client /\ \A d \in Client : Stays(d)
  <2> DEFINE moved == [clients[c] EXCEPT !.at = at]
  <2>1. clients' = [left EXCEPT ![c] = moved]
    BY <1>5
  <2>2. clients[c] \in Env!Process /\ clients[c] # Env!NoProcess
    BY <1>3, <1>5 DEF Env!NoProcess
  <2>3. moved \in Env!Process /\ SameProcess(moved, clients[c])
    BY <1>5, <2>2, PlaceMoves DEF SameProcess
  <2> HIDE DEF moved
  <2>4. clients'[c] = moved /\ \A d \in Client \ {c} : clients'[d] \in {clients[d], Env!NoProcess}
    BY <1>5, <2>1
  <2>5. \A d \in Client \ {c} : Stays(d)
    BY <1>1, <2>4 DEF SameProcess
  <2>6. Stays(c)
    BY <2>2, <2>3, <2>4
  <2> HIDE DEF Stays
  <2> QED BY <1>5, <2>1, <2>5, <2>6
<1>6. /\ UNCHANGED <<declared, settings, round, newest, envExts, arrived, memory>>
      /\ DOMAIN clients' = Client /\ \A c \in Client : Stays(c)
  <2>1. ASSUME NEW c \in Client, Env!Take(c)
        PROVE  DOMAIN clients' = Client /\ \A d \in Client : Stays(d)
    <3>1. clients' = [clients EXCEPT ![c].at = "thread"] /\ clients[c].at = "pool"
      BY <2>1 DEF Env!Take, Env!Pooled
    <3>2. \A d \in Client : clients[d] \in {clients[d], Env!NoProcess}
      OBVIOUS
    <3> HIDE DEF Stays
    <3> QED BY <1>1, <1>5, <3>1, <3>2
  <2>2. ASSUME NEW c \in Client, Env!GiveBack(c)
        PROVE  DOMAIN clients' = Client /\ \A d \in Client : Stays(d)
    <3>1. PICK V \in Env!Victims : clients' = [Env!Without(V) EXCEPT ![c].at = "pool"]
      BY <2>2 DEF Env!GiveBack
    <3>2. clients[c].at = "thread" /\ c \notin V
      BY <2>2 DEF Env!GiveBack, Env!Victims, Env!Pooled
    <3>3. /\ DOMAIN Env!Without(V) = Client /\ Env!Without(V)[c] = clients[c]
          /\ \A d \in Client : Env!Without(V)[d] \in {clients[d], Env!NoProcess}
      BY <1>2, <3>2
    <3> DEFINE left == Env!Without(V)
    <3> HIDE DEF left, Stays
    <3> QED BY <1>5, <3>1, <3>2, <3>3 DEF left
  <2>3. ASSUME NEW c \in Client, Env!Lose(c)
        PROVE  DOMAIN clients' = Client /\ \A d \in Client : Stays(d)
    BY <1>4, <2>3 DEF Env!Lose
  <2>4. ASSUME Env!Evict
        PROVE  DOMAIN clients' = Client /\ \A d \in Client : Stays(d)
    BY <1>4, <2>4 DEF Env!Evict
  <2>5. UNCHANGED <<declared, settings, round, newest, envExts, arrived, memory>>
    BY DEF Env!Take, Env!GiveBack, Env!Lose, Env!Evict
  <2> QED BY <2>1, <2>2, <2>3, <2>4, <2>5
<1> QED BY <1>6, MovesKeepEnvIInv

\* A process is started from the manifest that is in memory.
LEMMA ReheatKeepsEnvIInv ==
    ASSUME EnvIInv, NEW e \in Ext, Env!Reheat(e)
    PROVE  EnvIInv'
<1> DEFINE process == Env!New(e, "reheat", envExts, Env!Started(Env!Declared(e)), "thread")
<1>1. envExts \in 1 .. MaxRounds /\ MaxRounds \in Nat /\ settings \in Env!Settings
  <2>1. envExts # 0 /\ envExts \in 0 .. newest
    BY DEF Env!Reheat, EnvIInv, PoolOK
  <2> QED BY <2>1 DEF EnvIInv, RoundsOK
<1>2. process \in Env!Process
  BY <1>1, ProcessTyped
<1>3. Env!Started(Env!Declared(e))["PATH"] = "host"
  BY PathIsTheHosts
<1>4. process.by = "reheat" /\ process.of = envExts /\ process.env["PATH"] = "host"
  BY <1>3 DEF Env!New
<1>5. /\ \E c \in Client : clients' = [clients EXCEPT ![c] = process]
      /\ UNCHANGED <<declared, settings, round, newest, envExts, arrived, memory>>
  BY DEF Env!Reheat
<1> HIDE DEF process
<1>6. /\ DOMAIN clients = Client
      /\ \A c \in Client : clients[c] \in Env!Process \cup {Env!NoProcess}
  BY DEF EnvIInv, PoolOK
<1>7. /\ DOMAIN clients' = Client
      /\ \A c \in Client : clients'[c] = process \/ clients'[c] = clients[c]
  BY <1>5, <1>6
<1>8. \A c \in Client :
          \/ clients'[c] = Env!NoProcess
          \/ /\ clients'[c] \in Env!Process /\ clients[c] # Env!NoProcess
             /\ SameProcess(clients'[c], clients[c])
          \/ /\ clients'[c] \in Env!Process /\ clients'[c].by = "reheat"
             /\ clients'[c].of = envExts /\ clients'[c].env["PATH"] = "host"
  BY <1>2, <1>4, <1>6, <1>7 DEF SameProcess
<1> QED BY <1>5, <1>7, <1>8, MovesKeepEnvIInv

\* Every step keeps the invariant of the environment.
LEMMA EnvNext ==
    ASSUME EnvIInv, Env!Next \/ UNCHANGED envVars
    PROVE  EnvIInv'
<1>1. ASSUME UNCHANGED <<declared, round, newest, envExts, arrived, clients, memory>>,
             settings' \in Env!Settings
      PROVE  EnvIInv'
  <2>1. \A c \in Client : Configured(clients[c], round[clients[c].of].given)
                            => Configured(clients[c], round[clients[c].of].given)'
    BY <1>1 DEF Configured
  <2>2. PoolOK'
    BY <1>1, <2>1 DEF EnvIInv, PoolOK, Begun, OnlyNewest
  <2> QED BY <1>1, <2>2 DEF EnvIInv, RoundsOK, GlobalsOK, Begun, Env!ProtectedIsKept
<1>2. CASE Env!Change
  <2>1. settings' \in Choices
    BY <1>2 DEF Env!Change
  <2>2. settings' \in Env!Settings
    BY <2>1, HostAssumption DEF Env!Settings, Env!Lang
  <2> QED BY <1>1, <1>2, <2>2 DEF Env!Change
<1>3. CASE Env!SettingsLeft \/ Env!Retry
  BY <1>3, RestartKeepsEnvIInv DEF Env!SettingsLeft, Env!Retry
<1>4. ASSUME NEW r \in Begun, \/ Env!SetLang(r) \/ Env!Meta(r) \/ Env!Inject(r) \/ Env!Done(r)
                              \/ \E e \in Ext : Env!Collect(r, e)
      PROVE  EnvIInv'
  BY <1>4, SetLangKeepsEnvIInv, MetaKeepsEnvIInv, InjectKeepsEnvIInv, DoneKeepsEnvIInv,
     CollectKeepsEnvIInv
<1>5. CASE \E e \in Ext : Env!Reheat(e)
  BY <1>5, ReheatKeepsEnvIInv
<1>6. CASE (\E c \in Client : Env!Take(c) \/ Env!GiveBack(c) \/ Env!Lose(c)) \/ Env!Evict
  BY <1>6, MovedClients
<1>7. CASE UNCHANGED envVars
  BY <1>1, <1>7 DEF envVars, EnvIInv, RoundsOK
<1> QED
  BY <1>2, <1>3, <1>4, <1>5, <1>6, <1>7 DEF Env!Next, Begun

\* The invariant says what was to be shown of the processes.
LEMMA EnvSound == EnvIInv => Env!ProcessesAreConfigured
<1> SUFFICES ASSUME EnvIInv PROVE Env!RoundConfigures /\ Env!GlobalsFollow
  BY DEF EnvIInv, Env!ProcessesAreConfigured
<1>1. newest \in Begun /\ round[newest].given \in Env!Settings /\ memory \in Env!Settings
  BY RoundIsBegun DEF EnvIInv, RoundsOK, Begun
<1>2. Env!RoundConfigures
  <2>1. \A c \in Client : clients[c].by = "round" =>
            Configured(clients[c], round[clients[c].of].given)
    BY DEF EnvIInv, PoolOK
  <2>2. round[newest].at = "over" => OnlyNewest
    BY DEF EnvIInv, PoolOK, Ready
  <2> QED BY <2>1, <2>2 DEF Env!RoundConfigures, Configured, OnlyNewest
<1>3. Env!GlobalsFollow
  <2> SUFFICES ASSUME round[newest].alone, round[newest].at \in {"collect", "over"}
               PROVE  memory = round[newest].given /\ round[newest].specs = round[newest].given.lang
    BY DEF Env!GlobalsFollow
  <2>1. /\ memory.lang = round[newest].given.lang /\ memory.cfg = round[newest].given.cfg
        /\ round[newest].specs = round[newest].given.lang
    BY DEF EnvIInv, GlobalsOK, Ready
  <2> QED BY <1>1, <2>1 DEF Env!Settings
<1> QED BY <1>2, <1>3
-----------------------------------------------------------------------------
(* The ledger of trust (TrustLedger), in the four settings of the parts:   *)
(* what TrustLedgerProofs shows of it holds of each of them.               *)
TrustFacts == INSTANCE TrustLedgerProofs WITH
  Ext <- FirstParty, Overlap <- FALSE
SharedFacts == INSTANCE TrustLedgerProofs WITH
  Program <- {"only"}, MaxVersion <- 1, Overlap <- TRUE
StrangerFacts == INSTANCE TrustLedgerProofs WITH
  Ext <- Strangers, FirstParty <- {}, Signed <- Strangers, Overlap <- TRUE
RewrittenFacts == INSTANCE TrustLedgerProofs WITH
  Ext <- Strangers, FirstParty <- {}, Manifest <- Manifests, Overlap <- TRUE

\* The instance of the model and that of the proofs say the same.
LEMMA TrustSame ==
    /\ Trust!Init = TrustFacts!Init
    /\ Trust!Next = TrustFacts!Next
    /\ Trust!NothingRunsUnasked = TrustFacts!NothingRunsUnasked
    /\ Trust!OnePinPerRelease = TrustFacts!OnePinPerRelease
    /\ Trust!TypeOK = TrustFacts!TypeOK
  BY DEF
     Trust!Init, TrustFacts!Init, Trust!Next, TrustFacts!Next,
     Trust!NothingRunsUnasked, TrustFacts!NothingRunsUnasked, Trust!OnePinPerRelease,
     TrustFacts!OnePinPerRelease, Trust!TypeOK, TrustFacts!TypeOK, Trust!Content,
     TrustFacts!Content, Trust!NoContent, TrustFacts!NoContent, Trust!Empty,
     TrustFacts!Empty, Trust!Idle, TrustFacts!Idle, Trust!NoEntry, TrustFacts!NoEntry,
     Trust!Decision, TrustFacts!Decision, Trust!Decide, TrustFacts!Decide,
     Trust!JudgeOther, TrustFacts!JudgeOther, Trust!JudgeSidecar,
     TrustFacts!JudgeSidecar, Trust!Start, TrustFacts!Start, Trust!Replace,
     TrustFacts!Replace, Trust!SaveDecision, TrustFacts!SaveDecision, Trust!SaveFails,
     TrustFacts!SaveFails, Trust!SavePin, TrustFacts!SavePin, Trust!SavePinFails,
     TrustFacts!SavePinFails, Trust!Restart, TrustFacts!Restart, Trust!Damage,
     TrustFacts!Damage, Trust!File, TrustFacts!File, Trust!Version,
     TrustFacts!Version, Trust!Ledger, TrustFacts!Ledger, Trust!Job, TrustFacts!Job,
     Trust!Loaded, TrustFacts!Loaded, Trust!Cleared, TrustFacts!Cleared,
     Trust!Process, TrustFacts!Process, Trust!MayLoad, TrustFacts!MayLoad,
     Trust!IsSidecar, TrustFacts!IsSidecar, Trust!Scanned, TrustFacts!Scanned,
     Trust!Judged, TrustFacts!Judged, Trust!Assess, TrustFacts!Assess,
     Trust!AssessSidecar, TrustFacts!AssessSidecar, Trust!Garbled, TrustFacts!Garbled,
     Trust!Found, TrustFacts!Found, Trust!Entry, TrustFacts!Entry, Trust!Signature,
     TrustFacts!Signature, Trust!HashesMatch, TrustFacts!HashesMatch, Trust!Pinned,
     TrustFacts!Pinned

\* So they do in the setting of two writers.
LEMMA SharedSame ==
    /\ Shared!Init = SharedFacts!Init
    /\ Shared!Next = SharedFacts!Next
    /\ Shared!NothingRunsUnasked = SharedFacts!NothingRunsUnasked
    /\ Shared!TypeOK = SharedFacts!TypeOK
  BY DEF
     Shared!Init, SharedFacts!Init, Shared!Next, SharedFacts!Next,
     Shared!NothingRunsUnasked, SharedFacts!NothingRunsUnasked, Shared!TypeOK,
     SharedFacts!TypeOK, Shared!Content, SharedFacts!Content, Shared!NoContent,
     SharedFacts!NoContent, Shared!Empty, SharedFacts!Empty, Shared!Idle,
     SharedFacts!Idle, Shared!NoEntry, SharedFacts!NoEntry, Shared!Decision,
     SharedFacts!Decision, Shared!Decide, SharedFacts!Decide, Shared!JudgeOther,
     SharedFacts!JudgeOther, Shared!JudgeSidecar, SharedFacts!JudgeSidecar,
     Shared!Start, SharedFacts!Start, Shared!Replace, SharedFacts!Replace,
     Shared!SaveDecision, SharedFacts!SaveDecision, Shared!SaveFails,
     SharedFacts!SaveFails, Shared!SavePin, SharedFacts!SavePin, Shared!SavePinFails,
     SharedFacts!SavePinFails, Shared!Restart, SharedFacts!Restart, Shared!Damage,
     SharedFacts!Damage, Shared!File, SharedFacts!File, Shared!Version,
     SharedFacts!Version, Shared!Ledger, SharedFacts!Ledger, Shared!Job,
     SharedFacts!Job, Shared!Loaded, SharedFacts!Loaded, Shared!Cleared,
     SharedFacts!Cleared, Shared!Process, SharedFacts!Process, Shared!MayLoad,
     SharedFacts!MayLoad, Shared!IsSidecar, SharedFacts!IsSidecar, Shared!Scanned,
     SharedFacts!Scanned, Shared!Judged, SharedFacts!Judged, Shared!Assess,
     SharedFacts!Assess, Shared!AssessSidecar, SharedFacts!AssessSidecar,
     Shared!Garbled, SharedFacts!Garbled, Shared!Found, SharedFacts!Found,
     Shared!Entry, SharedFacts!Entry, Shared!Signature, SharedFacts!Signature,
     Shared!HashesMatch, SharedFacts!HashesMatch, Shared!Pinned, SharedFacts!Pinned

\* So they do in the setting of signatures.
LEMMA StrangerSame ==
    /\ Stranger!Init = StrangerFacts!Init
    /\ Stranger!Next = StrangerFacts!Next
    /\ Stranger!NothingRunsUnasked = StrangerFacts!NothingRunsUnasked
    /\ Stranger!TypeOK = StrangerFacts!TypeOK
  BY DEF
     Stranger!Init, StrangerFacts!Init, Stranger!Next, StrangerFacts!Next,
     Stranger!NothingRunsUnasked, StrangerFacts!NothingRunsUnasked, Stranger!TypeOK,
     StrangerFacts!TypeOK, Stranger!Content, StrangerFacts!Content,
     Stranger!NoContent, StrangerFacts!NoContent, Stranger!Empty, StrangerFacts!Empty,
     Stranger!Idle, StrangerFacts!Idle, Stranger!NoEntry, StrangerFacts!NoEntry,
     Stranger!Decision, StrangerFacts!Decision, Stranger!Decide, StrangerFacts!Decide,
     Stranger!JudgeOther, StrangerFacts!JudgeOther, Stranger!JudgeSidecar,
     StrangerFacts!JudgeSidecar, Stranger!Start, StrangerFacts!Start,
     Stranger!Replace, StrangerFacts!Replace, Stranger!SaveDecision,
     StrangerFacts!SaveDecision, Stranger!SaveFails, StrangerFacts!SaveFails,
     Stranger!SavePin, StrangerFacts!SavePin, Stranger!SavePinFails,
     StrangerFacts!SavePinFails, Stranger!Restart, StrangerFacts!Restart,
     Stranger!Damage, StrangerFacts!Damage, Stranger!File, StrangerFacts!File,
     Stranger!Version, StrangerFacts!Version, Stranger!Ledger, StrangerFacts!Ledger,
     Stranger!Job, StrangerFacts!Job, Stranger!Loaded, StrangerFacts!Loaded,
     Stranger!Cleared, StrangerFacts!Cleared, Stranger!Process, StrangerFacts!Process,
     Stranger!MayLoad, StrangerFacts!MayLoad, Stranger!IsSidecar,
     StrangerFacts!IsSidecar, Stranger!Scanned, StrangerFacts!Scanned,
     Stranger!Judged, StrangerFacts!Judged, Stranger!Assess, StrangerFacts!Assess,
     Stranger!AssessSidecar, StrangerFacts!AssessSidecar, Stranger!Garbled,
     StrangerFacts!Garbled, Stranger!Found, StrangerFacts!Found, Stranger!Entry,
     StrangerFacts!Entry, Stranger!Signature, StrangerFacts!Signature,
     Stranger!HashesMatch, StrangerFacts!HashesMatch, Stranger!Pinned,
     StrangerFacts!Pinned

\* So they do in the setting of rewritten manifests.
LEMMA RewrittenSame ==
    /\ Rewritten!Init = RewrittenFacts!Init
    /\ Rewritten!Next = RewrittenFacts!Next
    /\ Rewritten!NothingRunsUnasked = RewrittenFacts!NothingRunsUnasked
    /\ Rewritten!TypeOK = RewrittenFacts!TypeOK
  BY DEF
     Rewritten!Init, RewrittenFacts!Init, Rewritten!Next, RewrittenFacts!Next,
     Rewritten!NothingRunsUnasked, RewrittenFacts!NothingRunsUnasked,
     Rewritten!TypeOK, RewrittenFacts!TypeOK, Rewritten!Content,
     RewrittenFacts!Content, Rewritten!NoContent, RewrittenFacts!NoContent,
     Rewritten!Empty, RewrittenFacts!Empty, Rewritten!Idle, RewrittenFacts!Idle,
     Rewritten!NoEntry, RewrittenFacts!NoEntry, Rewritten!Decision,
     RewrittenFacts!Decision, Rewritten!Decide, RewrittenFacts!Decide,
     Rewritten!JudgeOther, RewrittenFacts!JudgeOther, Rewritten!JudgeSidecar,
     RewrittenFacts!JudgeSidecar, Rewritten!Start, RewrittenFacts!Start,
     Rewritten!Replace, RewrittenFacts!Replace, Rewritten!SaveDecision,
     RewrittenFacts!SaveDecision, Rewritten!SaveFails, RewrittenFacts!SaveFails,
     Rewritten!SavePin, RewrittenFacts!SavePin, Rewritten!SavePinFails,
     RewrittenFacts!SavePinFails, Rewritten!Restart, RewrittenFacts!Restart,
     Rewritten!Damage, RewrittenFacts!Damage, Rewritten!File, RewrittenFacts!File,
     Rewritten!Version, RewrittenFacts!Version, Rewritten!Ledger,
     RewrittenFacts!Ledger, Rewritten!Job, RewrittenFacts!Job, Rewritten!Loaded,
     RewrittenFacts!Loaded, Rewritten!Cleared, RewrittenFacts!Cleared,
     Rewritten!Process, RewrittenFacts!Process, Rewritten!MayLoad,
     RewrittenFacts!MayLoad, Rewritten!IsSidecar, RewrittenFacts!IsSidecar,
     Rewritten!Scanned, RewrittenFacts!Scanned, Rewritten!Judged,
     RewrittenFacts!Judged, Rewritten!Assess, RewrittenFacts!Assess,
     Rewritten!AssessSidecar, RewrittenFacts!AssessSidecar, Rewritten!Garbled,
     RewrittenFacts!Garbled, Rewritten!Found, RewrittenFacts!Found, Rewritten!Entry,
     RewrittenFacts!Entry, Rewritten!Signature, RewrittenFacts!Signature,
     Rewritten!HashesMatch, RewrittenFacts!HashesMatch, Rewritten!Pinned,
     RewrittenFacts!Pinned

\* The inductive invariants of the four settings; only where the two copies of
\* the ledger exclude each other is there something about pins.
TrustIInv == TrustFacts!IInv /\ TrustFacts!TypeIInv /\ TrustFacts!AloneIInv
SharedIInv == SharedFacts!IInv /\ SharedFacts!TypeIInv
StrangerIInv == StrangerFacts!IInv /\ StrangerFacts!TypeIInv
RewrittenIInv == RewrittenFacts!IInv /\ RewrittenFacts!TypeIInv

\* Hence what is proved of the ledger holds in the first setting ...
LEMMA TrustHolds ==
    /\ Trust!Init => TrustIInv
    /\ TrustIInv /\ (Trust!Next \/ UNCHANGED trustVars) => TrustIInv'
    /\ TrustIInv => Trust!NothingRunsUnasked /\ Trust!OnePinPerRelease /\ Trust!TypeOK
<1>1. Trust!Init => TrustIInv
  BY HostAssumption, TrustSame, TrustFacts!InitIInv, TrustFacts!InitTypeIInv, TrustFacts!InitAloneIInv
  DEF TrustIInv
<1>2. TrustIInv /\ (TrustFacts!Next \/ UNCHANGED TrustFacts!trustVars) => TrustIInv'
  BY HostAssumption, TrustFacts!NextIInv, TrustFacts!NextTypeIInv, TrustFacts!NextAloneIInv
  DEF TrustIInv
<1>3. TrustIInv => Trust!NothingRunsUnasked /\ Trust!OnePinPerRelease /\ Trust!TypeOK
  BY TrustSame DEF TrustIInv, TrustFacts!IInv, TrustFacts!TypeIInv, TrustFacts!AloneIInv
<1>4. (Trust!Next \/ UNCHANGED trustVars) => (TrustFacts!Next \/ UNCHANGED TrustFacts!trustVars)
  BY TrustSame DEF trustVars, TrustFacts!trustVars
<1> QED
  BY <1>1, <1>2, <1>3, <1>4

\* ... in the second ...
LEMMA SharedHolds ==
    /\ Shared!Init => SharedIInv
    /\ SharedIInv /\ (Shared!Next \/ UNCHANGED trustVars) => SharedIInv'
    /\ SharedIInv => Shared!NothingRunsUnasked /\ Shared!TypeOK
<1>1. Shared!Init => SharedIInv
  BY HostAssumption, SharedSame, SharedFacts!InitIInv, SharedFacts!InitTypeIInv
  DEF SharedIInv
<1>2. SharedIInv /\ (SharedFacts!Next \/ UNCHANGED SharedFacts!trustVars) => SharedIInv'
  BY HostAssumption, SharedFacts!NextIInv, SharedFacts!NextTypeIInv
  DEF SharedIInv
<1>3. SharedIInv => Shared!NothingRunsUnasked /\ Shared!TypeOK
  BY SharedSame DEF SharedIInv, SharedFacts!IInv, SharedFacts!TypeIInv
<1>4. (Shared!Next \/ UNCHANGED trustVars) => (SharedFacts!Next \/ UNCHANGED SharedFacts!trustVars)
  BY SharedSame DEF trustVars, SharedFacts!trustVars
<1> QED
  BY <1>1, <1>2, <1>3, <1>4

\* ... in the third ...
LEMMA StrangerHolds ==
    /\ Stranger!Init => StrangerIInv
    /\ StrangerIInv /\ (Stranger!Next \/ UNCHANGED trustVars) => StrangerIInv'
    /\ StrangerIInv => Stranger!NothingRunsUnasked /\ Stranger!TypeOK
<1>1. Stranger!Init => StrangerIInv
  BY HostAssumption, StrangerSame, StrangerFacts!InitIInv, StrangerFacts!InitTypeIInv
  DEF StrangerIInv
<1>2. StrangerIInv /\ (StrangerFacts!Next \/ UNCHANGED StrangerFacts!trustVars) => StrangerIInv'
  BY HostAssumption, StrangerFacts!NextIInv, StrangerFacts!NextTypeIInv
  DEF StrangerIInv
<1>3. StrangerIInv => Stranger!NothingRunsUnasked /\ Stranger!TypeOK
  BY StrangerSame DEF StrangerIInv, StrangerFacts!IInv, StrangerFacts!TypeIInv
<1>4. (Stranger!Next \/ UNCHANGED trustVars) => (StrangerFacts!Next \/ UNCHANGED StrangerFacts!trustVars)
  BY StrangerSame DEF trustVars, StrangerFacts!trustVars
<1> QED
  BY <1>1, <1>2, <1>3, <1>4

\* ... and in the fourth.
LEMMA RewrittenHolds ==
    /\ Rewritten!Init => RewrittenIInv
    /\ RewrittenIInv /\ (Rewritten!Next \/ UNCHANGED trustVars) => RewrittenIInv'
    /\ RewrittenIInv => Rewritten!NothingRunsUnasked /\ Rewritten!TypeOK
<1>1. Rewritten!Init => RewrittenIInv
  BY HostAssumption, RewrittenSame, RewrittenFacts!InitIInv, RewrittenFacts!InitTypeIInv
  DEF RewrittenIInv
<1>2. RewrittenIInv /\ (RewrittenFacts!Next \/ UNCHANGED RewrittenFacts!trustVars) => RewrittenIInv'
  BY HostAssumption, RewrittenFacts!NextIInv, RewrittenFacts!NextTypeIInv
  DEF RewrittenIInv
<1>3. RewrittenIInv => Rewritten!NothingRunsUnasked /\ Rewritten!TypeOK
  BY RewrittenSame DEF RewrittenIInv, RewrittenFacts!IInv, RewrittenFacts!TypeIInv
<1>4. (Rewritten!Next \/ UNCHANGED trustVars) => (RewrittenFacts!Next \/ UNCHANGED RewrittenFacts!trustVars)
  BY RewrittenSame DEF trustVars, RewrittenFacts!trustVars
<1> QED
  BY <1>1, <1>2, <1>3, <1>4

\* What the host starts was vouched for by the publisher's signature or by the
\* user, a release that vouches for its own files does so once, and a process
\* has the host's protected variables and, from the newest round on, the
\* settings of that round; for all extensions, contents, releases and rounds,
\* whatever is replaced on the disk and however rounds, reheats and the two
\* writers of the ledger interleave (trust.rs, spawn.rs, process.rs,
\* aggregate_job.rs).
THEOREM StartsStayAsDecided == HostSpec => []StartsAsDecided
<1> DEFINE I == /\ part = "trust" => TrustIInv
                /\ part = "shared" => SharedIInv
                /\ part = "stranger" => StrangerIInv
                /\ part = "rewritten" => RewrittenIInv
                /\ part = "env" => EnvIInv
<1>1. HostInit => I
  BY TrustHolds, SharedHolds, StrangerHolds, RewrittenHolds, EnvInit DEF HostInit, TrustStart, EnvStart
<1>2. I /\ [HostNext]_hostVars => I'
  <2> SUFFICES ASSUME I, [HostNext]_hostVars PROVE I'
    OBVIOUS
  <2>1. /\ part' = part
        /\ part = "trust" => Trust!Next \/ UNCHANGED trustVars
        /\ part = "shared" => Shared!Next \/ UNCHANGED trustVars
        /\ part = "stranger" => Stranger!Next \/ UNCHANGED trustVars
        /\ part = "rewritten" => Rewritten!Next \/ UNCHANGED trustVars
        /\ part = "env" => Env!Next \/ UNCHANGED envVars
    BY DEF HostNext, hostVars
  <2> QED BY <2>1, TrustHolds, SharedHolds, StrangerHolds, RewrittenHolds, EnvNext
<1>3. I => StartsAsDecided
  BY TrustHolds, SharedHolds, StrangerHolds, RewrittenHolds, EnvSound DEF StartsAsDecided
<1> QED
  BY <1>1, <1>2, <1>3, PTL DEF HostSpec
-----------------------------------------------------------------------------
(* The client of a built-in extension (InProcess).                         *)

Earlier(x, y) == x[1] < y[1] \/ (x[1] = y[1] /\ x[2] < y[2])

\* Everything in a bus was made by a call that answered in time.
MadeInTime(bus, ends) == \A i \in DOMAIN bus : ends[bus[i][1]] = "ok"

\* What is still in a bus comes after what was taken from it.
Follows(done, bus, ends) ==
    /\ Inproc!Increasing(bus) /\ MadeInTime(bus, ends)
    /\ \A i \in DOMAIN done, j \in DOMAIN bus : Earlier(done[i], bus[j])

Object == {o \in [host_requests : Seq(Inproc!Asked), notifications : Seq(Inproc!Asked)] :
              Len(o.host_requests) <= RequestsCap /\ Len(o.notifications) <= BusCap}

\* The object of the client, in its slot or in the thread that is waited for.
Live(object) == Follows(ran, object.host_requests, ended) /\ Follows(inprocReported, object.notifications, ended)

InprocTypes ==
    /\ calls \in 0 .. MaxCalls /\ waiting \in {Inproc!Nobody, calls}
    /\ state \in {"closed", "opening", "open", "hung"}
    /\ ended \in [Inproc!Call -> Inproc!Ending]
    /\ slot = <<>> \/ \E o \in Object : slot = <<o>>
    /\ \A t \in threads : t \in [call : 1 .. calls, object : Object]
    /\ ran \in Seq(Inproc!Asked) /\ inprocReported \in Seq(Inproc!Asked)

\* The strengthening of RunsWhatWasReturned: the client has its object or waits
\* for the last call that was made, whose end is open; and the one object that
\* may still be polled holds, in order, what came after all that was.
InprocIInv ==
    /\ InprocTypes
    /\ slot # <<>> => state = "open"
    /\ waiting = Inproc!Nobody <=> slot # <<>> \/ state \in {"closed", "hung"}
    /\ \A c \in Inproc!Call : c > calls \/ c = waiting => ended[c] = "none"
    /\ slot # <<>> => Live(Head(slot))
    /\ \A t \in threads : t.call = waiting => Live(t.object)
    /\ Inproc!RunsWhatWasReturned

\* What the record of a call holds.
LEMMA InprocCalls ==
    ASSUME InprocTypes
    PROVE  /\ Inproc!Nobody \notin Inproc!Call
           /\ \A c \in 1 .. calls : c \in Inproc!Call
           /\ \A x \in Inproc!Asked : x[1] \in Inproc!Call /\ x[1] \in Nat /\ x[2] \in Nat
           /\ Inproc!Call \subseteq Nat /\ calls \in Nat
  BY HostAssumption DEF InprocTypes, Inproc!Nobody, Inproc!Call, Inproc!Asked

\* Where the entries of a joined sequence come from.
LEMMA Joined ==
    /\ \A p, q \in Seq(Inproc!Asked) :
          /\ p \o q \in Seq(Inproc!Asked)
          /\ DOMAIN (p \o q) = 1 .. Len(p) + Len(q)
          /\ Len(p) \in Nat /\ DOMAIN p = 1 .. Len(p)
    /\ \A p, q \in Seq(Inproc!Asked) : \A i \in DOMAIN (p \o q) :
          (p \o q)[i] = IF i <= Len(p) THEN p[i] ELSE q[i - Len(p)]
  OBVIOUS

\* Two ordered sequences of which one follows the other are ordered as one.
LEMMA AppendFollows ==
    ASSUME NEW done \in Seq(Inproc!Asked), NEW bus \in Seq(Inproc!Asked),
           NEW ends, Inproc!Increasing(done), MadeInTime(done, ends), Follows(done, bus, ends)
    PROVE  /\ Inproc!Increasing(done \o bus) /\ MadeInTime(done \o bus, ends)
           /\ done \o bus \in Seq(Inproc!Asked)
<1> DEFINE all == done \o bus
<1>1. /\ all \in Seq(Inproc!Asked) /\ DOMAIN all = 1 .. Len(done) + Len(bus)
      /\ Len(done) \in Nat /\ Len(bus) \in Nat
      /\ DOMAIN done = 1 .. Len(done) /\ DOMAIN bus = 1 .. Len(bus)
      /\ \A i \in DOMAIN all : all[i] = IF i <= Len(done) THEN done[i] ELSE bus[i - Len(done)]
  BY Joined
<1> HIDE DEF all
<1>2. MadeInTime(all, ends)
  BY <1>1 DEF MadeInTime, Follows
<1>3. Inproc!Increasing(all)
  <2> SUFFICES ASSUME NEW i \in DOMAIN all, NEW j \in DOMAIN all, i < j
               PROVE  Earlier(all[i], all[j])
    BY DEF Inproc!Increasing, Earlier
  <2>1. CASE j <= Len(done)
    BY <1>1, <2>1 DEF Inproc!Increasing, Earlier
  <2>2. CASE i <= Len(done) /\ j > Len(done)
    BY <1>1, <2>2 DEF Follows
  <2>3. CASE i > Len(done)
    <3>1. /\ i - Len(done) \in DOMAIN bus /\ j - Len(done) \in DOMAIN bus
          /\ i - Len(done) < j - Len(done)
          /\ all[i] = bus[i - Len(done)] /\ all[j] = bus[j - Len(done)]
      BY <1>1, <2>3
    <3> QED BY <3>1 DEF Follows, Inproc!Increasing, Earlier
  <2> QED BY <1>1, <2>1, <2>2, <2>3
<1> QED BY <1>1, <1>2, <1>3 DEF all

\* A bounded bus keeps its latest entries, in their order.
LEMMA CappedBus ==
    ASSUME NEW bus \in Seq(Inproc!Asked), NEW cap \in Nat
    PROVE  LET kept == Inproc!Capped(bus, cap) IN
           /\ kept \in Seq(Inproc!Asked) /\ Len(kept) <= cap
           /\ \E m \in Nat : \A i \in DOMAIN kept : i + m \in DOMAIN bus /\ kept[i] = bus[i + m]
<1> DEFINE from == Inproc!Max({1, Len(bus) - cap + 1})
           kept == Inproc!Capped(bus, cap)
<1>1. Len(bus) \in Nat /\ DOMAIN bus = 1 .. Len(bus)
  OBVIOUS
<1>2. from \in {1, Len(bus) - cap + 1} /\ from >= 1 /\ from >= Len(bus) - cap + 1
  <2>1. \E x \in {1, Len(bus) - cap + 1} : \A y \in {1, Len(bus) - cap + 1} : x >= y
    BY <1>1
  <2> QED BY <1>1, <2>1 DEF Inproc!Max
<1>3. from \in 1 .. Len(bus) + 1
  BY <1>1, <1>2
<1> HIDE DEF from
<1>4. /\ SubSeq(bus, from, Len(bus)) \in Seq(Inproc!Asked)
      /\ Len(SubSeq(bus, from, Len(bus))) = Len(bus) - from + 1
      /\ \A i \in 1 .. Len(bus) - from + 1 : SubSeq(bus, from, Len(bus))[i] = bus[i + from - 1]
  BY <1>1, <1>3
<1>5. kept = SubSeq(bus, from, Len(bus))
  BY DEF Inproc!Capped, from
<1> HIDE DEF kept
<1>6. DOMAIN kept = 1 .. Len(bus) - from + 1 /\ from - 1 \in Nat
  BY <1>1, <1>3, <1>4, <1>5
<1>7. \A i \in DOMAIN kept : i + (from - 1) \in DOMAIN bus /\ kept[i] = bus[i + (from - 1)]
  BY <1>1, <1>3, <1>4, <1>5, <1>6
<1>8. kept \in Seq(Inproc!Asked) /\ Len(kept) <= cap
  BY <1>1, <1>2, <1>3, <1>4, <1>5
<1> QED BY <1>6, <1>7, <1>8 DEF kept

\* A suffix of what is in order is in order.
LEMMA SuffixFollows ==
    ASSUME NEW done \in Seq(Inproc!Asked), NEW bus \in Seq(Inproc!Asked), NEW ends,
           NEW cap \in Nat, Follows(done, bus, ends)
    PROVE  Follows(done, Inproc!Capped(bus, cap), ends)
<1> DEFINE kept == Inproc!Capped(bus, cap)
<1>1. PICK m \in Nat : \A i \in DOMAIN kept : i + m \in DOMAIN bus /\ kept[i] = bus[i + m]
  BY CappedBus
<1>2. DOMAIN kept \subseteq Nat
  BY CappedBus
<1> HIDE DEF kept
<1>3. Inproc!Increasing(kept)
  <2> SUFFICES ASSUME NEW i \in DOMAIN kept, NEW j \in DOMAIN kept, i < j
               PROVE  Earlier(kept[i], kept[j])
    BY DEF Inproc!Increasing, Earlier
  <2>1. i + m \in DOMAIN bus /\ j + m \in DOMAIN bus /\ i + m < j + m
    BY <1>1, <1>2
  <2> QED BY <1>1, <2>1 DEF Follows, Inproc!Increasing, Earlier
<1>4. MadeInTime(kept, ends)
  BY <1>1 DEF Follows, MadeInTime
<1>5. \A i \in DOMAIN done, j \in DOMAIN kept : Earlier(done[i], kept[j])
  BY <1>1 DEF Follows
<1> QED BY <1>3, <1>4, <1>5 DEF Follows, kept

\* The effects of a call come after all that was made in time before it.
LEMMA EffectsFollow ==
    ASSUME InprocIInv, NEW t \in threads, t.call = waiting,
           NEW done \in Seq(Inproc!Asked), NEW bus \in Seq(Inproc!Asked),
           Inproc!Increasing(done), MadeInTime(done, ended), Follows(done, bus, ended),
           NEW effects \in Inproc!EffectsOf(t.call),
           NEW result, effects # <<>> => result = "ok",
           NEW ends, ends = [ended EXCEPT ![t.call] = result]
    PROVE  /\ bus \o effects \in Seq(Inproc!Asked)
           /\ Follows(done, bus \o effects, ends)
           /\ MadeInTime(done, ends)
<1>1. PICK n \in 0 .. CallEffects : effects = [i \in 1 .. n |-> <<t.call, i>>]
  BY DEF Inproc!EffectsOf
<1>2. t.call \in Inproc!Call /\ t.call \in Nat /\ n \in Nat /\ t.call = calls
      /\ ended[t.call] = "none"
  BY HostAssumption, InprocCalls DEF InprocIInv, InprocTypes
<1>3. /\ effects \in Seq(Inproc!Asked) /\ Len(effects) = n
      /\ \A i \in 1 .. n : effects[i] = <<t.call, i>>
  <2>1. \A i \in 1 .. n : <<t.call, i>> \in Inproc!Asked
    BY <1>2, HostAssumption DEF Inproc!Asked
  <2> HIDE DEF Inproc!Asked
  <2>2. effects \in [1 .. n -> Inproc!Asked]
    BY <1>1, <2>1
  <2> QED BY <1>1, <1>2, <2>2
<1>4. /\ ends[t.call] = result
      /\ \A c \in Inproc!Call \ {t.call} : ends[c] = ended[c]
  BY <1>2 DEF InprocIInv, InprocTypes
<1>5. \A x \in Inproc!Asked : ended[x[1]] = "ok" =>
        ends[x[1]] = "ok" /\ x[1] < t.call
  BY <1>2, <1>4, InprocCalls DEF InprocIInv
<1> DEFINE all == bus \o effects
<1>6. /\ all \in Seq(Inproc!Asked) /\ DOMAIN all = 1 .. Len(bus) + n
      /\ Len(bus) \in Nat /\ DOMAIN bus = 1 .. Len(bus)
      /\ \A i \in DOMAIN all : all[i] = IF i <= Len(bus) THEN bus[i] ELSE <<t.call, i - Len(bus)>>
  <2>1. /\ all \in Seq(Inproc!Asked) /\ DOMAIN all = 1 .. Len(bus) + Len(effects)
        /\ Len(bus) \in Nat /\ DOMAIN bus = 1 .. Len(bus)
        /\ \A i \in DOMAIN all : all[i] = IF i <= Len(bus) THEN bus[i] ELSE effects[i - Len(bus)]
    <3>1. effects \in Seq(Inproc!Asked)
      BY <1>3
    <3> QED BY <3>1, Joined, Zenon
  <2> HIDE DEF all
  <2>2. \A i \in DOMAIN all : i > Len(bus) => i - Len(bus) \in 1 .. n
    BY <1>2, <1>3, <2>1
  <2>3. DOMAIN all = 1 .. Len(bus) + n
    BY <1>3, <2>1
  <2>4. ASSUME NEW i \in DOMAIN all
        PROVE  all[i] = IF i <= Len(bus) THEN bus[i] ELSE <<t.call, i - Len(bus)>>
    <3>1. CASE i <= Len(bus)
      BY <2>1, <3>1
    <3>2. CASE ~(i <= Len(bus))
      <4>1. i - Len(bus) \in 1 .. n
        BY <2>1, <2>2, <2>3, <3>2
      <4> QED BY <1>3, <2>1, <3>2, <4>1
    <3> QED BY <3>1, <3>2
  <2> QED BY <2>1, <2>3, <2>4
<1> HIDE DEF all
<1>7. \A i \in DOMAIN done : done[i] \in Inproc!Asked
  OBVIOUS
<1>8. \A i \in DOMAIN bus : bus[i] \in Inproc!Asked
  OBVIOUS
<1>9. MadeInTime(done, ends)
  BY <1>5, <1>7 DEF MadeInTime
<1>10. MadeInTime(all, ends)
  <2> SUFFICES ASSUME NEW i \in DOMAIN all PROVE ends[all[i][1]] = "ok"
    BY DEF MadeInTime
  <2>1. CASE i <= Len(bus)
    BY <1>5, <1>6, <1>8, <2>1 DEF Follows, MadeInTime
  <2>2. CASE i > Len(bus)
    <3>1. effects # <<>> /\ all[i][1] = t.call
      BY <1>2, <1>3, <1>6, <2>2
    <3> QED BY <1>4, <3>1
  <2> QED BY <1>6, <2>1, <2>2
<1>11. Inproc!Increasing(all)
  <2> SUFFICES ASSUME NEW i \in DOMAIN all, NEW j \in DOMAIN all, i < j
               PROVE  Earlier(all[i], all[j])
    BY DEF Inproc!Increasing, Earlier
  <2>1. CASE j <= Len(bus)
    BY <1>6, <2>1 DEF Follows, Inproc!Increasing, Earlier
  <2>2. CASE i <= Len(bus) /\ j > Len(bus)
    <3>1. all[i] = bus[i] /\ bus[i][1] < t.call /\ all[j][1] = t.call
      BY <1>2, <1>5, <1>6, <1>8, <2>2 DEF Follows, MadeInTime
    <3> QED BY <3>1 DEF Earlier
  <2>3. CASE i > Len(bus)
    BY <1>2, <1>6, <2>3 DEF Earlier
  <2> QED BY <1>6, <2>1, <2>2, <2>3
<1>12. \A i \in DOMAIN done, j \in DOMAIN all : Earlier(done[i], all[j])
  <2> SUFFICES ASSUME NEW i \in DOMAIN done, NEW j \in DOMAIN all
               PROVE  Earlier(done[i], all[j])
    OBVIOUS
  <2>1. CASE j <= Len(bus)
    BY <1>6, <2>1 DEF Follows
  <2>2. CASE j > Len(bus)
    <3>1. done[i][1] < t.call /\ all[j][1] = t.call
      BY <1>2, <1>5, <1>6, <1>7, <2>2 DEF MadeInTime
    <3> QED BY <3>1 DEF Earlier
  <2> QED BY <1>6, <2>1, <2>2
<1> QED BY <1>6, <1>9, <1>10, <1>11, <1>12 DEF Follows, MadeInTime, Inproc!Increasing, Earlier, all

\* Nothing was called at first.
LEMMA InprocInit == Inproc!Init => InprocIInv
<1> SUFFICES ASSUME Inproc!Init PROVE InprocIInv
  OBVIOUS
<1>1. InprocTypes
  BY HostAssumption DEF Inproc!Init, InprocTypes, Inproc!Nobody, Inproc!Ending
<1>2. Inproc!RunsWhatWasReturned
  BY DEF Inproc!Init, Inproc!RunsWhatWasReturned, Inproc!Increasing
<1>3. \A c \in Inproc!Call : ended[c] = "none"
  BY DEF Inproc!Init
<1> QED
  BY <1>1, <1>2, <1>3 DEF Inproc!Init, InprocIInv

\* A new object follows whatever was taken from the ones before it.
LEMMA FreshFollows ==
    /\ Inproc!Fresh \in Object
    /\ \A done, ends : /\ Follows(done, Inproc!Fresh.host_requests, ends)
                       /\ Follows(done, Inproc!Fresh.notifications, ends)
  BY HostAssumption DEF Inproc!Fresh, Object, Follows, MadeInTime, Inproc!Increasing

\* A call begins: it is the last one, and its thread has the object.
LEMMA StartKeepsInprocIInv ==
    ASSUME InprocIInv, NEW object \in Object, Live(object), Inproc!Start(object),
           slot' = <<>>, state' \in {"opening", "open"}, waiting = Inproc!Nobody,
           UNCHANGED <<ended, ran, inprocReported>>
    PROVE  InprocIInv'
<1>1. /\ calls < MaxCalls /\ calls' = calls + 1 /\ waiting' = calls + 1
      /\ threads' = threads \cup {[call |-> calls + 1, object |-> object]}
      /\ calls \in Nat /\ MaxCalls \in Nat
  BY HostAssumption DEF Inproc!Start, InprocIInv, InprocTypes
<1>2. \A t \in threads' : t \in [call : 1 .. calls', object : Object]
  BY <1>1 DEF InprocIInv, InprocTypes
<1>3. InprocTypes'
  BY <1>1, <1>2 DEF InprocIInv, InprocTypes
<1>4. waiting' # Inproc!Nobody
  BY <1>1 DEF Inproc!Nobody
<1>5. \A c \in Inproc!Call : c > calls' \/ c = waiting' => c > calls
  BY <1>1 DEF Inproc!Call
<1>6. \A t \in threads' : t.call = waiting' => t.object = object
  BY <1>1 DEF InprocIInv, InprocTypes
<1> QED
  BY <1>3, <1>4, <1>5, <1>6 DEF InprocIInv, Live, Follows, MadeInTime, Inproc!RunsWhatWasReturned

\* A built-in extension is opened.
LEMMA OpenBuiltinKeepsInprocIInv ==
    ASSUME InprocIInv, Inproc!OpenBuiltin
    PROVE  InprocIInv'
<1>1. Live(Inproc!Fresh) /\ Inproc!Fresh \in Object
  BY FreshFollows DEF Live
<1>2. slot = <<>> /\ waiting = Inproc!Nobody
  BY DEF InprocIInv, Inproc!OpenBuiltin
<1> QED
  BY <1>1, <1>2, StartKeepsInprocIInv DEF Inproc!OpenBuiltin

\* A call is handed to its thread.
LEMMA InprocCallKeepsInprocIInv ==
    ASSUME InprocIInv, Inproc!InprocCall
    PROVE  InprocIInv'
<1>1. Live(Head(slot)) /\ Head(slot) \in Object /\ waiting = Inproc!Nobody
  BY DEF InprocIInv, InprocTypes, Inproc!InprocCall
<1> QED
  BY <1>1, StartKeepsInprocIInv DEF Inproc!InprocCall

\* What was drained was made by calls that are over.
LEMMA EndingKeepsDone ==
    ASSUME InprocIInv, waiting # Inproc!Nobody, NEW result, NEW ends,
           ends = [ended EXCEPT ![waiting] = result],
           NEW done \in Seq(Inproc!Asked), MadeInTime(done, ended)
    PROVE  MadeInTime(done, ends)
<1>1. waiting = calls /\ calls \in Inproc!Call /\ ended[waiting] = "none"
  BY HostAssumption DEF InprocIInv, InprocTypes, Inproc!Nobody, Inproc!Call
<1>2. \A c \in Inproc!Call \ {waiting} : ends[c] = ended[c]
  BY <1>1 DEF InprocIInv, InprocTypes
<1>3. \A i \in DOMAIN done : done[i][1] \in Inproc!Call
  BY DEF Inproc!Asked
<1> QED
  BY <1>1, <1>2, <1>3 DEF MadeInTime

\* The thread returns in time.
LEMMA ReturnsKeepsInprocIInv ==
    ASSUME InprocIInv, NEW t \in threads, NEW result \in {"ok", "error"},
           NEW requests \in Inproc!EffectsOf(t.call),
           NEW notifications \in Inproc!EffectsOf(t.call),
           Inproc!Returns(t, requests, notifications, result)
    PROVE  InprocIInv'
<1> DEFINE routed == Inproc!Routed(t.object, requests, notifications)
<1>1. /\ t.call = waiting /\ waiting' = Inproc!Nobody
      /\ threads' = threads \ {t}
      /\ ended' = [ended EXCEPT ![t.call] = result]
      /\ state' = IF state = "open" \/ result = "ok" THEN "open" ELSE "closed"
      /\ slot' = IF state' = "open" THEN <<routed>> ELSE <<>>
      /\ UNCHANGED <<calls, ran, inprocReported>>
      /\ requests # <<>> => result = "ok"
      /\ notifications # <<>> => result = "ok"
  BY DEF Inproc!Returns
<1>2. /\ t.call \in 1 .. calls /\ t.object \in Object /\ Live(t.object)
      /\ waiting # Inproc!Nobody /\ waiting = calls
  BY <1>1, HostAssumption DEF InprocIInv, InprocTypes, Inproc!Nobody
<1>3. /\ ran \in Seq(Inproc!Asked) /\ inprocReported \in Seq(Inproc!Asked)
      /\ Inproc!Increasing(ran) /\ Inproc!Increasing(inprocReported)
      /\ MadeInTime(ran, ended) /\ MadeInTime(inprocReported, ended)
  BY DEF InprocIInv, InprocTypes, Inproc!RunsWhatWasReturned, MadeInTime
<1>4. /\ t.object.host_requests \o requests \in Seq(Inproc!Asked)
      /\ Follows(ran, t.object.host_requests \o requests, ended')
      /\ MadeInTime(ran, ended')
  BY <1>1, <1>2, <1>3, EffectsFollow DEF Live, Object
<1>5. /\ t.object.notifications \o notifications \in Seq(Inproc!Asked)
      /\ Follows(inprocReported, t.object.notifications \o notifications, ended')
      /\ MadeInTime(inprocReported, ended')
  BY <1>1, <1>2, <1>3, EffectsFollow DEF Live, Object
<1>6. /\ routed.host_requests = Inproc!Capped(t.object.host_requests \o requests, RequestsCap)
      /\ routed.notifications = Inproc!Capped(t.object.notifications \o notifications, BusCap)
      /\ routed = [host_requests |-> routed.host_requests, notifications |-> routed.notifications]
  BY DEF Inproc!Routed
<1> HIDE DEF routed
<1>23. RequestsCap \in Nat /\ BusCap \in Nat
  BY HostAssumption
<1>21. Follows(ran, routed.host_requests, ended')
  BY <1>3, <1>4, <1>6, <1>23, SuffixFollows
<1>22. Follows(inprocReported, routed.notifications, ended')
  BY <1>3, <1>5, <1>6, <1>23, SuffixFollows
<1>7. /\ Follows(ran, routed.host_requests, ended')
      /\ Follows(inprocReported, routed.notifications, ended')
  BY <1>21, <1>22
<1>8. routed \in Object
  BY <1>4, <1>5, <1>6, CappedBus, HostAssumption DEF Object
<1>9. InprocTypes'
  <2>1. ended' \in [Inproc!Call -> Inproc!Ending]
    BY <1>1 DEF InprocIInv, InprocTypes, Inproc!Ending
  <2> QED BY <1>1, <1>8, <2>1 DEF InprocIInv, InprocTypes
<1>10. \A c \in Inproc!Call : c > calls' \/ c = waiting' => ended'[c] = "none"
  <2>1. \A c \in Inproc!Call : c > calls => c # t.call /\ ended[c] = "none"
    BY <1>2 DEF InprocIInv, InprocTypes, Inproc!Call
  <2>2. \A c \in Inproc!Call : c # waiting'
    BY <1>1, InprocCalls DEF InprocIInv
  <2> QED BY <1>1, <2>1, <2>2 DEF InprocIInv, InprocTypes
<1>11. slot' # <<>> => state' = "open" /\ Head(slot') = routed
  BY <1>1
<1>12. \A x \in threads' : x.call # waiting'
  BY <1>1 DEF InprocIInv, InprocTypes, Inproc!Nobody
<1>13. slot' # <<>> \/ state' \in {"closed", "hung"}
  BY <1>1
<1> QED
  BY <1>1, <1>3, <1>4, <1>5, <1>7, <1>9, <1>10, <1>11, <1>12, <1>13
  DEF InprocIInv, Live, Inproc!RunsWhatWasReturned, MadeInTime

\* The thread returns when nobody waits for it.
LEMMA ReturnsTooLateKeepsInprocIInv ==
    ASSUME InprocIInv, NEW t \in threads, Inproc!ReturnsTooLate(t)
    PROVE  InprocIInv'
<1>1. threads' \subseteq threads /\ UNCHANGED <<state, slot, waiting, calls, ended, ran, inprocReported>>
  BY DEF Inproc!ReturnsTooLate
<1>2. InprocTypes'
  BY <1>1 DEF InprocIInv, InprocTypes
<1> QED
  BY <1>1, <1>2 DEF InprocIInv, Live, Follows, MadeInTime, Inproc!RunsWhatWasReturned

\* The host waits no longer.
LEMMA TimesOutKeepsInprocIInv ==
    ASSUME InprocIInv, Inproc!TimesOut
    PROVE  InprocIInv'
<1>1. /\ waiting # Inproc!Nobody /\ waiting' = Inproc!Nobody
      /\ ended' = [ended EXCEPT ![waiting] = "timeout"]
      /\ state' = IF state = "opening" THEN "closed" ELSE "hung"
      /\ UNCHANGED <<slot, threads, calls, ran, inprocReported>>
  BY DEF Inproc!TimesOut
<1>2. slot = <<>> /\ waiting = calls
  BY <1>1 DEF InprocIInv, InprocTypes
<1>3. MadeInTime(ran, ended') /\ MadeInTime(inprocReported, ended')
  BY <1>1, EndingKeepsDone DEF InprocIInv, InprocTypes, Inproc!RunsWhatWasReturned, MadeInTime
<1>4. InprocTypes'
  <2>1. ended' \in [Inproc!Call -> Inproc!Ending]
    BY <1>1 DEF InprocIInv, InprocTypes, Inproc!Ending
  <2> QED BY <1>1, <1>2, <2>1 DEF InprocIInv, InprocTypes
<1>5. \A c \in Inproc!Call : c > calls' \/ c = waiting' => ended'[c] = "none"
  <2>1. \A c \in Inproc!Call : c > calls => c # waiting /\ ended[c] = "none"
    BY <1>2, HostAssumption DEF InprocIInv, InprocTypes, Inproc!Call
  <2>2. \A c \in Inproc!Call : c # waiting'
    BY <1>1, InprocCalls DEF InprocIInv
  <2> QED BY <1>1, <2>1, <2>2 DEF InprocIInv, InprocTypes
<1>6. \A x \in threads' : x.call # waiting'
  BY <1>1 DEF InprocIInv, InprocTypes, Inproc!Nobody
<1> QED
  BY <1>1, <1>2, <1>3, <1>4, <1>5, <1>6
  DEF InprocIInv, Inproc!RunsWhatWasReturned, MadeInTime

\* The host takes what was returned.
LEMMA PollKeepsInprocIInv ==
    ASSUME InprocIInv, Inproc!Poll
    PROVE  InprocIInv'
<1> DEFINE object == Head(slot)
<1>1. /\ slot # <<>> /\ state = "open"
      /\ ran' = ran \o object.host_requests
      /\ inprocReported' = inprocReported \o object.notifications
      /\ slot' = <<Inproc!Fresh>>
      /\ UNCHANGED <<state, threads, waiting, calls, ended>>
  BY DEF Inproc!Poll
<1>2. /\ object \in Object /\ Live(object) /\ waiting = Inproc!Nobody
      /\ MadeInTime(ran, ended) /\ MadeInTime(inprocReported, ended)
      /\ Inproc!Increasing(ran) /\ Inproc!Increasing(inprocReported)
      /\ ran \in Seq(Inproc!Asked) /\ inprocReported \in Seq(Inproc!Asked)
  BY <1>1 DEF InprocIInv, InprocTypes, Inproc!RunsWhatWasReturned, MadeInTime
<1> HIDE DEF object
<1>3. /\ Inproc!Increasing(ran') /\ MadeInTime(ran', ended) /\ ran' \in Seq(Inproc!Asked)
  BY <1>1, <1>2, AppendFollows DEF Live, Object
<1>4. /\ Inproc!Increasing(inprocReported') /\ MadeInTime(inprocReported', ended)
      /\ inprocReported' \in Seq(Inproc!Asked)
  BY <1>1, <1>2, AppendFollows DEF Live, Object
<1>5. InprocTypes'
  BY <1>1, <1>3, <1>4, FreshFollows DEF InprocIInv, InprocTypes
<1>6. \A x \in threads' : x.call # waiting'
  BY <1>1, <1>2 DEF InprocIInv, InprocTypes, Inproc!Nobody
<1>7. slot' # <<>> /\ Head(slot') = Inproc!Fresh
  BY <1>1
<1> QED
  BY <1>1, <1>2, <1>3, <1>4, <1>5, <1>6, <1>7, FreshFollows
  DEF InprocIInv, Live, Inproc!RunsWhatWasReturned, MadeInTime

\* The extension is closed.
LEMMA CloseKeepsInprocIInv ==
    ASSUME InprocIInv, Inproc!Close
    PROVE  InprocIInv'
<1>1. /\ waiting = Inproc!Nobody /\ state' = "closed" /\ slot' = <<>>
      /\ UNCHANGED <<threads, waiting, calls, ended, ran, inprocReported>>
  BY DEF Inproc!Close
<1>2. InprocTypes'
  BY <1>1 DEF InprocIInv, InprocTypes
<1> QED
  BY <1>1, <1>2 DEF InprocIInv, Live, Follows, MadeInTime, Inproc!RunsWhatWasReturned

\* Every step keeps the invariant of the in-process extensions.
LEMMA InprocNext ==
    ASSUME InprocIInv, Inproc!Next \/ UNCHANGED inprocVars
    PROVE  InprocIInv'
<1>1. CASE UNCHANGED inprocVars
  <2>1. InprocTypes'
    BY <1>1 DEF inprocVars, InprocIInv, InprocTypes
  <2> QED
    BY <1>1, <2>1 DEF inprocVars, InprocIInv, Live, Follows, MadeInTime, Inproc!RunsWhatWasReturned
<1>2. CASE Inproc!Next
  BY <1>2, OpenBuiltinKeepsInprocIInv, InprocCallKeepsInprocIInv, ReturnsKeepsInprocIInv,
     ReturnsTooLateKeepsInprocIInv, TimesOutKeepsInprocIInv, PollKeepsInprocIInv,
     CloseKeepsInprocIInv
  DEF Inproc!Next
<1> QED BY <1>1, <1>2

\* What the host runs for a built-in extension was asked for by calls that
\* answered in time, in the order in which they were made and each thing once,
\* for any number of calls, however late the threads that were given up come to
\* an end and whenever the client is closed and opened again (ext_client.rs,
\* ext_inprocess.rs).
THEOREM RunsStayReturned == HostSpec => []RunsWhatWasReturned
<1> DEFINE I == part = "inproc" => InprocIInv
<1>1. HostInit => I
  BY InprocInit DEF HostInit, InprocStart
<1>2. I /\ [HostNext]_hostVars => I'
  <2> SUFFICES ASSUME I, [HostNext]_hostVars PROVE I'
    OBVIOUS
  <2>1. part' = part /\ (part = "inproc" => Inproc!Next \/ UNCHANGED inprocVars)
    BY DEF HostNext, hostVars
  <2> QED BY <2>1, InprocNext
<1>3. I => RunsWhatWasReturned
  BY DEF RunsWhatWasReturned, InprocIInv
<1> QED
  BY <1>1, <1>2, <1>3, PTL DEF HostSpec

-----------------------------------------------------------------------------
(* The serving loop of an extension's process (ServeLoop).                 *)

\* What the host may have written, and the process.
Told(line) ==
    \/ line = Serve!TooLarge \/ Serve!Valid(line)
    \/ line \in Serve!Malformed(Serve!HostRequest(1))
    \/ \E n \in 1 .. MaxRequests : line \in Serve!Malformed(Serve!Request(n, "invoke", "fit"))
Said(line) == Serve!Valid(line) \/ line \in Serve!Malformed(Serve!HostRequest(1))

LinesTyped ==
    /\ stdin \in Seq(Serve!Line) /\ chunk \in Seq(Serve!Line)
    /\ outputs \in Seq(Serve!Line) /\ stdout \in Seq(Serve!Line)
    /\ REQ_ID \in Nat /\ sent \in 0 .. MaxRequests
    /\ asked \in Seq(Int) /\ answered \in Seq(Int)

\* The strengthening of NoEcho and AnswersInOrder: what is still to be written
\* passes the validator too.
ServeIInv ==
    /\ LinesTyped
    /\ \A i \in DOMAIN stdin : Told(stdin[i])
    /\ \A i \in DOMAIN stdout : Said(stdout[i])
    /\ \A i \in DOMAIN outputs : Serve!Valid(outputs[i])
    /\ Serve!AnswersInOrder

\* The validator accepts a line if none of its tests fails.
LEMMA ValidLine ==
    ASSUME NEW line \in Serve!Line
    PROVE  Serve!Valid(line) <=>
              /\ line.top = "object" /\ line.id # Serve!Odd /\ line.jsonrpc = "2.0"
              /\ line.method # "odd" /\ line.params # "odd" /\ line.error # "odd"
              /\ ~(line.result /\ line.error # "none")
<1>1. DOMAIN Serve!Checks(line) = 1 .. 8
  BY DEF Serve!Checks
<1>2. Serve!Valid(line) <=> \A i \in 1 .. 8 : ~Serve!Checks(line)[i][1]
  BY <1>1 DEF Serve!Valid, Serve!Failing
<1>3. (\A i \in 1 .. 8 : ~Serve!Checks(line)[i][1]) <=>
         /\ ~Serve!Checks(line)[1][1] /\ ~Serve!Checks(line)[2][1]
         /\ ~Serve!Checks(line)[3][1] /\ ~Serve!Checks(line)[4][1]
         /\ ~Serve!Checks(line)[5][1] /\ ~Serve!Checks(line)[6][1]
         /\ ~Serve!Checks(line)[7][1] /\ ~Serve!Checks(line)[8][1]
  OBVIOUS
<1>4. /\ Serve!Checks(line)[1][1] <=> line.top = "text"
      /\ Serve!Checks(line)[2][1] <=> line.top # "object"
      /\ Serve!Checks(line)[3][1] <=> line.id = Serve!Odd
      /\ Serve!Checks(line)[4][1] <=> line.jsonrpc # "2.0"
      /\ Serve!Checks(line)[5][1] <=> line.method = "odd"
      /\ Serve!Checks(line)[6][1] <=> line.params = "odd"
      /\ Serve!Checks(line)[7][1] <=> line.result /\ line.error # "none"
      /\ Serve!Checks(line)[8][1] <=> line.error = "odd"
  BY DEF Serve!Checks
<1> QED
  BY <1>2, <1>3, <1>4

\* The id of a refusal is the one that was read, or none.
LEMMA RefusalId ==
    ASSUME NEW line \in Serve!Line, ~Serve!Valid(line)
    PROVE  \E k \in {Serve!NoId, Serve!Known(line)} :
              Serve!ToErrorResponse(line) = Serve!ErrorResponse(k)
<1> DEFINE failing == Serve!Failing(line)
<1>1. failing \subseteq 1 .. 8 /\ failing # {}
  BY DEF Serve!Checks, Serve!Failing, Serve!Valid
<1> HIDE DEF failing
<1>2. \E x \in failing : \A y \in failing : x <= y
  <2>1. \A y \in failing : y \in Nat /\ y >= 1 /\ y <= 8
    BY <1>1
  <2>2. CASE \E x \in 1 .. 4 : x \in failing
    BY <2>1, <2>2
  <2>3. CASE \A x \in 1 .. 4 : x \notin failing
    <3>1. \A y \in failing : y >= 5
      BY <2>1, <2>3
    <3>2. PICK y \in failing : TRUE
      BY <1>1
    <3>3. 5 \in failing \/ 6 \in failing \/ 7 \in failing \/ 8 \in failing
      BY <2>1, <3>1, <3>2
    <3> QED BY <2>1, <3>1, <3>3
  <2> QED BY <2>2, <2>3
<1>3. Serve!Min(failing) \in 1 .. 8
  BY <1>1, <1>2 DEF Serve!Min
<1>4. \A i \in 1 .. 8 : Serve!Checks(line)[i][2] \in {Serve!NoId, Serve!Known(line)}
  BY DEF Serve!Checks
<1> QED
  BY <1>3, <1>4 DEF Serve!ToErrorResponse, failing

\* What either end makes passes the validator of the other.
LEMMA WellMade ==
    /\ \A n \in Int \ {Serve!Odd} :
          /\ Serve!ErrorResponse(n) \in Serve!Line /\ Serve!Valid(Serve!ErrorResponse(n))
          /\ Serve!Result(n) \in Serve!Line /\ Serve!Valid(Serve!Result(n))
          /\ Serve!HostRequest(n) \in Serve!Line /\ Serve!Valid(Serve!HostRequest(n))
          /\ ~Serve!IsAnswer(Serve!HostRequest(n))
          /\ \A m \in Serve!Method, p \in {"fit", "unfit"} :
                Serve!Request(n, m, p) \in Serve!Line /\ Serve!Valid(Serve!Request(n, m, p))
    /\ Serve!ItemsChanged \in Serve!Line /\ Serve!Valid(Serve!ItemsChanged)
    /\ ~Serve!IsAnswer(Serve!ItemsChanged)
    /\ Serve!TooLarge \in Serve!Line /\ ~Serve!Valid(Serve!TooLarge)
<1>1. /\ Serve!NoId = 0 /\ Serve!Odd = -2 /\ Serve!Null = -1
      /\ "host/show_status" # "odd" /\ "items_changed" # "odd"
  BY DEF Serve!NoId, Serve!Odd, Serve!Null
<1>2. \A m \in Serve!Method : m # "odd"
  BY DEF Serve!Method
<1>3. Serve!Plain \in Serve!Line
  BY DEF Serve!Plain, Serve!Line, Serve!NoId
<1>4. /\ Serve!Plain.top = "object" /\ Serve!Plain.id = 0 /\ Serve!Plain.jsonrpc = "2.0"
      /\ Serve!Plain.method = "none" /\ Serve!Plain.params = "none"
      /\ Serve!Plain.result = FALSE /\ Serve!Plain.error = "none"
  BY DEF Serve!Plain, Serve!NoId
<1>5. ASSUME NEW n \in Int \ {Serve!Odd}
      PROVE  Serve!Result(n) \in Serve!Line /\ Serve!Valid(Serve!Result(n))
  <2>1. Serve!Result(n) \in Serve!Line
    BY <1>3 DEF Serve!Result, Serve!Line
  <2> QED BY <1>1, <1>3, <1>4, <2>1, ValidLine DEF Serve!Result, Serve!Line
<1>6. ASSUME NEW n \in Int \ {Serve!Odd}
      PROVE  Serve!ErrorResponse(n) \in Serve!Line /\ Serve!Valid(Serve!ErrorResponse(n))
  <2> DEFINE k == IF n = Serve!NoId THEN Serve!Null ELSE n
  <2>1. Serve!ErrorResponse(n) = [Serve!Plain EXCEPT !.id = k, !.error = "object"]
    BY DEF Serve!ErrorResponse
  <2>2. k \in Int \ {Serve!Odd}
    BY <1>1
  <2> HIDE DEF k
  <2>3. Serve!ErrorResponse(n) \in Serve!Line
    BY <1>3, <2>1, <2>2 DEF Serve!Line
  <2> QED BY <1>1, <1>3, <1>4, <2>1, <2>2, <2>3, ValidLine DEF Serve!Line
<1>7. ASSUME NEW n \in Int \ {Serve!Odd}, NEW p \in {"fit", "unfit"},
             NEW m \in {"host/show_status", "items_changed"} \cup Serve!Method
      PROVE  /\ Serve!Request(n, m, p) \in Serve!Line /\ Serve!Valid(Serve!Request(n, m, p))
             /\ Serve!Request(n, m, p).method = m
  <2>1. Serve!Request(n, m, p) \in Serve!Line
    BY <1>1, <1>3 DEF Serve!Request, Serve!Line
  <2>2. /\ Serve!Request(n, m, p).top = "object" /\ Serve!Request(n, m, p).id = n
        /\ Serve!Request(n, m, p).jsonrpc = "2.0" /\ Serve!Request(n, m, p).method = m
        /\ Serve!Request(n, m, p).params = p /\ Serve!Request(n, m, p).result = FALSE
        /\ Serve!Request(n, m, p).error = "none"
    BY <1>3, <1>4 DEF Serve!Request, Serve!Line
  <2> QED BY <1>1, <1>2, <2>1, <2>2, ValidLine
<1>8. Serve!TooLarge \in Serve!Line /\ ~Serve!Valid(Serve!TooLarge)
  <2>1. Serve!TooLarge \in Serve!Line /\ Serve!TooLarge.top # "object"
    BY <1>3 DEF Serve!TooLarge, Serve!Line
  <2> QED BY <2>1, ValidLine
<1>9. /\ Serve!ItemsChanged \in Serve!Line /\ Serve!Valid(Serve!ItemsChanged)
      /\ ~Serve!IsAnswer(Serve!ItemsChanged)
  BY <1>1, <1>7 DEF Serve!ItemsChanged, Serve!IsAnswer
<1>10. ASSUME NEW n \in Int \ {Serve!Odd}
       PROVE  /\ Serve!HostRequest(n) \in Serve!Line /\ Serve!Valid(Serve!HostRequest(n))
              /\ ~Serve!IsAnswer(Serve!HostRequest(n))
  BY <1>7 DEF Serve!HostRequest, Serve!IsAnswer
<1> QED
  BY <1>5, <1>6, <1>7, <1>8, <1>9, <1>10

\* How many of the entries of a sequence are of a kind is a number.
LEMMA Counted ==
    ASSUME NEW n \in Nat, NEW S \in SUBSET (1 .. n)
    PROVE  Serve!Cardinality(S) \in Nat
<1>1. Serve!Cardinality(S) = Cardinality(S)
  BY DEF Serve!Cardinality, Cardinality
<1>2. IsFiniteSet(1 .. n)
  BY FS_Interval
<1>3. IsFiniteSet(S)
  BY <1>2, FS_Subset
<1>4. Cardinality(S) \in Nat
  BY <1>3, FS_CardinalityType
<1> QED
  BY <1>1, <1>4

\* The lines of the effects of a call are valid, and none is an answer.
LEMMA EffectLinesPass ==
    ASSUME REQ_ID \in Nat, NEW effects \in Serve!SeqOf(Serve!Effect, ServeEffects)
    PROVE  LET lines == Serve!EffectLines(effects) IN
           /\ lines \in Seq(Serve!Line)
           /\ \A i \in DOMAIN lines : Serve!Valid(lines[i]) /\ ~Serve!IsAnswer(lines[i])
<1>1. PICK n \in 0 .. ServeEffects : effects \in [1 .. n -> Serve!Effect]
  BY DEF Serve!SeqOf
<1>2. n \in Nat /\ DOMAIN effects = 1 .. n
  BY <1>1, HostAssumption
<1> DEFINE id(i) == REQ_ID + Serve!Cardinality({j \in 1 .. i - 1 : effects[j] = "host_request"})
           line(i) == IF effects[i] = "items_changed" THEN Serve!ItemsChanged
                      ELSE Serve!HostRequest(id(i))
<1>3. \A i \in 1 .. n : id(i) \in Int \ {Serve!Odd}
  <2> TAKE i \in 1 .. n
  <2>1. Serve!Cardinality({j \in 1 .. i - 1 : effects[j] = "host_request"}) \in Nat
    <3>1. i - 1 \in Nat
      BY <1>2
    <3> QED BY <3>1, Counted
  <2> QED BY <2>1 DEF Serve!Odd
<1> HIDE DEF id
<1>4. \A i \in 1 .. n : /\ line(i) \in Serve!Line
                         /\ Serve!Valid(line(i)) /\ ~Serve!IsAnswer(line(i))
  BY <1>3, WellMade
<1>5. Serve!EffectLines(effects) = [i \in 1 .. n |-> line(i)]
  BY <1>2 DEF Serve!EffectLines, id
<1> HIDE DEF line
<1>6. Serve!EffectLines(effects) \in [1 .. n -> Serve!Line]
  BY <1>4, <1>5
<1>7. Serve!EffectLines(effects) \in Seq(Serve!Line)
  BY <1>2, <1>6
<1> QED
  BY <1>4, <1>5, <1>7

Requests(line) == Serve!Valid(line) /\ line.method # "none" /\ Serve!HasId(line)

\* What is written for a line passes the validator; a line that asks, or that is
\* refused by its id, is answered by the first of what is written, under its id;
\* nothing else that is written is an answer.
LEMMA AnswersPass ==
    ASSUME REQ_ID \in Nat, NEW line \in Serve!Line, NEW broken \in BOOLEAN,
           NEW effects \in Serve!SeqOf(Serve!Effect, ServeEffects)
    PROVE  LET lines == Serve!Answers(line, effects, broken)
               taken == Requests(line) \/ (~Serve!Valid(line) /\ Serve!HasId(Serve!ToErrorResponse(line)))
           IN  /\ lines \in Seq(Serve!Line)
               /\ \A i \in DOMAIN lines : Serve!Valid(lines[i]) /\ (Serve!IsAnswer(lines[i]) => i = 1)
               /\ taken => lines # <<>> /\ Serve!IsAnswer(Head(lines)) /\ Head(lines).id = line.id
               /\ ~taken => ~(lines # <<>> /\ Serve!IsAnswer(Head(lines)))
<1> DEFINE lines == Serve!Answers(line, effects, broken)
           n == line.id
           known == Serve!Known(line)
<1>1. /\ Serve!NoId = 0 /\ Serve!Odd = -2 /\ Serve!Null = -1 /\ n \in Int
      /\ known = IF n \in {0, -1, -2} THEN 0 ELSE n
  BY DEF Serve!NoId, Serve!Odd, Serve!Null, Serve!Known, Serve!Line
<1>2. \A k \in Int : /\ Serve!ErrorResponse(k).id = IF k = 0 THEN -1 ELSE k
                     /\ Serve!ErrorResponse(k).method = "none"
                     /\ Serve!Result(k).id = k /\ Serve!Result(k).method = "none"
  BY <1>1 DEF Serve!ErrorResponse, Serve!Result, Serve!Plain
<1>3. CASE ~Serve!Valid(line)
  <2>1. PICK k \in {0, known} : Serve!ToErrorResponse(line) = Serve!ErrorResponse(k)
    BY <1>1, <1>3, RefusalId
  <2>2. lines = <<Serve!ErrorResponse(k)>>
    BY <1>3, <2>1 DEF Serve!Answers
  <2>3. k \in Int \ {Serve!Odd}
    BY <1>1
  <2>4. /\ Serve!HasId(Serve!ErrorResponse(k)) <=> k \notin {0, -1, -2}
        /\ Serve!IsAnswer(Serve!ErrorResponse(k)) <=> k \notin {0, -1, -2}
        /\ k \notin {0, -1, -2} => Serve!ErrorResponse(k).id = n
    BY <1>1, <1>2, <2>3 DEF Serve!HasId, Serve!Known, Serve!IsAnswer
  <2>5. Serve!ErrorResponse(k) \in Serve!Line /\ Serve!Valid(Serve!ErrorResponse(k))
    BY <2>3, WellMade
  <2> HIDE DEF lines
  <2>6. /\ lines \in Seq(Serve!Line) /\ DOMAIN lines = {1} /\ lines # <<>>
        /\ lines[1] = Serve!ErrorResponse(k) /\ Head(lines) = Serve!ErrorResponse(k)
    BY <2>2, <2>5
  <2> QED
    BY <1>3, <2>1, <2>4, <2>5, <2>6 DEF Requests, lines
<1>4. CASE Serve!Valid(line) /\ (line.method = "none" \/ ~Serve!HasId(line))
  <2>1. lines = <<>>
    BY <1>4 DEF Serve!Answers
  <2> QED BY <1>4, <2>1 DEF Requests
<1>5. CASE Requests(line)
  <2>1. n \in Int \ {Serve!Odd} /\ n \notin {0, -1, -2}
    BY <1>1, <1>5 DEF Requests, Serve!HasId
  <2>2. ASSUME NEW answer \in {Serve!Result(n), Serve!ErrorResponse(n)}
        PROVE  /\ answer \in Serve!Line /\ Serve!Valid(answer)
               /\ Serve!IsAnswer(answer) /\ answer.id = n
    <3>1. answer.id = n /\ answer.method = "none"
      BY <1>2, <2>1
    <3>2. Serve!IsAnswer(answer)
      BY <1>1, <2>1, <3>1 DEF Serve!HasId, Serve!Known, Serve!IsAnswer
    <3> QED BY <2>1, <3>1, <3>2, WellMade
  <2>3. \E answer \in {Serve!Result(n), Serve!ErrorResponse(n)} :
           lines = <<answer>> \/ lines = <<answer>> \o Serve!EffectLines(effects)
    BY <1>5 DEF Serve!Answers, Requests
  <2> HIDE DEF lines
  <2>4. PICK answer \in {Serve!Result(n), Serve!ErrorResponse(n)} :
           lines = <<answer>> \/ lines = <<answer>> \o Serve!EffectLines(effects)
    BY <2>3
  <2>5. /\ lines \in Seq(Serve!Line) /\ lines # <<>> /\ Head(lines) = answer
        /\ lines[1] = answer
        /\ \A i \in DOMAIN lines : i = 1 \/ (Serve!Valid(lines[i]) /\ ~Serve!IsAnswer(lines[i]))
    <3>1. CASE lines = <<answer>>
      BY <2>2, <3>1
    <3>2. CASE lines = <<answer>> \o Serve!EffectLines(effects)
      <4> DEFINE after == Serve!EffectLines(effects)
      <4>1. /\ after \in Seq(Serve!Line)
            /\ \A i \in DOMAIN after : Serve!Valid(after[i]) /\ ~Serve!IsAnswer(after[i])
        BY EffectLinesPass
      <4> HIDE DEF after
      <4>2. answer \in Serve!Line
        BY <2>2
      <4>3. /\ lines \in Seq(Serve!Line) /\ Len(lines) = 1 + Len(after)
            /\ lines[1] = answer
            /\ \A i \in 1 .. Len(lines) : i # 1 => i - 1 \in DOMAIN after /\ lines[i] = after[i - 1]
        BY <3>2, <4>1, <4>2 DEF after
      <4> QED BY <4>1, <4>2, <4>3
    <3> QED BY <2>4, <3>1, <3>2
  <2> QED BY <1>5, <2>2, <2>5 DEF lines
<1> QED BY <1>3, <1>4, <1>5 DEF Requests

\* Nothing was asked at first.
LEMMA ServeInit == Serve!Init => ServeIInv
  BY HostAssumption DEF Serve!Init, ServeIInv, LinesTyped, Serve!AnswersInOrder

\* The extension reads a part of what is in the pipe.
LEMMA ReadChunkKeepsServeIInv ==
    ASSUME ServeIInv, NEW n \in 1 .. Len(stdin), Serve!ReadChunk(n)
    PROVE  ServeIInv'
<1>1. /\ chunk' = SubSeq(stdin, 1, n) /\ stdin' = SubSeq(stdin, n + 1, Len(stdin))
      /\ UNCHANGED <<outputs, REQ_ID, stdout, asked, answered, sent>>
      /\ stdin \in Seq(Serve!Line) /\ Len(stdin) \in Nat
  BY DEF Serve!ReadChunk, ServeIInv, LinesTyped
<1>2. chunk' \in Seq(Serve!Line)
  BY <1>1
<1>3. /\ stdin' \in Seq(Serve!Line)
      /\ \A i \in DOMAIN stdin' : i + n \in DOMAIN stdin /\ stdin'[i] = stdin[i + n]
  BY <1>1
<1> QED
  BY <1>1, <1>2, <1>3 DEF ServeIInv, LinesTyped, Serve!AnswersInOrder

\* A line is served: at most one answer is due for it.
LEMMA ServeLineKeepsServeIInv ==
    ASSUME ServeIInv, NEW effects \in Serve!SeqOf(Serve!Effect, ServeEffects),
           NEW broken \in BOOLEAN, Serve!ServeLine(effects, broken)
    PROVE  ServeIInv'
<1> DEFINE line == Head(chunk)
<1>1. /\ outputs = <<>> /\ chunk # <<>> /\ chunk' = Tail(chunk)
      /\ UNCHANGED <<stdin, stdout, answered, sent>>
      /\ REQ_ID \in Nat /\ chunk \in Seq(Serve!Line)
      /\ asked = answered
  BY DEF Serve!ServeLine, ServeIInv, LinesTyped, Serve!AnswersInOrder
<1>2. line \in Serve!Line /\ chunk' \in Seq(Serve!Line)
  BY <1>1
<1>3. CASE line = Serve!TooLarge /\ outputs' = <<Serve!ErrorResponse(Serve!NoId)>>
           /\ UNCHANGED <<REQ_ID, asked>>
  <2> DEFINE refusal == Serve!ErrorResponse(Serve!NoId)
  <2>1. refusal \in Serve!Line /\ Serve!Valid(refusal)
    BY WellMade DEF Serve!NoId, Serve!Odd
  <2>2. ~Serve!IsAnswer(refusal)
    BY DEF Serve!ErrorResponse, Serve!Plain, Serve!IsAnswer, Serve!HasId, Serve!Known,
           Serve!NoId, Serve!Null
  <2> HIDE DEF refusal
  <2>3. outputs' \in Seq(Serve!Line) /\ DOMAIN outputs' = {1} /\ outputs'[1] = refusal
        /\ Head(outputs') = refusal
    BY <1>3, <2>1 DEF refusal
  <2> QED
    BY <1>1, <1>2, <1>3, <2>1, <2>2, <2>3 DEF ServeIInv, LinesTyped, Serve!AnswersInOrder
<1>4. CASE /\ line # Serve!TooLarge
           /\ outputs' = Serve!Answers(line, effects, broken)
           /\ asked' = IF Requests(line) \/ (~Serve!Valid(line) /\ Serve!HasId(Serve!ToErrorResponse(line)))
                       THEN Append(asked, line.id) ELSE asked
           /\ REQ_ID' = REQ_ID +
                Serve!Cardinality({i \in DOMAIN outputs' : Serve!IsHostRequest(outputs'[i])})
  <2> HIDE DEF line
  <2>1. /\ outputs' \in Seq(Serve!Line)
        /\ \A i \in DOMAIN outputs' :
              Serve!Valid(outputs'[i]) /\ (Serve!IsAnswer(outputs'[i]) => i = 1)
    BY <1>1, <1>2, <1>4, AnswersPass
  <2>2. asked' = IF outputs' # <<>> /\ Serve!IsAnswer(Head(outputs'))
                 THEN Append(answered', Head(outputs').id) ELSE answered'
    BY <1>1, <1>2, <1>4, AnswersPass
  <2>3. REQ_ID' \in Nat
    <3>1. Serve!Cardinality({i \in DOMAIN outputs' : Serve!IsHostRequest(outputs'[i])}) \in Nat
      <4>1. Len(outputs') \in Nat /\ DOMAIN outputs' = 1 .. Len(outputs')
        BY <2>1
      <4> QED BY <4>1, Counted
    <3> QED BY <1>1, <1>4, <3>1
  <2>4. asked' \in Seq(Int)
    <3>1. line.id \in Int
      BY <1>2 DEF Serve!Line
    <3> QED BY <1>4, <3>1 DEF ServeIInv, LinesTyped
  <2> QED
    BY <1>1, <1>2, <2>1, <2>2, <2>3, <2>4 DEF ServeIInv, LinesTyped, Serve!AnswersInOrder
<1> QED
  BY <1>3, <1>4 DEF Serve!ServeLine, Requests

\* The extension writes a message.
LEMMA WriteMessageKeepsServeIInv ==
    ASSUME ServeIInv, Serve!WriteMessage
    PROVE  ServeIInv'
<1> DEFINE line == Head(outputs)
<1>1. /\ outputs # <<>> /\ outputs' = Tail(outputs) /\ stdout' = Append(stdout, line)
      /\ answered' = IF Serve!IsAnswer(line) THEN Append(answered, line.id) ELSE answered
      /\ UNCHANGED <<stdin, chunk, REQ_ID, asked, sent>>
      /\ outputs \in Seq(Serve!Line) /\ stdout \in Seq(Serve!Line) /\ answered \in Seq(Int)
  BY DEF Serve!WriteMessage, ServeIInv, LinesTyped
<1>2. line \in Serve!Line /\ Serve!Valid(line) /\ line.id \in Int
  <2>1. 1 \in DOMAIN outputs /\ line = outputs[1] /\ line \in Serve!Line
    BY <1>1
  <2>2. Serve!Valid(line)
    BY <2>1 DEF ServeIInv
  <2> HIDE DEF line
  <2>3. line.id \in Int
    BY <2>1 DEF Serve!Line
  <2> QED BY <2>1, <2>2, <2>3
<1>3. /\ outputs' \in Seq(Serve!Line)
      /\ \A i \in DOMAIN outputs' : i + 1 \in DOMAIN outputs /\ outputs'[i] = outputs[i + 1]
                                    /\ i \in Nat /\ i > 0
      /\ outputs' # <<>> => 1 \in DOMAIN outputs' /\ Head(outputs') = outputs'[1]
  BY <1>1
<1> HIDE DEF line
<1>4. /\ stdout' \in Seq(Serve!Line)
      /\ \A i \in DOMAIN stdout' : stdout'[i] = line \/ (i \in DOMAIN stdout /\ stdout'[i] = stdout[i])
  BY <1>1, <1>2
<1>5. \A i \in DOMAIN outputs' : Serve!Valid(outputs'[i]) /\ ~Serve!IsAnswer(outputs'[i])
  <2> TAKE i \in DOMAIN outputs'
  <2>1. i + 1 # 1
    BY <1>3
  <2> QED BY <1>3, <2>1 DEF ServeIInv, Serve!AnswersInOrder
<1>6. asked = answered'
  BY <1>1 DEF ServeIInv, Serve!AnswersInOrder, line
<1> QED
  BY <1>1, <1>2, <1>3, <1>4, <1>5, <1>6 DEF ServeIInv, LinesTyped, Said, Serve!AnswersInOrder

\* A line more in the standard output, or in the standard input.
LEMMA OneMoreLine ==
    ASSUME NEW lines \in Seq(Serve!Line), NEW line \in Serve!Line
    PROVE  /\ Append(lines, line) \in Seq(Serve!Line)
           /\ \A i \in DOMAIN Append(lines, line) :
                 \/ Append(lines, line)[i] = line
                 \/ i \in DOMAIN lines /\ Append(lines, line)[i] = lines[i]
  OBVIOUS

\* A line that was made wrong is a line.
LEMMA MalformedLine ==
    ASSUME NEW line \in Serve!Line
    PROVE  Serve!Malformed(line) \subseteq Serve!Line
<1>1. /\ [line EXCEPT !.top = "text"] \in Serve!Line /\ [line EXCEPT !.top = "array"] \in Serve!Line
      /\ [line EXCEPT !.jsonrpc = "none"] \in Serve!Line
      /\ [line EXCEPT !.method = "odd"] \in Serve!Line
  BY DEF Serve!Line
<1>2. /\ [line EXCEPT !.params = "odd"] \in Serve!Line /\ [line EXCEPT !.error = "odd"] \in Serve!Line
  BY DEF Serve!Line
<1>3. [line EXCEPT !.result = TRUE, !.error = "object"] \in Serve!Line
  BY DEF Serve!Line
<1>4. [line EXCEPT !.id = Serve!Odd] \in Serve!Line
  <2>1. Serve!Odd \in Int
    BY DEF Serve!Odd
  <2> QED BY <2>1 DEF Serve!Line
<1> QED
  BY <1>1, <1>2, <1>3, <1>4 DEF Serve!Malformed

\* The extension writes a line of its own.
LEMMA OwnLineKeepsServeIInv ==
    ASSUME ServeIInv,
           NEW line \in {Serve!ItemsChanged} \cup Serve!Malformed(Serve!HostRequest(1)),
           Serve!OwnLine(line)
    PROVE  ServeIInv'
<1>1. line \in Serve!Line /\ Said(line)
  BY WellMade, MalformedLine DEF Said, Serve!Odd
<1>2. /\ stdout' = Append(stdout, line)
      /\ UNCHANGED <<stdin, chunk, outputs, REQ_ID, asked, answered, sent>>
  BY DEF Serve!OwnLine
<1>3. /\ stdout' \in Seq(Serve!Line)
      /\ \A i \in DOMAIN stdout' : stdout'[i] = line \/ (i \in DOMAIN stdout /\ stdout'[i] = stdout[i])
  BY <1>1, <1>2, OneMoreLine DEF ServeIInv, LinesTyped
<1> QED
  BY <1>1, <1>2, <1>3 DEF ServeIInv, LinesTyped, Serve!AnswersInOrder

\* The host asks.
LEMMA HostWritesKeepsServeIInv ==
    ASSUME ServeIInv, sent < MaxRequests,
           NEW line \in {Serve!TooLarge} \cup Serve!Malformed(Serve!Request(sent + 1, "invoke", "fit")) \cup
                        {Serve!Request(sent + 1, m, p) : m \in Serve!Method, p \in {"fit", "unfit"}},
           Serve!HostWrites(line)
    PROVE  ServeIInv'
<1>1. sent \in Nat /\ sent + 1 \in 1 .. MaxRequests /\ sent + 1 \in Int \ {Serve!Odd}
  BY HostAssumption DEF ServeIInv, LinesTyped, Serve!Odd
<1>2. "invoke" \in Serve!Method
  BY DEF Serve!Method
<1>3. line \in Serve!Line
  BY <1>1, <1>2, WellMade, MalformedLine
<1>4. Told(line)
  BY <1>1, WellMade DEF Told
<1>5. stdin' = Append(stdin, line) /\ sent' = sent + 1
      /\ UNCHANGED <<chunk, outputs, REQ_ID, stdout, asked, answered>>
  BY DEF Serve!HostWrites
<1>6. /\ stdin' \in Seq(Serve!Line)
      /\ \A i \in DOMAIN stdin' : stdin'[i] = line \/ (i \in DOMAIN stdin /\ stdin'[i] = stdin[i])
  BY <1>3, <1>5, OneMoreLine DEF ServeIInv, LinesTyped
<1>7. LinesTyped'
  BY <1>1, <1>5, <1>6 DEF ServeIInv, LinesTyped
<1> QED
  BY <1>4, <1>5, <1>6, <1>7 DEF ServeIInv, Serve!AnswersInOrder

\* The host reads.
LEMMA HostReadsKeepsServeIInv ==
    ASSUME ServeIInv, NEW declares \in BOOLEAN, Serve!HostReads(declares)
    PROVE  ServeIInv'
<1> DEFINE line == Head(stdout)
<1>1. /\ stdout # <<>> /\ stdout' = Tail(stdout)
      /\ stdin' = IF ~Serve!Valid(line) THEN Append(stdin, Serve!ToErrorResponse(line))
                  ELSE IF ~Serve!IsHostRequest(line) THEN stdin
                  ELSE Append(stdin, IF declares THEN Serve!Result(line.id)
                                     ELSE Serve!ErrorResponse(line.id))
      /\ UNCHANGED <<chunk, outputs, REQ_ID, asked, answered, sent>>
      /\ stdin \in Seq(Serve!Line) /\ stdout \in Seq(Serve!Line)
  BY DEF Serve!HostReads, ServeIInv, LinesTyped
<1>2. /\ line \in Serve!Line
      /\ stdout' \in Seq(Serve!Line)
      /\ \A i \in DOMAIN stdout' : i + 1 \in DOMAIN stdout /\ stdout'[i] = stdout[i + 1]
  BY <1>1
<1> HIDE DEF line
<1>3. line.id \in Int
  BY <1>2 DEF Serve!Line
<1>4. /\ Serve!IsHostRequest(line) => line.id # Serve!Odd
      /\ Serve!Known(line) \in Int \ {Serve!Odd} /\ Serve!NoId \in Int \ {Serve!Odd}
  BY <1>3 DEF Serve!IsHostRequest, Serve!HasId, Serve!Known, Serve!NoId, Serve!Odd, Serve!Null
<1>5. \/ stdin' = stdin
      \/ \E answer \in Serve!Line : Serve!Valid(answer) /\ stdin' = Append(stdin, answer)
  <2>1. CASE ~Serve!Valid(line)
    BY <1>1, <1>2, <1>4, <2>1, RefusalId, WellMade
  <2>2. CASE Serve!Valid(line)
    BY <1>1, <1>3, <1>4, <2>2, WellMade
  <2> QED BY <2>1, <2>2
<1>6. stdin' \in Seq(Serve!Line) /\ \A i \in DOMAIN stdin' : Told(stdin'[i])
  <2>1. CASE stdin' = stdin
    BY <1>1, <2>1 DEF ServeIInv
  <2>2. CASE stdin' # stdin
    BY <1>1, <1>5, <2>2, OneMoreLine DEF ServeIInv, Told
  <2> QED BY <2>1, <2>2
<1> QED
  BY <1>1, <1>2, <1>6 DEF ServeIInv, LinesTyped, Serve!AnswersInOrder

\* Every step keeps the invariant of the serve loop.
LEMMA ServeNext ==
    ASSUME ServeIInv, Serve!Next \/ UNCHANGED serveVars
    PROVE  ServeIInv'
<1>1. CASE UNCHANGED serveVars
  BY <1>1 DEF serveVars, ServeIInv, LinesTyped, Serve!AnswersInOrder
<1>2. CASE Serve!Exit
  BY <1>2 DEF Serve!Exit, ServeIInv, LinesTyped, Serve!AnswersInOrder
<1>3. CASE Serve!Next
  BY <1>2, <1>3, ReadChunkKeepsServeIInv, ServeLineKeepsServeIInv, WriteMessageKeepsServeIInv,
     OwnLineKeepsServeIInv, HostWritesKeepsServeIInv, HostReadsKeepsServeIInv
  DEF Serve!Next
<1> QED BY <1>1, <1>3

\* The process answers every line that carries an id, once and in order, under
\* that id, for any number of requests, cut into reads at any place; and neither
\* end ever refuses what the other end made of its own, so no refusal calls
\* forth another (dd-ext lib.rs, envelope.rs, process.rs).
THEOREM AnswersStayAsked == HostSpec => []AnswersWhatWasAsked
<1> DEFINE I == part = "serve" => ServeIInv
<1>1. HostInit => I
  BY ServeInit DEF HostInit, ServeStart
<1>2. I /\ [HostNext]_hostVars => I'
  <2> SUFFICES ASSUME I, [HostNext]_hostVars PROVE I'
    OBVIOUS
  <2>1. part' = part /\ (part = "serve" => Serve!Next \/ UNCHANGED serveVars)
    BY DEF HostNext, hostVars
  <2> QED BY <2>1, ServeNext
<1>3. I => AnswersWhatWasAsked
  <2> SUFFICES ASSUME ServeIInv PROVE Serve!NoEcho /\ Serve!AnswersInOrder
    BY DEF AnswersWhatWasAsked
  <2>1. \A line \in Serve!ToSet(stdin) \cup Serve!ToSet(stdout) : Told(line)
    BY DEF ServeIInv, Told, Said, Serve!ToSet
  <2> QED BY <2>1 DEF ServeIInv, Serve!NoEcho, Told
<1> QED
  BY <1>1, <1>2, <1>3, PTL DEF HostSpec

-----------------------------------------------------------------------------
(* What a scan finds (ManifestScan).                                       *)

\* No id is twice among the extensions in S.
IdsDiffer(S) == \A x, y \in S : x.id = y.id => x = y

\* Of the manifests of a directory with one id, one wins.
LEMMA OneWinner ==
    ASSUME NEW d, NEW origin
    PROVE  IdsDiffer(Scan!ScanDir(d, origin).loaded)
<1> DEFINE won == {[id |-> d[f].id, origin |-> origin, file |-> f] :
                      f \in {g \in Scan!Files(d) : Scan!Wins(d, g)}}
<1>1. Scan!ScanDir(d, origin).loaded = won
  BY DEF Scan!ScanDir
<1>2. ASSUME NEW f \in Scan!Files(d), NEW g \in Scan!Files(d), Scan!Wins(d, f), Scan!Wins(d, g),
             d[f].id = d[g].id
      PROVE  f = g
  <2>1. f \in Int /\ g \in Int
    BY DEF Scan!Files
  <2>2. ~(f < g) /\ ~(g < f)
    BY <1>2 DEF Scan!Wins
  <2> QED BY <2>1, <2>2
<1> QED
  BY <1>1, <1>2 DEF IdsDiffer

\* A merge keeps one extension of every id, and all that come first.
LEMMA MergeKeepsIds ==
    ASSUME NEW A, NEW B, IdsDiffer(A), IdsDiffer(B)
    PROVE  /\ IdsDiffer(Scan!Merge(A, B)) /\ A \subseteq Scan!Merge(A, B)
           /\ Scan!Merge(A, B) \subseteq A \cup B
           /\ \A x \in A \cup B : \E y \in Scan!Merge(A, B) : y.id = x.id
           /\ \A x \in B \ Scan!Merge(A, B) : \E y \in A : y.id = x.id
           /\ \A x \in Scan!Merge(A, B) \ A : \A y \in A : y.id # x.id
<1> DEFINE both == A \cup {x \in B : \A y \in A : y.id # x.id}
<1>1. Scan!Merge(A, B) = both
  BY DEF Scan!Merge
<1>2. \A x, y \in both : x.id = y.id => x = y
  BY DEF IdsDiffer
<1>3. \A x \in A \cup B : \E y \in both : y.id = x.id
  OBVIOUS
<1> QED
  BY <1>1, <1>2, <1>3 DEF IdsDiffer

\* What a scan returns for its two directories.
Scanned(u, p) ==
    /\ scanExts = Scan!Sources(u, p).exts
    /\ skipped = Scan!Sources(u, p).skipped

\* A winner is loaded.
LEMMA WinnersLoaded ==
    ASSUME NEW d, NEW origin, NEW f \in Scan!Files(d), Scan!Wins(d, f)
    PROVE  \E x \in Scan!ScanDir(d, origin).loaded :
              x.id = d[f].id /\ x.origin = origin /\ x.file = f
<1> DEFINE x == [id |-> d[f].id, origin |-> origin, file |-> f]
<1>1. x \in Scan!ScanDir(d, origin).loaded
  BY DEF Scan!ScanDir
<1>2. x.id = d[f].id /\ x.origin = origin /\ x.file = f
  OBVIOUS
<1> HIDE DEF x
<1> QED BY <1>1, <1>2

\* A manifest that is not among the winners is reported, unless it is for
\* another platform.
LEMMA LosersReported ==
    ASSUME NEW d, NEW origin, NEW f \in Scan!Files(d), ~Scan!Wins(d, f),
           Scan!Verdict(d[f]) # "OtherPlatform"
    PROVE  \E s \in Scan!ScanDir(d, origin).skipped :
              s.origin = origin /\ s.file = f /\ Scan!IsError(s.reason)
<1> DEFINE why == IF Scan!Verdict(d[f]) = "Ok" THEN "DuplicateId" ELSE Scan!Verdict(d[f])
           s == [origin |-> origin, file |-> f, reason |-> why]
<1>1. s \in Scan!ScanDir(d, origin).skipped
  BY DEF Scan!ScanDir
<1>2. Scan!IsError(why)
  BY DEF Scan!IsError
<1> HIDE DEF why
<1>3. s.origin = origin /\ s.file = f /\ s.reason = why
  OBVIOUS
<1> HIDE DEF s
<1> QED BY <1>1, <1>2, <1>3

\* Nothing a scan found vanishes.
LEMMA ScanLosesNothing ==
    ASSUME Scanned(user, packaged)
    PROVE  Scan!NothingVanishes
<1> DEFINE U == Scan!ScanDir(user, "UserDir")
           P == Scan!ScanDir(packaged, "Sidecar")
           R == Scan!Registered
           M == Scan!Merge(U.loaded, P.loaded)
<1>1. /\ scanExts = Scan!Merge(R, M)
      /\ skipped = {s \in U.skipped \cup P.skipped : Scan!IsError(s.reason)}
  BY DEF Scanned, Scan!Sources
<1>2. IdsDiffer(U.loaded) /\ IdsDiffer(P.loaded)
  BY OneWinner
<1>3. /\ IdsDiffer(R) /\ \A x \in R : x.origin = "Builtin"
      /\ \A i \in BuiltinIds : \E x \in R : x.id = i
  <2>1. \A i \in BuiltinIds : [id |-> i, origin |-> "Builtin", file |-> 0] \in R
    BY DEF Scan!Registered
  <2>2. \A x \in R : \E i \in BuiltinIds : x = [id |-> i, origin |-> "Builtin", file |-> 0]
    BY DEF Scan!Registered
  <2> HIDE DEF R
  <2>3. \A x \in R : x.origin = "Builtin" /\ x = [id |-> x.id, origin |-> "Builtin", file |-> 0]
    BY <2>2
  <2>4. \A i \in BuiltinIds : \E x \in R : x.id = i
    BY <2>1
  <2>5. \A x, y \in R : x.id = y.id => x = y
    BY <2>3
  <2> QED BY <2>3, <2>4, <2>5 DEF IdsDiffer
<1>4. \A f \in Scan!Files(user) : Scan!Wins(user, f) =>
         \E x \in U.loaded : x.id = user[f].id /\ x.origin = "UserDir" /\ x.file = f
  BY WinnersLoaded
<1>5. \A f \in Scan!Files(packaged) : Scan!Wins(packaged, f) =>
         \E x \in P.loaded : x.id = packaged[f].id /\ x.origin = "Sidecar" /\ x.file = f
  BY WinnersLoaded
<1>6. \A f \in Scan!Files(user) : ~Scan!Wins(user, f) /\ Scan!Verdict(user[f]) # "OtherPlatform" =>
         \E s \in U.skipped : s.origin = "UserDir" /\ s.file = f /\ Scan!IsError(s.reason)
  BY LosersReported
<1>7. \A f \in Scan!Files(packaged) :
         ~Scan!Wins(packaged, f) /\ Scan!Verdict(packaged[f]) # "OtherPlatform" =>
         \E s \in P.skipped : s.origin = "Sidecar" /\ s.file = f /\ Scan!IsError(s.reason)
  BY LosersReported
<1> HIDE DEF U, P, R
<1>8. /\ IdsDiffer(M)
      /\ \A x \in U.loaded \cup P.loaded : \E y \in M : y.id = x.id
  BY <1>2, MergeKeepsIds
<1> HIDE DEF M
<1>9. /\ IdsDiffer(scanExts)
      /\ \A x \in R \cup M : \E y \in scanExts : y.id = x.id
      /\ \A x \in scanExts \ R : \A y \in R : y.id # x.id
  BY <1>1, <1>3, <1>8, MergeKeepsIds
<1>10. \A x \in U.loaded \cup P.loaded : Scan!IdListed(x.id)
  BY <1>8, <1>9 DEF Scan!IdListed
<1>11. \A f \in Scan!Files(user) :
          \/ Scan!Reported("UserDir", f) \/ Scan!Verdict(user[f]) = "OtherPlatform"
          \/ Scan!Verdict(user[f]) = "Ok" /\ Scan!IdListed(user[f].id)
  BY <1>1, <1>4, <1>6, <1>10 DEF Scan!Reported, Scan!Wins
<1>12. \A f \in Scan!Files(packaged) :
          \/ Scan!Reported("Sidecar", f) \/ Scan!Verdict(packaged[f]) = "OtherPlatform"
          \/ Scan!Verdict(packaged[f]) = "Ok" /\ Scan!IdListed(packaged[f].id)
  BY <1>1, <1>5, <1>7, <1>10 DEF Scan!Reported, Scan!Wins
<1>13. \A x \in scanExts : x.id \in BuiltinIds => x.origin = "Builtin"
  BY <1>3, <1>9
<1>14. \A x, y \in scanExts : x.id = y.id => x = y
  BY <1>9 DEF IdsDiffer
<1>15. \A k \in 1 .. 2 :
          LET d == <<user, packaged>>[k]
              origin == <<"UserDir", "Sidecar">>[k]
          IN  \A f \in Scan!Files(d) :
                  \/ Scan!Listed(origin, f) \/ Scan!Reported(origin, f)
                  \/ Scan!Verdict(d[f]) = "OtherPlatform"
                  \/ Scan!Verdict(d[f]) = "Ok" /\ Scan!IdListed(d[f].id)
  <2> SUFFICES ASSUME NEW k \in 1 .. 2
               PROVE  LET d == <<user, packaged>>[k]
                          origin == <<"UserDir", "Sidecar">>[k]
                      IN  \A f \in Scan!Files(d) :
                              \/ Scan!Listed(origin, f) \/ Scan!Reported(origin, f)
                              \/ Scan!Verdict(d[f]) = "OtherPlatform"
                              \/ Scan!Verdict(d[f]) = "Ok" /\ Scan!IdListed(d[f].id)
    OBVIOUS
  <2>1. CASE k = 1
    BY <2>1, <1>11
  <2>2. CASE k = 2
    BY <2>2, <1>12
  <2> QED BY <2>1, <2>2
<1> QED
  BY <1>13, <1>14, <1>15 DEF Scan!NothingVanishes

\* Every scan, and the first round, which finds nothing.
LEMMA ScanInit == Scan!Init => Scanned(user, packaged)
<1> SUFFICES ASSUME Scan!Init PROVE Scanned(user, packaged)
  OBVIOUS
<1>1. \A f \in 1 .. Slots : user[f] = Scan!NoFile
  BY DEF Scan!Init
<1>2. user # Scan!Unreadable => Scan!Files(user) = {}
  BY <1>1 DEF Scan!Files, Scan!Readable
<1>3. user = Scan!Unreadable => Scan!Files(user) = {}
  BY DEF Scan!Files, Scan!Readable
<1>4. /\ Scan!ScanDir(user, "UserDir").loaded = {} /\ Scan!ScanDir(user, "UserDir").skipped = {}
      /\ Scan!ScanDir(user, "Sidecar").loaded = {} /\ Scan!ScanDir(user, "Sidecar").skipped = {}
  BY <1>2, <1>3 DEF Scan!ScanDir
<1>5. packaged = user /\ scanExts = Scan!Registered /\ skipped = {}
  BY DEF Scan!Init
<1> QED
  BY <1>4, <1>5 DEF Scanned, Scan!Sources, Scan!Merge

LEMMA ScanNext ==
    ASSUME Scanned(user, packaged), Scan!Scan \/ UNCHANGED scanVars
    PROVE  Scanned(user, packaged)'
<1>1. CASE Scan!Scan
  BY <1>1 DEF Scan!Scan, Scanned
<1>2. CASE UNCHANGED scanVars
  BY <1>2 DEF scanVars, Scanned, Scan!Sources, Scan!ScanDir, Scan!Files, Scan!Wins, Scan!Readable
<1> QED BY <1>1, <1>2

-----------------------------------------------------------------------------
(* Numbers, and what a recursive function computes.                        *)

\* A set of numbers that is not empty has a least one.
LEMMA LeastNat ==
    ASSUME NEW T, T \subseteq Nat, T # {}
    PROVE  \E m \in T : \A n \in T : m <= n
<1> DEFINE R == OpToRel(<, Nat)
<1>1. IsWellFoundedOn(R, Nat)
  BY NatLessThanWellFounded
<1>2. \A m, n \in Nat : n < m => <<n, m>> \in R
  BY DEF OpToRel
<1> HIDE DEF R
<1>3. PICK m \in T : \A n \in T : ~(<<n, m>> \in R)
  BY <1>1, WFMin
<1>4. \A n \in T : ~(n < m)
  BY <1>2, <1>3
<1>5. m \in Nat /\ \A n \in T : n \in Nat
  OBVIOUS
<1> QED
  BY <1>4, <1>5

\* Induction: a set with 0 and every successor has all numbers.
LEMMA NatInd ==
    ASSUME NEW T, 0 \in T, \A n \in Nat : n \in T => n + 1 \in T
    PROVE  Nat \subseteq T
<1> SUFFICES ASSUME Nat \ T # {} PROVE FALSE
  OBVIOUS
<1>1. PICK m \in Nat \ T : \A n \in Nat \ T : m <= n
  BY LeastNat
<1>2. m # 0 /\ m - 1 \in Nat /\ m - 1 \notin Nat \ T
  BY <1>1
<1> QED BY <1>1, <1>2

\* f is computed step by step, up to end.
RunsBy(f, start, step1, end) ==
    f = [i \in 0 .. end |-> IF i = 0 THEN start ELSE step1[<<f[i - 1], i>>]]

\* What is computed element by element exists, and stays in the set the steps
\* stay in.
LEMMA Recursion ==
    ASSUME NEW D, NEW start \in D, NEW step1 \in [D \X Nat -> D], NEW end \in Nat
    PROVE  \E f \in [0 .. end -> D] : RunsBy(f, start, step1, end)
<1> DEFINE Runs(f, n) ==
             f = [i \in 0 .. n |-> IF i = 0 THEN start ELSE step1[<<f[i - 1], i>>]]
           T == {n \in Nat : \E f \in [0 .. n -> D] : Runs(f, n)}
<1>1. 0 \in T
  <2> DEFINE f == [i \in 0 .. 0 |-> start]
  <2>1. f \in [0 .. 0 -> D] /\ Runs(f, 0)
    OBVIOUS
  <2> QED BY <2>1
<1>2. ASSUME NEW n \in Nat, n \in T PROVE n + 1 \in T
  <2>1. PICK f \in [0 .. n -> D] : Runs(f, n)
    BY <1>2
  <2> DEFINE h == [i \in 0 .. n + 1 |-> IF i \in 0 .. n THEN f[i] ELSE step1[<<f[n], n + 1>>]]
  <2>2. h \in [0 .. n + 1 -> D]
    <3>1. f[n] \in D /\ <<f[n], n + 1>> \in D \X Nat
      OBVIOUS
    <3> QED BY <3>1
  <2>3. \A i \in 0 .. n + 1 : h[i] = IF i = 0 THEN start ELSE step1[<<h[i - 1], i>>]
    <3> SUFFICES ASSUME NEW i \in 0 .. n + 1
                 PROVE  h[i] = IF i = 0 THEN start ELSE step1[<<h[i - 1], i>>]
      OBVIOUS
    <3>1. CASE i \in 0 .. n
      <4>1. h[i] = f[i] /\ (i # 0 => h[i - 1] = f[i - 1])
        BY <3>1
      <4>2. f[i] = IF i = 0 THEN start ELSE step1[<<f[i - 1], i>>]
        BY <2>1, <3>1
      <4> HIDE DEF h
      <4> QED BY <4>1, <4>2
    <3>2. CASE i = n + 1
      <4>1. i # 0 /\ i - 1 = n /\ h[i - 1] = f[n] /\ h[i] = step1[<<f[n], i>>]
        BY <3>2
      <4> HIDE DEF h
      <4> QED BY <4>1
    <3> QED BY <3>1, <3>2
  <2> HIDE DEF h
  <2>4. Runs(h, n + 1)
    BY <2>2, <2>3
  <2> HIDE DEF Runs
  <2>5. \E f0 \in [0 .. n + 1 -> D] : Runs(f0, n + 1)
    BY <2>2, <2>4
  <2> QED BY <2>5
<1> HIDE DEF T
<1>3. end \in T
  BY <1>1, <1>2, NatInd
<1> QED
  BY <1>3 DEF T, RunsBy

-----------------------------------------------------------------------------
(* The frames of a connection (Framing).                                   *)

Bytes == Seq(Framing!Byte)
FrameSet == {Framing!TooLarge, Framing!InvalidUtf8} \cup Bytes
ScanState == [consumed : Nat, frames : Seq(FrameSet)]
NothingScanned == [consumed |-> 0, frames |-> <<>>]

\* One byte more in the loop of push.
ScanStep(s, d, n) ==
    IF s[n] # "lf" THEN d
    ELSE [consumed |-> n,
          frames |-> d.frames \o Framing!FrameOf(SubSeq(s, d.consumed + 1, n - 1))]

\* f is the loop over s: what is consumed is never ahead, and nothing happened
\* since the last line feed.
Loop(s, f) ==
    /\ f \in [0 .. Len(s) -> ScanState]
    /\ f[0] = NothingScanned
    /\ \A n \in 1 .. Len(s) : f[n] = ScanStep(s, f[n - 1], n)
    /\ \A n \in 0 .. Len(s) : f[n].consumed <= n /\ f[f[n].consumed] = f[n]

\* A part of a sequence of bytes.
LEMMA PartTyped ==
    ASSUME NEW s \in Bytes, NEW m \in Nat, NEW n \in Nat, m <= n, n <= Len(s)
    PROVE  /\ SubSeq(s, m + 1, n) \in Bytes /\ Len(SubSeq(s, m + 1, n)) = n - m
           /\ \A i \in 1 .. n - m : SubSeq(s, m + 1, n)[i] = s[m + i]
<1>1. m + 1 \in 1 .. Len(s) + 1 /\ n \in (m + 1) - 1 .. Len(s)
  BY DEF Bytes
<1>2. /\ SubSeq(s, m + 1, n) \in Seq(Framing!Byte)
      /\ Len(SubSeq(s, m + 1, n)) = n - (m + 1) + 1
      /\ \A i \in 1 .. n - (m + 1) + 1 : SubSeq(s, m + 1, n)[i] = s[(m + 1) + i - 1]
  BY <1>1, SubSeqProperties DEF Bytes
<1>3. n - (m + 1) + 1 = n - m /\ \A i \in 1 .. n - m : (m + 1) + i - 1 = m + i
  OBVIOUS
<1> QED BY <1>2, <1>3 DEF Bytes

\* The same part of two sequences, of which one is a part of the other.
LEMMA SamePart ==
    ASSUME NEW t \in Bytes, NEW u \in Bytes, NEW c \in Nat, c + Len(u) <= Len(t),
           \A i \in 1 .. Len(u) : u[i] = t[c + i],
           NEW k \in Nat, NEW j \in Nat, k <= j, j <= Len(u)
    PROVE  SubSeq(t, (c + k) + 1, c + j) = SubSeq(u, k + 1, j)
<1>1. Len(u) \in Nat /\ Len(t) \in Nat
  BY DEF Bytes
<1>2. c + k \in Nat /\ c + j \in Nat /\ c + k <= c + j /\ c + j <= Len(t) /\ (c + j) - (c + k) = j - k
  BY <1>1
<1> DEFINE x == SubSeq(t, (c + k) + 1, c + j)
           y == SubSeq(u, k + 1, j)
<1>3. x \in Bytes /\ Len(x) = j - k /\ \A i \in 1 .. j - k : x[i] = t[(c + k) + i]
  <2> DEFINE m == c + k
             n == c + j
  <2>1. m \in Nat /\ n \in Nat /\ m <= n /\ n <= Len(t) /\ n - m = j - k
    BY <1>2
  <2> HIDE DEF m, n
  <2>2. /\ SubSeq(t, m + 1, n) \in Bytes /\ Len(SubSeq(t, m + 1, n)) = n - m
        /\ \A i \in 1 .. n - m : SubSeq(t, m + 1, n)[i] = t[m + i]
    BY <2>1, PartTyped
  <2> QED BY <2>1, <2>2 DEF m, n
<1>4. y \in Bytes /\ Len(y) = j - k /\ \A i \in 1 .. j - k : y[i] = u[k + i]
  BY PartTyped
<1> HIDE DEF x, y
<1>5. \A i \in 1 .. j - k : x[i] = y[i]
  <2> SUFFICES ASSUME NEW i \in 1 .. j - k PROVE x[i] = y[i]
    OBVIOUS
  <2>1. k + i \in 1 .. Len(u) /\ (c + k) + i = c + (k + i)
    BY <1>1
  <2>2. u[k + i] = t[c + (k + i)]
    BY <2>1
  <2> QED BY <1>3, <1>4, <2>1, <2>2
<1>6. x = y
  BY <1>3, <1>4, <1>5 DEF Bytes
<1> QED BY <1>6 DEF x, y

\* A line gives frames.
LEMMA FrameOfTyped ==
    ASSUME NEW line \in Bytes
    PROVE  Framing!FrameOf(line) \in Seq(FrameSet)
<1> DEFINE text == IF line # <<>> /\ Framing!Last(line) = "cr" THEN Framing!Front(line) ELSE line
<1>1. text \in Bytes
  <2>1. CASE line = <<>>
    BY <2>1
  <2>2. CASE line # <<>>
    <3>1. Len(line) \in Nat /\ Len(line) - 1 \in Nat /\ Len(line) - 1 <= Len(line)
      BY <2>2 DEF Bytes
    <3> DEFINE z == 0
               n == Len(line) - 1
    <3>2. z \in Nat /\ n \in Nat /\ z <= n /\ n <= Len(line) /\ z + 1 = 1
      BY <3>1
    <3> HIDE DEF z, n
    <3>3. SubSeq(line, z + 1, n) \in Bytes
      BY <3>2, PartTyped
    <3>4. SubSeq(line, 1, n) \in Bytes
      BY <3>2, <3>3
    <3> QED BY <2>2, <3>4 DEF Framing!Front, n
  <2> QED BY <2>1, <2>2
<1>2. Framing!FrameOf(line) = CASE text = <<>> -> <<>>
      [] Len(text) > MaxBytes -> <<Framing!TooLarge>>
      [] Len(text) <= MaxBytes /\ "bad" \in Framing!ToSet(text) -> <<Framing!InvalidUtf8>>
      [] OTHER -> <<text>>
  BY DEF Framing!FrameOf
<1> HIDE DEF text
<1>3. Framing!FrameOf(line) \in {<<>>, <<Framing!TooLarge>>, <<Framing!InvalidUtf8>>, <<text>>}
  BY <1>2
<1>4. \A x \in FrameSet : <<x>> \in Seq(FrameSet)
  OBVIOUS
<1>5. <<>> \in Seq(FrameSet)
  OBVIOUS
<1>6. {Framing!TooLarge, Framing!InvalidUtf8, text} \subseteq FrameSet
  BY <1>1 DEF FrameSet
<1> QED BY <1>3, <1>4, <1>5, <1>6

\* One step of the loop.
LEMMA StepTyped ==
    ASSUME NEW s \in Bytes, NEW n \in 1 .. Len(s), NEW d \in ScanState, d.consumed < n
    PROVE  ScanStep(s, d, n) \in ScanState /\ ScanStep(s, d, n).consumed <= n
<1>1. d.consumed \in Nat /\ n - 1 \in Nat /\ d.consumed <= n - 1 /\ n - 1 <= Len(s) /\ n \in Nat
  BY DEF ScanState, Bytes
<1> DEFINE part1 == SubSeq(s, d.consumed + 1, n - 1)
           more == Framing!FrameOf(part1)
<1>2. part1 \in Bytes
  BY <1>1, PartTyped
<1> HIDE DEF part1
<1>3. more \in Seq(FrameSet) /\ d.frames \in Seq(FrameSet)
  BY <1>2, FrameOfTyped DEF ScanState
<1> HIDE DEF more
<1>4. d.frames \o more \in Seq(FrameSet)
  BY <1>3
<1>5. ScanStep(s, d, n) = IF s[n] # "lf" THEN d ELSE [consumed |-> n, frames |-> d.frames \o more]
  BY DEF ScanStep, more, part1
<1> QED BY <1>1, <1>4, <1>5 DEF ScanState

\* The loop of push over any bytes.
LEMMA LoopRuns ==
    ASSUME NEW s \in Bytes
    PROVE  \E f : Loop(s, f) /\ Framing!Scanned(s) = f[Len(s)]
<1> DEFINE Len0 == Len(s)
           Takes(d, n) == n \in 1 .. Len0 /\ d.consumed < n
           Go(d, n) == IF Takes(d, n) THEN ScanStep(s, d, n) ELSE d
           step1 == [x \in ScanState \X Nat |-> Go(x[1], x[2])]
           Runs(h) == h = [n \in 0 .. Len(s) |->
                             IF n = 0 THEN [consumed |-> 0, frames |-> <<>>]
                             ELSE IF s[n] # "lf" THEN h[n - 1]
                             ELSE [consumed |-> n,
                                   frames |-> h[n - 1].frames \o Framing!FrameOf(
                                       SubSeq(s, h[n - 1].consumed + 1, n - 1))]]
<1>1. Len0 \in Nat
  BY DEF Bytes
<1>2. NothingScanned \in ScanState
  <2>1. <<>> \in Seq(FrameSet)
    OBVIOUS
  <2> QED BY <2>1 DEF NothingScanned, ScanState
<1>3. ASSUME NEW d \in ScanState, NEW n \in Nat PROVE Go(d, n) \in ScanState
  BY <1>3, StepTyped
<1>4. step1 \in [ScanState \X Nat -> ScanState] /\ \A d \in ScanState, n \in Nat : step1[<<d, n>>] = Go(d, n)
  <2> HIDE DEF Go
  <2> QED BY <1>3
<1> HIDE DEF step1
<1>5. PICK f \in [0 .. Len0 -> ScanState] : RunsBy(f, NothingScanned, step1, Len0)
  <2> HIDE DEF Len0
  <2> QED BY <1>1, <1>2, <1>4, Recursion
<1>6. f[0] = NothingScanned /\ \A n \in 1 .. Len0 : f[n] = Go(f[n - 1], n)
  <2>1. f = [i \in 0 .. Len0 |-> IF i = 0 THEN NothingScanned ELSE step1[<<f[i - 1], i>>]]
    BY <1>5 DEF RunsBy
  <2>2. f[0] = NothingScanned
    BY <1>1, <2>1
  <2>3. ASSUME NEW n \in 1 .. Len0 PROVE f[n] = Go(f[n - 1], n)
    <3>1. n \in 0 .. Len0 /\ n # 0 /\ n - 1 \in 0 .. Len0 /\ n \in Nat
      BY <1>1
    <3>2. f[n] = step1[<<f[n - 1], n>>]
      BY <2>1, <3>1
    <3>3. f[n - 1] \in ScanState
      BY <1>5, <3>1
    <3> HIDE DEF Go
    <3> QED BY <1>4, <3>1, <3>2, <3>3
  <2> QED BY <2>2, <2>3
<1>7. \A k \in Nat : k \in 0 .. Len0 => f[k].consumed <= k /\ f[f[k].consumed] = f[k]
  <2> DEFINE T == {k \in Nat : k \in 0 .. Len0 => f[k].consumed <= k /\ f[f[k].consumed] = f[k]}
  <2>1. 0 \in T
    BY <1>6 DEF NothingScanned
  <2>2. ASSUME NEW k \in Nat, k \in T PROVE k + 1 \in T
    <3> SUFFICES ASSUME k + 1 \in 0 .. Len0
                 PROVE  f[k + 1].consumed <= k + 1 /\ f[f[k + 1].consumed] = f[k + 1]
      OBVIOUS
    <3>1. k \in 0 .. Len0 /\ k + 1 \in 1 .. Len0 /\ (k + 1) - 1 = k
      BY <1>1
    <3>2. f[k].consumed <= k /\ f[f[k].consumed] = f[k] /\ f[k] \in ScanState /\ f[k].consumed \in Nat
      BY <1>5, <2>2, <3>1 DEF ScanState
    <3>3. f[k + 1] = Go(f[k], k + 1)
      BY <1>6, <3>1
    <3>4. f[k + 1] = ScanStep(s, f[k], k + 1)
      BY <3>1, <3>2, <3>3
    <3>5. CASE s[k + 1] # "lf"
      BY <3>2, <3>4, <3>5 DEF ScanStep
    <3>6. CASE s[k + 1] = "lf"
      <4>1. f[k + 1].consumed = k + 1
        BY <3>4, <3>6 DEF ScanStep
      <4> QED BY <4>1
    <3> QED BY <3>5, <3>6
  <2> HIDE DEF T
  <2>3. Nat \subseteq T
    BY <2>1, <2>2, NatInd
  <2> QED BY <2>3 DEF T
<1>8. \A n \in 1 .. Len0 : f[n] = ScanStep(s, f[n - 1], n)
  <2> SUFFICES ASSUME NEW n \in 1 .. Len0 PROVE f[n] = ScanStep(s, f[n - 1], n)
    OBVIOUS
  <2>1. n - 1 \in Nat /\ n - 1 \in 0 .. Len0
    BY <1>1
  <2>2. f[n - 1].consumed <= n - 1 /\ f[n - 1] \in ScanState
    BY <1>5, <1>7, <2>1
  <2>3. f[n - 1].consumed \in Nat
    BY <2>2 DEF ScanState
  <2>4. f[n - 1].consumed < n
    BY <2>1, <2>2, <2>3
  <2>5. f[n] = Go(f[n - 1], n)
    BY <1>6
  <2> QED BY <2>4, <2>5
<1>9. Loop(s, f)
  <2>1. \A n \in 0 .. Len0 : n \in Nat
    BY <1>1
  <2> QED BY <1>5, <1>6, <1>7, <1>8, <2>1 DEF Loop
<1>10. Runs(f)
  <2>1. \A n \in 0 .. Len0 : n # 0 => n \in 1 .. Len0
    BY <1>1
  <2>2. \A n \in 0 .. Len0 : f[n] = IF n = 0 THEN [consumed |-> 0, frames |-> <<>>]
                             ELSE IF s[n] # "lf" THEN f[n - 1]
                             ELSE [consumed |-> n,
                                   frames |-> f[n - 1].frames \o Framing!FrameOf(
                                       SubSeq(s, f[n - 1].consumed + 1, n - 1))]
    BY <1>6, <1>8, <2>1 DEF ScanStep, NothingScanned
  <2> QED BY <1>5, <2>2
<1> DEFINE scan == CHOOSE h : Runs(h)
<1>11. Runs(scan)
  BY <1>10
<1>12. Framing!Scanned(s) = scan[Len(s)]
  BY DEF Framing!Scanned
<1> HIDE DEF scan
<1>13. \A k \in Nat : k \in 0 .. Len0 => scan[k] = f[k]
  <2> DEFINE T == {k \in Nat : k \in 0 .. Len0 => scan[k] = f[k]}
  <2>1. 0 \in T
    BY <1>1, <1>10, <1>11
  <2>2. ASSUME NEW k \in Nat, k \in T PROVE k + 1 \in T
    <3> SUFFICES ASSUME k + 1 \in 0 .. Len0 PROVE scan[k + 1] = f[k + 1]
      OBVIOUS
    <3>1. k \in 0 .. Len0 /\ (k + 1) - 1 = k /\ k + 1 # 0 /\ k + 1 \in 0 .. Len(s)
      BY <1>1
    <3>2. scan[k] = f[k]
      BY <2>2, <3>1
    <3>3. scan[k + 1] = IF s[k + 1] # "lf" THEN scan[k]
                        ELSE [consumed |-> k + 1,
                              frames |-> scan[k].frames \o Framing!FrameOf(
                                  SubSeq(s, scan[k].consumed + 1, (k + 1) - 1))]
      BY <1>11, <3>1
    <3>4. f[k + 1] = IF s[k + 1] # "lf" THEN f[k]
                        ELSE [consumed |-> k + 1,
                              frames |-> f[k].frames \o Framing!FrameOf(
                                  SubSeq(s, f[k].consumed + 1, (k + 1) - 1))]
      BY <1>10, <3>1
    <3> QED BY <3>2, <3>3, <3>4
  <2> HIDE DEF T
  <2>3. Nat \subseteq T
    BY <2>1, <2>2, NatInd
  <2> QED BY <2>3 DEF T
<1>14. scan[Len(s)] = f[Len(s)]
  BY <1>1, <1>13
<1> QED BY <1>9, <1>12, <1>14

\* u is t from its c-th byte on, as far as u goes.
PartOf(u, t, c) ==
    c \in Nat /\ c + Len(u) <= Len(t) /\ \A i \in 1 .. Len(u) : u[i] = t[c + i]

\* After c bytes ft goes on as fu from the beginning.
GoesOnAs(ft, fu, c, n) ==
    \A j \in Nat : j \in 0 .. n =>
        ft[c + j] = [consumed |-> c + fu[j].consumed, frames |-> ft[c].frames \o fu[j].frames]

\* Read on in t from where u begins, at the end of a line, and the loop does what
\* it does from the beginning of u.
LEMMA LoopFollows ==
    ASSUME NEW t \in Bytes, NEW u \in Bytes, NEW c, PartOf(u, t, c),
           NEW ft, Loop(t, ft), NEW fu, Loop(u, fu), ft[c].consumed = c
    PROVE  GoesOnAs(ft, fu, c, Len(u))
<1> DEFINE Same(j) == ft[c + j] = [consumed |-> c + fu[j].consumed,
                                   frames |-> ft[c].frames \o fu[j].frames]
           T == {j \in Nat : j \in 0 .. Len(u) => Same(j)}
           A == ft[c].frames
<1>1. Len(u) \in Nat /\ Len(t) \in Nat /\ c \in Nat /\ c + Len(u) <= Len(t)
  BY DEF Bytes, PartOf
<1>2. A \in Seq(FrameSet) /\ ft[c] = [consumed |-> c, frames |-> A]
  <2>1. ft[c] \in ScanState
    BY <1>1 DEF Loop
  <2> QED BY <2>1 DEF ScanState
<1> HIDE DEF A
<1>3. \A j \in 0 .. Len(u) : fu[j] \in ScanState /\ fu[j].consumed <= j
  BY DEF Loop
<1>4. 0 \in T
  <2>1. fu[0] = [consumed |-> 0, frames |-> <<>>]
    BY DEF Loop, NothingScanned
  <2>2. A \o <<>> = A
    BY <1>2
  <2>3. c + 0 = c /\ fu[0].consumed = 0 /\ fu[0].frames = <<>>
    BY <1>1, <2>1
  <2> QED BY <1>2, <2>2, <2>3 DEF A
<1>5. ASSUME NEW j \in Nat, j \in T PROVE j + 1 \in T
  <2> SUFFICES ASSUME j + 1 \in 0 .. Len(u) PROVE Same(j + 1)
    OBVIOUS
  <2>1. /\ j \in 0 .. Len(u) /\ j + 1 \in 1 .. Len(u) /\ (j + 1) - 1 = j
        /\ c + (j + 1) \in 1 .. Len(t) /\ (c + (j + 1)) - 1 = c + j
    BY <1>1
  <2> DEFINE k == fu[j].consumed
             B == fu[j].frames
  <2>2. k \in Nat /\ k <= j /\ B \in Seq(FrameSet)
    BY <1>3, <2>1 DEF ScanState
  <2>3. ft[c + j] = [consumed |-> c + k, frames |-> A \o B]
    BY <1>5, <2>1 DEF A
  <2>4. fu[j + 1] = ScanStep(u, fu[j], j + 1)
    BY <2>1 DEF Loop
  <2>5. ft[c + (j + 1)] = ScanStep(t, ft[c + j], c + (j + 1))
    BY <2>1 DEF Loop
  <2>6. t[c + (j + 1)] = u[j + 1]
    BY <2>1 DEF PartOf
  <2>7. CASE u[j + 1] # "lf"
    <3>1. fu[j + 1] = fu[j] /\ ft[c + (j + 1)] = ft[c + j]
      BY <2>4, <2>5, <2>6, <2>7 DEF ScanStep
    <3> QED BY <2>3, <3>1 DEF A
  <2>8. CASE u[j + 1] = "lf"
    <3> DEFINE x == SubSeq(u, k + 1, j)
               D == Framing!FrameOf(x)
    <3>1. SubSeq(t, (c + k) + 1, c + j) = x
      <4>1. j <= Len(u)
        BY <1>1, <2>1
      <4>2. \A i \in 1 .. Len(u) : u[i] = t[c + i]
        BY DEF PartOf
      <4>3. c \in Nat /\ c + Len(u) <= Len(t) /\ k \in Nat /\ k <= j
        BY <1>1, <2>2
      <4> HIDE DEF k
      <4>4. SubSeq(t, (c + k) + 1, c + j) = SubSeq(u, k + 1, j)
        BY <4>1, <4>2, <4>3, SamePart
      <4> QED BY <4>4
    <3>2. x \in Bytes
      <4>1. j <= Len(u)
        BY <1>1, <2>1
      <4> HIDE DEF k
      <4> QED BY <2>2, <4>1, PartTyped
    <3> HIDE DEF x
    <3>3. D \in Seq(FrameSet)
      BY <3>2, FrameOfTyped
    <3>4. fu[j + 1] = [consumed |-> j + 1, frames |-> B \o D]
      BY <2>1, <2>4, <2>8 DEF ScanStep, x
    <3>5. ft[c + (j + 1)] = [consumed |-> c + (j + 1), frames |-> (A \o B) \o D]
      <4> DEFINE n == c + (j + 1)
                 d == ft[c + j]
      <4>1. n - 1 = c + j /\ t[n] = "lf"
        BY <2>1, <2>6, <2>8
      <4>2. d.consumed = c + k /\ d.frames = A \o B
        BY <2>3
      <4>3. ft[n] = ScanStep(t, d, n)
        BY <2>5
      <4> HIDE DEF n, d, k, B
      <4>4. ft[n] = [consumed |-> n, frames |-> d.frames \o
                        Framing!FrameOf(SubSeq(t, d.consumed + 1, n - 1))]
        BY <4>1, <4>3 DEF ScanStep
      <4>5. ft[n] = [consumed |-> n, frames |-> (A \o B) \o D]
        BY <3>1, <4>1, <4>2, <4>4
      <4> QED BY <4>5 DEF n
    <3> HIDE DEF D, B
    <3>6. (A \o B) \o D = A \o (B \o D)
      BY <1>2, <2>2, <3>3
    <3> QED BY <3>4, <3>5, <3>6 DEF A
  <2> QED BY <2>7, <2>8
<1> HIDE DEF T
<1>6. Nat \subseteq T
  BY <1>4, <1>5, NatInd
<1> QED BY <1>6 DEF T, GoesOnAs

\* Bytes that come after bytes.
LEMMA BytesJoined ==
    ASSUME NEW s \in Bytes, NEW p \in Bytes
    PROVE  /\ s \o p \in Bytes /\ Len(s \o p) = Len(s) + Len(p)
           /\ \A i \in 1 .. Len(s) : (s \o p)[i] = s[i]
           /\ \A i \in 1 .. Len(p) : (s \o p)[Len(s) + i] = p[i]
<1> DEFINE t == s \o p
<1>1. t \in Seq(Framing!Byte) /\ Len(t) = Len(s) + Len(p) /\ Len(s) \in Nat /\ Len(p) \in Nat
  BY DEF Bytes
<1>2. \A i \in 1 .. Len(s) : t[i] = s[i]
  BY DEF Bytes
<1>3. \A i \in 1 .. Len(p) : t[Len(s) + i] = p[i]
  BY DEF Bytes
<1> QED BY <1>1, <1>2, <1>3 DEF Bytes, t

\* A piece that comes later gives the frames it gives with the rest of what came
\* before, and leaves the rest that it leaves.
LEMMA CutAnywhere ==
    ASSUME NEW s \in Bytes, NEW p \in Bytes
    PROVE  /\ Framing!Rest(s) \in Bytes /\ Framing!FramesOf(s) \in Seq(FrameSet)
           /\ Framing!FramesOf(s \o p) =
                 Framing!FramesOf(s) \o Framing!FramesOf(Framing!Rest(s) \o p)
           /\ Framing!Rest(s \o p) = Framing!Rest(Framing!Rest(s) \o p)
           /\ Framing!Rest(s \o p) \in Bytes /\ Framing!Rest(s) \o p \in Bytes
<1> DEFINE t == s \o p
           r == Framing!Rest(s)
           u == r \o p
<1>1. t \in Bytes /\ Len(t) = Len(s) + Len(p) /\ Len(s) \in Nat /\ Len(p) \in Nat
      /\ (\A i \in 1 .. Len(s) : t[i] = s[i]) /\ (\A i \in 1 .. Len(p) : t[Len(s) + i] = p[i])
  BY BytesJoined DEF Bytes
<1> HIDE DEF t
<1>2. PICK fs : Loop(s, fs) /\ Framing!Scanned(s) = fs[Len(s)]
  BY LoopRuns
<1>3. PICK ft : Loop(t, ft) /\ Framing!Scanned(t) = ft[Len(t)]
  BY <1>1, LoopRuns
<1> DEFINE c == fs[Len(s)].consumed
<1>4. /\ c \in Nat /\ c <= Len(s) /\ fs[c] = fs[Len(s)] /\ fs[c].consumed = c
      /\ fs[Len(s)] \in ScanState
  BY <1>1, <1>2 DEF Loop, ScanState
<1>5. \A j \in Nat : j \in 0 .. Len(s) => ft[j] = fs[j]
  <2> DEFINE z == 0
  <2>1. PartOf(s, t, z)
    BY <1>1 DEF PartOf
  <2>2. ft[z] = [consumed |-> 0, frames |-> <<>>] /\ ft[z].consumed = z /\ ft[z].frames = <<>>
    BY <1>3 DEF Loop, NothingScanned
  <2>3. z = 0
    OBVIOUS
  <2> HIDE DEF z
  <2>4. GoesOnAs(ft, fs, z, Len(s))
    BY <1>1, <1>2, <1>3, <2>1, <2>2, LoopFollows
  <2> SUFFICES ASSUME NEW j \in Nat, j \in 0 .. Len(s) PROVE ft[j] = fs[j]
    OBVIOUS
  <2>5. fs[j] \in ScanState
    BY <1>2 DEF Loop
  <2> DEFINE B == fs[j].frames
             k == fs[j].consumed
  <2>6. fs[j] = [consumed |-> k, frames |-> B] /\ k \in Nat /\ B \in Seq(FrameSet)
    BY <2>5 DEF ScanState
  <2>7. ft[z + j] = [consumed |-> z + k, frames |-> ft[z].frames \o B]
    BY <2>4 DEF GoesOnAs
  <2>9. z + j = j
    BY <2>3
  <2> HIDE DEF B, k
  <2>8. <<>> \o B = B
    BY <2>6
  <2> QED BY <2>2, <2>3, <2>6, <2>7, <2>8, <2>9
<1>6. ft[c] = fs[Len(s)] /\ ft[c].consumed = c
  BY <1>4, <1>5
<1>7. r \in Bytes /\ Len(r) = Len(s) - c /\ \A i \in 1 .. Len(s) - c : r[i] = s[c + i]
  <2> DEFINE n == Len(s)
  <2>1. c \in Nat /\ n \in Nat /\ c <= n /\ n <= Len(s)
    BY <1>1, <1>4
  <2>2. r = SubSeq(s, c + 1, n)
    BY <1>2 DEF Framing!Rest
  <2> HIDE DEF c, r
  <2> QED BY <2>1, <2>2, PartTyped DEF n
<1> HIDE DEF r
<1>8. u \in Bytes /\ Len(u) = Len(r) + Len(p)
      /\ (\A i \in 1 .. Len(r) : u[i] = r[i]) /\ (\A i \in 1 .. Len(p) : u[Len(r) + i] = p[i])
  BY <1>7, BytesJoined
<1> HIDE DEF u, c
<1>9. c + Len(u) = Len(t) /\ Len(u) \in Nat
  BY <1>1, <1>4, <1>7, <1>8
<1>10. \A i \in 1 .. Len(u) : u[i] = t[c + i]
  <2> SUFFICES ASSUME NEW i \in 1 .. Len(u) PROVE u[i] = t[c + i]
    OBVIOUS
  <2>1. CASE i <= Len(r)
    <3>1. i \in 1 .. Len(r) /\ i \in 1 .. Len(s) - c /\ c + i \in 1 .. Len(s)
      BY <1>1, <1>4, <1>7, <2>1
    <3> QED BY <1>1, <1>7, <1>8, <3>1
  <2>2. CASE i > Len(r)
    <3> DEFINE k == i - Len(r)
    <3>1. k \in 1 .. Len(p) /\ Len(r) + k = i /\ Len(s) + k = c + i
      BY <1>1, <1>4, <1>7, <1>8, <2>2
    <3> HIDE DEF k
    <3> QED BY <1>1, <1>8, <3>1
  <2> QED BY <1>1, <1>4, <1>7, <2>1, <2>2
<1>11. PICK fu : Loop(u, fu) /\ Framing!Scanned(u) = fu[Len(u)]
  BY <1>8, LoopRuns
<1>12. ft[c + Len(u)] = [consumed |-> c + fu[Len(u)].consumed,
                         frames |-> ft[c].frames \o fu[Len(u)].frames]
  <2>1. PartOf(u, t, c) /\ Len(u) \in 0 .. Len(u)
    BY <1>4, <1>9, <1>10 DEF PartOf
  <2>2. GoesOnAs(ft, fu, c, Len(u))
    BY <1>1, <1>3, <1>6, <1>8, <1>11, <2>1, LoopFollows
  <2> QED BY <1>9, <2>1, <2>2 DEF GoesOnAs
<1> DEFINE k == fu[Len(u)].consumed
           B == fu[Len(u)].frames
           A == ft[c].frames
<1>13. ft[Len(t)].consumed = c + k /\ ft[Len(t)].frames = A \o B
  <2>1. ft[Len(t)] = [consumed |-> c + k, frames |-> A \o B]
    BY <1>9, <1>12
  <2> HIDE DEF k, A, B
  <2> QED BY <2>1
<1>14. Framing!FramesOf(t) = Framing!FramesOf(s) \o Framing!FramesOf(u)
  BY <1>2, <1>3, <1>6, <1>11, <1>13 DEF Framing!FramesOf
<1> DEFINE j == Len(u)
<1>15. k \in Nat /\ k <= j /\ j <= Len(u) /\ j \in Nat
  BY <1>9, <1>11 DEF Loop, ScanState
<1>16. Framing!Rest(u) = SubSeq(u, k + 1, j)
  BY <1>11 DEF Framing!Rest
<1>17. Framing!Rest(t) = SubSeq(t, (c + k) + 1, c + j)
  BY <1>3, <1>9, <1>13 DEF Framing!Rest
<1> HIDE DEF k, j
<1>18. SubSeq(t, (c + k) + 1, c + j) = SubSeq(u, k + 1, j)
  <2>1. c + Len(u) <= Len(t)
    BY <1>9
  <2> QED BY <1>1, <1>4, <1>8, <1>10, <1>15, <2>1, SamePart
<1>19. SubSeq(u, k + 1, j) \in Bytes
  BY <1>8, <1>15, PartTyped
<1>20. Framing!FramesOf(s) \in Seq(FrameSet)
  BY <1>2, <1>4 DEF Framing!FramesOf, ScanState
<1> QED
  BY <1>7, <1>8, <1>14, <1>16, <1>17, <1>18, <1>19, <1>20 DEF t, r, u

\* What was seen of a connection: all, or what came up to the rest that was too
\* large.
Seen(n) ==
    LET seen == SubSeq(framingReceived, 1, n) IN
    /\ frames = Framing!FramesOf(seen) \o <<Framing!TooLarge>>
    /\ Len(Framing!Rest(seen)) > MaxBytes

\* The frames are those of what was received, and the buffer is its rest.
FramingIInv ==
    /\ framingReceived \in Bytes /\ poisoned \in BOOLEAN
    /\ ~poisoned => /\ frames = Framing!FramesOf(framingReceived)
                    /\ buf = Framing!Rest(framingReceived)
    /\ poisoned => \E n \in 0 .. Len(framingReceived) : Seen(n)

\* From the first byte, a part is a part of what is longer.
LEMMA FirstPart ==
    ASSUME NEW s \in Bytes, NEW p \in Bytes, NEW n \in 0 .. Len(s)
    PROVE  SubSeq(s \o p, 1, n) = SubSeq(s, 1, n) /\ SubSeq(s, 1, Len(s)) = s
<1> DEFINE t == s \o p
           z == 0
<1>1. /\ t \in Bytes /\ Len(s) \in Nat /\ Len(p) \in Nat /\ Len(t) = Len(s) + Len(p)
      /\ \A i \in 1 .. Len(s) : s[i] = t[i]
  BY BytesJoined DEF Bytes
<1> HIDE DEF t
<1>2. /\ z \in Nat /\ z + Len(s) <= Len(t) /\ (\A i \in 1 .. Len(s) : s[i] = t[z + i])
      /\ n \in Nat /\ z <= n /\ n <= Len(s) /\ (z + z) + 1 = 1 /\ z + 1 = 1 /\ z + n = n
  BY <1>1
<1> HIDE DEF z
<1>3. SubSeq(t, (z + z) + 1, z + n) = SubSeq(s, z + 1, n)
  BY <1>1, <1>2, SamePart
<1>4. SubSeq(t, 1, n) = SubSeq(s, 1, n)
  BY <1>2, <1>3
<1> DEFINE m == Len(s)
           y == SubSeq(s, z + 1, m)
<1>5. z \in Nat /\ m \in Nat /\ z <= m /\ m <= Len(s) /\ m - z = m
  BY <1>1 DEF z
<1>6. y \in Bytes /\ Len(y) = m - z /\ \A i \in 1 .. m - z : y[i] = s[z + i]
  <2> HIDE DEF m
  <2> QED BY <1>5, PartTyped
<1>7. \A i \in 1 .. m : z + i = i
  BY DEF z
<1> HIDE DEF y
<1>8. y = s
  BY <1>5, <1>6, <1>7 DEF Bytes
<1>9. y = SubSeq(s, 1, Len(s))
  BY <1>2 DEF y
<1> QED BY <1>4, <1>8, <1>9 DEF t

\* Nothing came, and nothing is left.
LEMMA NothingYet ==
    <<>> \in Bytes /\ Framing!FramesOf(<<>>) = <<>> /\ Framing!Rest(<<>>) = <<>>
<1> DEFINE s == <<>>
<1>1. s \in Bytes /\ Len(s) = 0
  BY DEF Bytes
<1>2. s = <<>>
  OBVIOUS
<1> HIDE DEF s
<1>3. PICK f : Loop(s, f) /\ Framing!Scanned(s) = f[Len(s)]
  BY <1>1, LoopRuns
<1>4. Framing!Scanned(s) = NothingScanned
  BY <1>1, <1>3 DEF Loop
<1>5. Framing!FramesOf(s) = <<>>
  BY <1>4 DEF Framing!FramesOf, NothingScanned
<1>6. Framing!Rest(s) = SubSeq(s, 1, Len(s))
  BY <1>4 DEF Framing!Rest, NothingScanned
<1>7. SubSeq(s, 1, Len(s)) = s
  <2>1. 0 \in 0 .. Len(s)
    BY <1>1
  <2> QED BY <1>1, <2>1, FirstPart
<1> QED BY <1>1, <1>2, <1>5, <1>6, <1>7

\* All of it is a part, and it gives frames.
LEMMA WholePart ==
    ASSUME NEW s \in Bytes
    PROVE  SubSeq(s, 1, Len(s)) = s /\ Framing!FramesOf(s) \in Seq(FrameSet)
<1> DEFINE n == Len(s)
           t == s \o s
<1>1. n \in 0 .. Len(s)
  BY DEF Bytes
<1> HIDE DEF n
<1>2. SubSeq(t, 1, n) = SubSeq(s, 1, n) /\ SubSeq(s, 1, Len(s)) = s
  BY <1>1, FirstPart
<1>3. /\ Framing!FramesOf(t) = Framing!FramesOf(s) \o Framing!FramesOf(Framing!Rest(s) \o s)
      /\ Framing!FramesOf(s) \in Seq(FrameSet)
  BY CutAnywhere
<1> QED BY <1>2, <1>3

LEMMA FramingInit == Framing!Init => FramingIInv
  BY NothingYet DEF Framing!Init, FramingIInv

\* A piece of one or two bytes.
LEMMA PieceTyped == Framing!Piece \subseteq Bytes
<1>1. \A n \in 1 .. 2 : [1 .. n -> Framing!Byte] \subseteq Seq(Framing!Byte)
  OBVIOUS
<1> QED BY <1>1 DEF Framing!Piece, Bytes

\* More bytes come.
LEMMA PushKeepsFramingIInv ==
    ASSUME FramingIInv, NEW p \in Bytes, Framing!Push(p)
    PROVE  FramingIInv'
<1> DEFINE s == framingReceived
           t == s \o p
<1>1. s \in Bytes /\ Len(s) \in Nat
  BY DEF FramingIInv, Bytes
<1>2. t \in Bytes /\ Len(t) = Len(s) + Len(p) /\ Len(p) \in Nat /\ Len(t) \in Nat
  BY <1>1, BytesJoined DEF Bytes
<1>3. framingReceived' = t
  BY DEF Framing!Push
<1>4. CASE poisoned
  <2>1. UNCHANGED <<buf, poisoned, frames>>
    BY <1>4 DEF Framing!Push
  <2>2. PICK n \in 0 .. Len(s) : Seen(n)
    BY <1>4 DEF FramingIInv
  <2>3. SubSeq(t, 1, n) = SubSeq(s, 1, n)
    BY <1>1, FirstPart
  <2>4. n \in 0 .. Len(t)
    BY <1>1, <1>2
  <2>5. frames = Framing!FramesOf(SubSeq(s, 1, n)) \o <<Framing!TooLarge>>
        /\ Len(Framing!Rest(SubSeq(s, 1, n))) > MaxBytes
    BY <2>2 DEF Seen
  <2> HIDE DEF t
  <2>6. Seen(n)'
    BY <1>3, <2>1, <2>3, <2>5 DEF Seen
  <2> QED BY <1>2, <1>3, <1>4, <2>1, <2>4, <2>6 DEF FramingIInv
<1>5. CASE ~poisoned
  <2> DEFINE all == buf \o p
             cut1 == Len(Framing!Rest(all)) > MaxBytes
  <2>1. frames = Framing!FramesOf(s) /\ buf = Framing!Rest(s)
    BY <1>5 DEF FramingIInv
  <2>2. /\ Framing!FramesOf(t) = Framing!FramesOf(s) \o Framing!FramesOf(all)
        /\ Framing!Rest(t) = Framing!Rest(all)
    BY <1>1, <2>1, CutAnywhere
  <2>3. /\ poisoned' = cut1
        /\ buf' = IF cut1 THEN <<>> ELSE Framing!Rest(all)
        /\ frames' = (frames \o Framing!FramesOf(all))
                        \o (IF cut1 THEN <<Framing!TooLarge>> ELSE <<>>)
    BY <1>5 DEF Framing!Push
  <2> HIDE DEF s, t, all
  <2>4. frames' = Framing!FramesOf(t) \o (IF cut1 THEN <<Framing!TooLarge>> ELSE <<>>)
    BY <2>1, <2>2, <2>3
  <2>5. Framing!FramesOf(t) \in Seq(FrameSet)
    BY <1>2, WholePart
  <2>6. CASE cut1
    <3>1. SubSeq(t, 1, Len(t)) = t /\ Len(t) \in 0 .. Len(t)
      BY <1>2, WholePart
    <3>2. frames' = Framing!FramesOf(t) \o <<Framing!TooLarge>> /\ Len(Framing!Rest(t)) > MaxBytes
      BY <2>2, <2>4, <2>6
    <3>3. PICK n \in 0 .. Len(t) : n = Len(t)
      BY <1>2
    <3>4. Seen(n)'
      BY <1>3, <3>1, <3>2, <3>3 DEF Seen
    <3>5. n \in 0 .. Len(framingReceived')
      BY <1>3
    <3>6. poisoned' = TRUE
      BY <2>3, <2>6
    <3> QED BY <1>2, <1>3, <3>4, <3>5, <3>6 DEF FramingIInv
  <2>7. CASE ~cut1
    <3> DEFINE X == Framing!FramesOf(t)
    <3>1. frames' = X \o <<>> /\ buf' = Framing!Rest(t)
      BY <2>2, <2>3, <2>4, <2>7
    <3>4. poisoned' = FALSE
      <4> HIDE DEF cut1
      <4> QED BY <2>3, <2>7
    <3>2. X \in Seq(FrameSet)
      BY <2>5
    <3> HIDE DEF X
    <3>3. frames' = X
      BY <3>1, <3>2
    <3> QED BY <1>2, <1>3, <3>1, <3>3, <3>4 DEF FramingIInv, X
  <2> QED BY <2>6, <2>7
<1> QED BY <1>4, <1>5

LEMMA FramingNext ==
    ASSUME FramingIInv, Framing!Next \/ UNCHANGED framingVars
    PROVE  FramingIInv'
<1>1. CASE UNCHANGED framingVars
  BY <1>1 DEF framingVars, FramingIInv, Seen
<1>2. CASE Framing!Reset
  <2>1. framingReceived' = <<>> /\ frames' = <<>> /\ buf' = <<>> /\ poisoned' = FALSE
    BY <1>2 DEF Framing!Reset
  <2> QED BY <2>1, NothingYet DEF FramingIInv
<1>3. CASE \E p \in Framing!Piece : Framing!Push(p)
  BY <1>3, PieceTyped, PushKeepsFramingIInv
<1> QED BY <1>1, <1>2, <1>3 DEF Framing!Next

LEMMA FramesStayTheLines ==
    ASSUME FramingIInv
    PROVE  Framing!FramesAreTheLines
<1> DEFINE s == framingReceived
           N == {m \in 0 .. Len(s) : poisoned \/ m = Len(s)}
<1>1. s \in Bytes /\ Len(s) \in Nat
  BY DEF FramingIInv, Bytes
<1>2. CASE poisoned
  <2>1. PICK n \in 0 .. Len(s) : Seen(n)
    BY <1>2 DEF FramingIInv
  <2>2. n \in N
    BY <1>2
  <2> QED BY <1>2, <2>1, <2>2 DEF Seen, Framing!FramesAreTheLines
<1>3. CASE ~poisoned
  <2>1. Len(s) \in N
    BY <1>1
  <2>2. SubSeq(s, 1, Len(s)) = s
    BY <1>1, WholePart
  <2>3. frames = Framing!FramesOf(s) /\ buf = Framing!Rest(s)
    BY <1>3 DEF FramingIInv
  <2> QED BY <1>3, <2>1, <2>2, <2>3 DEF Framing!FramesAreTheLines
<1> QED BY <1>2, <1>3

\* Every manifest a scan finds is loaded, reported, for another platform, or gave
\* way to a loaded extension of the same id, and no id is loaded twice, for any
\* directories and any flaws (manifest.rs, scan.rs); and the decoder returns the
\* frames of the lines that came, for every way to cut the bytes into pieces and
\* every limit (framing.rs).
THEOREM NothingEverVanishes == HostSpec => []NothingVanishes
<1> DEFINE I == (part = "scan" => Scanned(user, packaged)) /\ (part = "framing" => FramingIInv)
<1>1. HostInit => I
  BY ScanInit, FramingInit DEF HostInit, ScanStart, FramingStart
<1>2. I /\ [HostNext]_hostVars => I'
  <2> SUFFICES ASSUME I, [HostNext]_hostVars PROVE I'
    OBVIOUS
  <2>1. /\ part' = part
        /\ part = "scan" => Scan!Scan \/ UNCHANGED scanVars
        /\ part = "framing" => Framing!Next \/ UNCHANGED framingVars
    BY DEF HostNext, hostVars
  <2> QED BY <2>1, ScanNext, FramingNext
<1>3. I => NothingVanishes
  BY ScanLosesNothing, FramesStayTheLines DEF NothingVanishes
<1> QED
  BY <1>1, <1>2, <1>3, PTL DEF HostSpec

-----------------------------------------------------------------------------
(* The types of the parts.                                                 *)

\* What is left to say of the types of the environments.
EnvTypes ==
    /\ declared \in [Ext -> SUBSET Env!Key] /\ dirty \in BOOLEAN /\ settings \in Choices
    /\ arrived \subseteq Ext /\ stubbed \subseteq FirstParty

LEMMA EnvTypesInit == Env!Init => EnvTypes
<1> SUFFICES ASSUME Env!Init PROVE EnvTypes
  OBVIOUS
<1>1. declared \in [Ext -> SUBSET Env!Key]
  BY HostAssumption DEF Env!Init, Env!Key, Env!Variable
<1>2. arrived \subseteq Ext /\ stubbed \subseteq FirstParty /\ dirty \in BOOLEAN /\ settings \in Choices
  BY DEF Env!Init
<1> QED BY <1>1, <1>2 DEF EnvTypes

\* Every step keeps the types.
LEMMA EnvTypesNext ==
    ASSUME EnvTypes, EnvIInv, Env!Next \/ UNCHANGED envVars
    PROVE  EnvTypes'
<1>1. CASE UNCHANGED envVars
  BY <1>1 DEF envVars, EnvTypes
<1>2. CASE Env!Change
  BY <1>2 DEF Env!Change, EnvTypes
<1>3. CASE Env!SettingsLeft \/ Env!Retry
  BY <1>3 DEF Env!SettingsLeft, Env!Retry, Env!Restart, EnvTypes
<1>4. ASSUME NEW r \in 1 .. newest,
             Env!SetLang(r) \/ Env!Inject(r) \/ Env!Meta(r) \/ Env!Done(r)
      PROVE  EnvTypes'
  <2>1. arrived' \in {arrived, {}} /\ UNCHANGED <<declared, settings, dirty, stubbed>>
    BY <1>4 DEF Env!SetLang, Env!Inject, Env!Meta, Env!Done
  <2> QED BY <2>1 DEF EnvTypes
<1>5. ASSUME NEW r \in 1 .. newest, NEW e \in Ext, Env!Collect(r, e) PROVE EnvTypes'
  <2>1. UNCHANGED <<declared, settings, dirty>> /\ arrived' \in {arrived, arrived \cup {e}}
    BY <1>5 DEF Env!Collect, Env!ArriveStub, Env!Arrive
  <2>2. stubbed' \in {stubbed, stubbed \cup ({e} \cap FirstParty)}
    BY <1>5 DEF Env!Collect
  <2> QED BY <2>1, <2>2 DEF EnvTypes
<1>6. CASE \/ \E e \in Ext : Env!Reheat(e)
           \/ \E c \in Client : Env!Take(c) \/ Env!GiveBack(c) \/ Env!Lose(c)
           \/ Env!Evict
  <2>1. UNCHANGED <<declared, settings, dirty, arrived, stubbed>>
    BY <1>6 DEF Env!Reheat, Env!Take, Env!GiveBack, Env!Lose, Env!Evict
  <2> QED BY <2>1 DEF EnvTypes
<1> QED
  BY <1>1, <1>2, <1>3, <1>4, <1>5, <1>6 DEF Env!Next

LEMMA EnvTyped ==
    ASSUME EnvTypes, EnvIInv
    PROVE  Env!TypeOK
  BY DEF EnvTypes, EnvIInv, RoundsOK, PoolOK, Begun, Env!TypeOK

-----------------------------------------------------------------------------
\* What was returned is typed.
LEMMA InprocTyped ==
    ASSUME InprocIInv
    PROVE  Inproc!TypeOK
<1>1. MaxCalls \in Nat /\ calls \in 0 .. MaxCalls /\ calls \in Nat
  BY HostAssumption DEF InprocIInv, InprocTypes
<1>2. \A o \in Object : /\ Inproc!ToSet(o.host_requests) \subseteq Inproc!Asked
                        /\ Len(o.host_requests) <= RequestsCap
                        /\ Inproc!ToSet(o.notifications) \subseteq Inproc!Asked
                        /\ Len(o.notifications) <= BusCap
  BY DEF Object, Inproc!ToSet
<1>3. slot = <<>> \/ \E o \in Object : slot = <<o>>
  BY DEF InprocIInv, InprocTypes
<1>4. \A o \in Inproc!ToSet(slot) : o \in Object
  BY <1>3 DEF Inproc!ToSet
<1>5. \A t \in threads : t.call \in Inproc!Call /\ t.object \in Object
  BY <1>1 DEF InprocIInv, InprocTypes, Inproc!Call
<1>6. waiting \in Inproc!Call \cup {Inproc!Nobody}
  BY <1>1 DEF InprocIInv, InprocTypes, Inproc!Call, Inproc!Nobody
<1>7. Inproc!ToSet(ran) \cup Inproc!ToSet(inprocReported) \subseteq Inproc!Asked
  BY DEF InprocIInv, InprocTypes, Inproc!ToSet
<1>8. slot # <<>> => state = "open" /\ waiting = Inproc!Nobody
  BY DEF InprocIInv
<1> QED
  BY <1>1, <1>2, <1>4, <1>5, <1>6, <1>7, <1>8 DEF InprocIInv, InprocTypes, Inproc!TypeOK

\* A scan finds extensions and skips.
ScanTypes == user \in Scan!Directory /\ packaged \in Scan!Directory

LEMMA ScanTyped ==
    ASSUME ScanTypes, Scanned(user, packaged)
    PROVE  Scan!TypeOK
<1>1. ASSUME NEW d \in Scan!Directory, NEW f \in Scan!Files(d)
      PROVE  d[f] \in Scan!Document /\ f \in 1 .. Slots
  <2>1. f \in 1 .. Slots /\ Scan!Readable(d)[f] # Scan!NoFile
    BY DEF Scan!Files
  <2>2. d # Scan!Unreadable
    BY <2>1 DEF Scan!Readable
  <2> QED BY <2>1, <2>2 DEF Scan!Readable, Scan!Directory
<1>2. \A m \in Scan!Document :
         Scan!Verdict(m) \in {Scan!RuleOrder[i] : i \in 1 .. Len(Scan!RuleOrder)} \cup {"Ok"}
  <2> SUFFICES ASSUME NEW m \in Scan!Document
               PROVE  Scan!Verdict(m) \in {Scan!RuleOrder[i] : i \in 1 .. Len(Scan!RuleOrder)} \cup {"Ok"}
    OBVIOUS
  <2> DEFINE failed == {i \in 1 .. Len(Scan!RuleOrder) : Scan!RuleOrder[i] \in m.flaws}
             first == CHOOSE i \in failed : \A j \in failed : i <= j
  <2>1. Scan!Verdict(m) = IF failed = {} THEN "Ok" ELSE Scan!RuleOrder[first]
    BY DEF Scan!Verdict
  <2>2. failed \subseteq Nat
    OBVIOUS
  <2>3. failed # {} => first \in failed
    <3> HIDE DEF failed
    <3> QED BY <2>2, LeastNat
  <2>4. failed \subseteq 1 .. Len(Scan!RuleOrder)
    OBVIOUS
  <2> HIDE DEF failed, first
  <2> QED BY <2>1, <2>3, <2>4
<1>3. ASSUME NEW d \in Scan!Directory, NEW origin \in {"UserDir", "Sidecar"}
      PROVE  /\ Scan!ScanDir(d, origin).loaded \subseteq Scan!Found
             /\ Scan!ScanDir(d, origin).skipped \subseteq Scan!Skip
  <2>1. ASSUME NEW f \in Scan!Files(d), Scan!Wins(d, f)
        PROVE  [id |-> d[f].id, origin |-> origin, file |-> f] \in Scan!Found
    BY <1>1 DEF Scan!Found, Scan!Document
  <2>2. ASSUME NEW f \in Scan!Files(d), ~Scan!Wins(d, f)
        PROVE  [origin |-> origin, file |-> f,
                reason |-> IF Scan!Verdict(d[f]) = "Ok" THEN "DuplicateId"
                           ELSE Scan!Verdict(d[f])] \in Scan!Skip
    BY <1>1, <1>2 DEF Scan!Skip
  <2> QED BY <2>1, <2>2 DEF Scan!ScanDir
<1>4. Scan!Registered \subseteq Scan!Found
  <2>1. 0 \in 0 .. Slots
    BY HostAssumption
  <2> QED BY <2>1 DEF Scan!Registered, Scan!Found
<1> DEFINE U == Scan!ScanDir(user, "UserDir")
           P == Scan!ScanDir(packaged, "Sidecar")
<1>5. U.loaded \subseteq Scan!Found /\ U.skipped \subseteq Scan!Skip
      /\ P.loaded \subseteq Scan!Found /\ P.skipped \subseteq Scan!Skip
  BY <1>3 DEF ScanTypes
<1>6. /\ scanExts = Scan!Merge(Scan!Registered, Scan!Merge(U.loaded, P.loaded))
      /\ skipped = {s \in U.skipped \cup P.skipped : Scan!IsError(s.reason)}
  BY DEF Scanned, Scan!Sources
<1> HIDE DEF U, P
<1>7. scanExts \subseteq Scan!Found /\ skipped \subseteq Scan!Skip
  BY <1>4, <1>5, <1>6 DEF Scan!Merge
<1> QED BY <1>7 DEF ScanTypes, Scan!TypeOK

\* What becomes of the directories.
LEMMA ScanTypesNext ==
    /\ Scan!Init => ScanTypes
    /\ ScanTypes /\ (Scan!Scan \/ UNCHANGED scanVars) => ScanTypes'
<1>1. Scan!Init => ScanTypes
  BY DEF Scan!Init, ScanTypes, Scan!Directory
<1>2. ASSUME NEW d \in Scan!Directory PROVE Scan!Edited(d) \subseteq Scan!Directory
  <2>1. Scan!Readable(d) \in [1 .. Slots -> Scan!Document \cup {Scan!NoFile}]
    BY DEF Scan!Readable, Scan!Directory
  <2> DEFINE h == Scan!Readable(d)
  <2> HIDE DEF h
  <2>2. \A f \in 1 .. Slots, m \in Scan!Document \cup {Scan!NoFile} :
           [h EXCEPT ![f] = m] \in [1 .. Slots -> Scan!Document \cup {Scan!NoFile}]
    BY <2>1 DEF h
  <2> DEFINE Edits == {[h EXCEPT ![f] = m] : f \in 1 .. Slots, m \in Scan!Document \cup {Scan!NoFile}}
  <2>3. Scan!Edited(d) = Edits \cup {Scan!Unreadable}
    BY DEF Scan!Edited, h
  <2>4. ASSUME NEW x \in Edits PROVE x \in [1 .. Slots -> Scan!Document \cup {Scan!NoFile}]
    <3>1. PICK f \in 1 .. Slots, m \in Scan!Document \cup {Scan!NoFile} : x = [h EXCEPT ![f] = m]
      OBVIOUS
    <3> QED BY <2>2, <3>1
  <2> HIDE DEF Edits
  <2> QED BY <2>3, <2>4 DEF Scan!Directory
<1>3. ScanTypes /\ Scan!Scan => ScanTypes'
  BY <1>2 DEF Scan!Scan, ScanTypes
<1>4. ScanTypes /\ UNCHANGED scanVars => ScanTypes'
  BY DEF scanVars, ScanTypes
<1> QED BY <1>1, <1>3, <1>4

-----------------------------------------------------------------------------
\* What the decoder may return: a text is not empty, within the limit, valid
\* UTF-8, and holds no line feed.
ExactFrames ==
    {Framing!TooLarge, Framing!InvalidUtf8}
        \cup UNION {[1 .. n -> {"a", "cr"}] : n \in 1 .. MaxBytes}

\* A line without a line feed gives such frames.
LEMMA FrameOfExact ==
    ASSUME NEW line \in Bytes, \A i \in 1 .. Len(line) : line[i] # "lf"
    PROVE  Framing!FrameOf(line) \in Seq(ExactFrames)
<1> DEFINE text == IF line # <<>> /\ Framing!Last(line) = "cr" THEN Framing!Front(line) ELSE line
<1>1. text \in Bytes /\ \A i \in 1 .. Len(text) : text[i] # "lf"
  <2>1. CASE line = <<>> \/ Framing!Last(line) # "cr"
    BY <2>1
  <2>2. CASE line # <<>> /\ Framing!Last(line) = "cr"
    <3> DEFINE z == 0
               n == Len(line) - 1
               y == SubSeq(line, z + 1, n)
    <3>1. Len(line) \in Nat /\ Len(line) # 0
      BY <2>2 DEF Bytes
    <3>2. z \in Nat /\ n \in Nat /\ z <= n /\ n <= Len(line) /\ z + 1 = 1 /\ n - z = n
      BY <3>1
    <3>3. \A i \in 1 .. n : z + i = i /\ i \in 1 .. Len(line)
      BY <3>1
    <3> HIDE DEF z, n
    <3>4. y \in Bytes /\ Len(y) = n - z /\ \A i \in 1 .. n - z : y[i] = line[z + i]
      BY <3>2, PartTyped
    <3>5. text = y
      BY <2>2, <3>2 DEF Framing!Front, n
    <3> HIDE DEF y, text
    <3>6. y \in Bytes /\ \A i \in 1 .. Len(y) : y[i] # "lf"
      BY <3>2, <3>3, <3>4
    <3> QED BY <3>5, <3>6
  <2> QED BY <2>1, <2>2
<1>2. Framing!FrameOf(line) = CASE text = <<>> -> <<>>
      [] Len(text) > MaxBytes -> <<Framing!TooLarge>>
      [] Len(text) <= MaxBytes /\ "bad" \in Framing!ToSet(text) -> <<Framing!InvalidUtf8>>
      [] OTHER -> <<text>>
  BY DEF Framing!FrameOf
<1> HIDE DEF text
<1>3. Len(text) \in Nat /\ MaxBytes \in Nat /\ (text # <<>> => Len(text) # 0)
  BY <1>1, HostAssumption DEF Bytes
<1>4. CASE text # <<>> /\ Len(text) <= MaxBytes /\ "bad" \notin Framing!ToSet(text)
  <2> DEFINE n == Len(text)
  <2>1. n \in 1 .. MaxBytes
    BY <1>3, <1>4
  <2>2. text \in [1 .. n -> Framing!Byte] /\ \A i \in 1 .. n : text[i] # "bad"
    BY <1>1, <1>4 DEF Bytes, Framing!ToSet
  <2>3. \A i \in 1 .. n : text[i] \in {"a", "cr"}
    BY <1>1, <2>2 DEF Framing!Byte
  <2> HIDE DEF n
  <2>4. text \in [1 .. n -> {"a", "cr"}]
    BY <2>2, <2>3
  <2>5. text \in ExactFrames
    BY <2>1, <2>4 DEF ExactFrames
  <2>6. Framing!FrameOf(line) = <<text>>
    BY <1>2, <1>3, <1>4
  <2> QED BY <2>5, <2>6
<1>5. CASE ~(text # <<>> /\ Len(text) <= MaxBytes /\ "bad" \notin Framing!ToSet(text))
  <2>1. Framing!FrameOf(line) \in {<<>>, <<Framing!TooLarge>>, <<Framing!InvalidUtf8>>}
    BY <1>2, <1>3, <1>5
  <2>2. <<>> \in Seq(ExactFrames)
    OBVIOUS
  <2>3. \A x \in ExactFrames : <<x>> \in Seq(ExactFrames)
    OBVIOUS
  <2>4. Framing!TooLarge \in ExactFrames /\ Framing!InvalidUtf8 \in ExactFrames
    BY DEF ExactFrames
  <2> QED BY <2>1, <2>2, <2>3, <2>4
<1> QED BY <1>4, <1>5

\* Nor do any others come out of any bytes, and what is left over is a part.
LEMMA FramesExact ==
    ASSUME NEW s \in Bytes
    PROVE  Framing!FramesOf(s) \in Seq(ExactFrames) /\ Framing!Rest(s) \in Bytes
<1>1. PICK f : Loop(s, f) /\ Framing!Scanned(s) = f[Len(s)]
  BY LoopRuns
<1>2. Len(s) \in Nat
  BY DEF Bytes
<1>3. \A k \in 0 .. Len(s) : k \in Nat /\ f[k] \in ScanState /\ f[k].consumed <= k /\ f[k].consumed \in Nat
  BY <1>1, <1>2 DEF Loop, ScanState
<1> DEFINE Good(k) == /\ f[k].frames \in Seq(ExactFrames)
                      /\ \A i \in Nat : f[k].consumed < i /\ i <= k => s[i] # "lf"
           T == {k \in Nat : k \in 0 .. Len(s) => Good(k)}
<1>4. 0 \in T
  <2>1. f[0].consumed = 0 /\ f[0].frames = <<>>
    BY <1>1 DEF Loop, NothingScanned
  <2>2. <<>> \in Seq(ExactFrames)
    OBVIOUS
  <2>3. Good(0)
    BY <2>1, <2>2
  <2> QED BY <2>3
<1>5. ASSUME NEW k \in Nat, k \in T PROVE k + 1 \in T
  <2> SUFFICES ASSUME k + 1 \in 0 .. Len(s) PROVE Good(k + 1)
    OBVIOUS
  <2>1. k \in 0 .. Len(s) /\ k + 1 \in 1 .. Len(s) /\ (k + 1) - 1 = k /\ k <= Len(s)
    BY <1>2
  <2>2. Good(k)
    BY <1>5, <2>1
  <2>3. f[k + 1] = ScanStep(s, f[k], k + 1)
    BY <1>1, <2>1 DEF Loop
  <2> DEFINE c == f[k].consumed
  <2>4. c \in Nat /\ c <= k
    BY <1>3, <2>1
  <2>5. CASE s[k + 1] # "lf"
    <3>1. f[k + 1] = f[k]
      BY <2>3, <2>5 DEF ScanStep
    <3>2. \A i \in Nat : i <= k + 1 => i <= k \/ i = k + 1
      OBVIOUS
    <3> QED BY <2>2, <2>5, <3>1, <3>2
  <2>6. CASE s[k + 1] = "lf"
    <3> DEFINE y == SubSeq(s, c + 1, k)
               more == Framing!FrameOf(y)
               old == f[k].frames
    <3>1. f[k + 1] = [consumed |-> k + 1, frames |-> old \o more]
      BY <2>1, <2>3, <2>6 DEF ScanStep
    <3> HIDE DEF c
    <3>2. y \in Bytes /\ Len(y) = k - c /\ \A i \in 1 .. k - c : y[i] = s[c + i]
      BY <2>1, <2>4, PartTyped
    <3>3. \A i \in 1 .. k - c : s[c + i] # "lf"
      <4> SUFFICES ASSUME NEW i \in 1 .. k - c PROVE s[c + i] # "lf"
        OBVIOUS
      <4>1. c + i \in Nat /\ c < c + i /\ c + i <= k
        BY <2>4
      <4> QED BY <2>2, <4>1 DEF c
    <3> HIDE DEF y
    <3>4. more \in Seq(ExactFrames)
      BY <3>2, <3>3, FrameOfExact
    <3>5. old \in Seq(ExactFrames)
      BY <2>2
    <3> HIDE DEF more, old
    <3>6. old \o more \in Seq(ExactFrames)
      BY <3>4, <3>5
    <3>7. f[k + 1].frames = old \o more /\ f[k + 1].consumed = k + 1
      BY <3>1
    <3>8. \A i \in Nat : ~(k + 1 < i /\ i <= k + 1)
      OBVIOUS
    <3> QED BY <3>6, <3>7, <3>8
  <2> QED BY <2>5, <2>6
<1> HIDE DEF T
<1>6. Nat \subseteq T
  BY <1>4, <1>5, NatInd
<1>7. Good(Len(s))
  BY <1>2, <1>6 DEF T
<1>8. Framing!FramesOf(s) \in Seq(ExactFrames)
  BY <1>1, <1>7 DEF Framing!FramesOf
<1> DEFINE c == f[Len(s)].consumed
           n == Len(s)
<1>9. c \in Nat /\ n \in Nat /\ c <= n /\ n <= Len(s)
  BY <1>2, <1>3
<1>10. SubSeq(s, c + 1, n) \in Bytes
  <2> HIDE DEF c, n
  <2> QED BY <1>9, PartTyped
<1> QED BY <1>1, <1>8, <1>10 DEF Framing!Rest

\* What is left to say of the types of the decoder.
FramingTypes ==
    buf \in Bytes /\ Len(buf) <= MaxBytes /\ Len(framingReceived) <= Stream

LEMMA FramingTypesInit == Framing!Init => FramingTypes
<1>1. <<>> \in Bytes /\ Len(<<>>) = 0 /\ MaxBytes \in Nat /\ Stream \in Nat
  BY NothingYet, HostAssumption
<1> QED BY <1>1 DEF Framing!Init, FramingTypes

LEMMA FramingTypesNext ==
    ASSUME FramingTypes, FramingIInv, Framing!Next \/ UNCHANGED framingVars
    PROVE  FramingTypes'
<1>1. CASE UNCHANGED framingVars
  BY <1>1 DEF framingVars, FramingTypes
<1>2. CASE Framing!Reset
  <2>1. framingReceived' = <<>> /\ buf' = <<>>
    BY <1>2 DEF Framing!Reset
  <2>2. <<>> \in Bytes /\ Len(<<>>) = 0 /\ MaxBytes \in Nat /\ Stream \in Nat
    BY NothingYet, HostAssumption
  <2> QED BY <2>1, <2>2 DEF FramingTypes
<1>3. ASSUME NEW p \in Framing!Piece, Len(framingReceived) + Len(p) <= Stream, Framing!Push(p)
      PROVE  FramingTypes'
  <2>1. framingReceived \in Bytes /\ p \in Bytes /\ buf \in Bytes
    BY PieceTyped DEF FramingIInv, FramingTypes
  <2> DEFINE all == buf \o p
             rest == Framing!Rest(all)
  <2>2. all \in Bytes
    BY <2>1 DEF Bytes
  <2>3. Len(framingReceived \o p) = Len(framingReceived) + Len(p)
    BY <2>1 DEF Bytes
  <2>4. framingReceived' = framingReceived \o p
    BY <1>3 DEF Framing!Push
  <2> HIDE DEF all
  <2>5. rest \in Bytes
    BY <2>2, FramesExact
  <2>6. buf' = buf \/ buf' = <<>> \/ (buf' = rest /\ ~(Len(rest) > MaxBytes))
    BY <1>3 DEF Framing!Push, all
  <2> HIDE DEF rest
  <2>7. Len(rest) \in Nat /\ MaxBytes \in Nat
    BY <2>5, HostAssumption DEF Bytes
  <2>8. <<>> \in Bytes /\ Len(<<>>) = 0
    BY NothingYet
  <2>9. buf' \in Bytes /\ Len(buf') <= MaxBytes
    BY <2>5, <2>6, <2>7, <2>8 DEF FramingTypes
  <2> QED BY <1>3, <2>3, <2>4, <2>9 DEF FramingTypes
<1> QED BY <1>1, <1>2, <1>3 DEF Framing!Next

LEMMA FramingTyped ==
    ASSUME FramingTypes, FramingIInv
    PROVE  Framing!TypeOK
<1>1. frames \in Seq(ExactFrames)
  <2>1. CASE ~poisoned
    BY <2>1, FramesExact DEF FramingIInv
  <2>2. CASE poisoned
    <3>1. PICK n \in 0 .. Len(framingReceived) : Seen(n)
      BY <2>2 DEF FramingIInv
    <3> DEFINE z == 0
               y == SubSeq(framingReceived, z + 1, n)
    <3>2. framingReceived \in Bytes /\ z \in Nat /\ n \in Nat /\ z <= n /\ n <= Len(framingReceived)
          /\ z + 1 = 1
      BY DEF FramingIInv, Bytes
    <3>3. y \in Bytes
      <4> HIDE DEF z
      <4> QED BY <3>2, PartTyped
    <3>4. frames = Framing!FramesOf(y) \o <<Framing!TooLarge>>
      BY <3>1, <3>2 DEF Seen
    <3> HIDE DEF y
    <3> DEFINE old == Framing!FramesOf(y)
    <3>5. old \in Seq(ExactFrames) /\ <<Framing!TooLarge>> \in Seq(ExactFrames)
      BY <3>3, FramesExact DEF ExactFrames
    <3> HIDE DEF old
    <3>6. old \o <<Framing!TooLarge>> \in Seq(ExactFrames)
      BY <3>5
    <3> QED BY <3>4, <3>6 DEF old
  <2> QED BY <2>1, <2>2
<1>2. Framing!ToSet(frames) \subseteq ExactFrames
  BY <1>1 DEF Framing!ToSet
<1>3. buf \in Seq(Framing!Byte) /\ framingReceived \in Seq(Framing!Byte) /\ poisoned \in BOOLEAN
  BY DEF FramingTypes, FramingIInv, Bytes

<1> QED BY <1>2, <1>3 DEF Framing!TypeOK, ExactFrames, FramingTypes

-----------------------------------------------------------------------------
\* An answer, or a line of the host under an id of its own, or under none.
Numbered(line) ==
    \/ Serve!Valid(line) /\ line.method = "none"
    \/ line.id \in (1 .. MaxRequests) \cup {Serve!NoId, Serve!Null, Serve!Odd}

\* What is left to say of the types of the serving loop.
ServeTypes ==
    /\ \A i \in DOMAIN stdin : Numbered(stdin[i])
    /\ \A i \in DOMAIN chunk : Numbered(chunk[i])
    /\ \A i \in DOMAIN asked : asked[i] \in 1 .. MaxRequests
    /\ REQ_ID # 0 /\ own \in 0 .. MaxOwn

ServeFlags ==
    should_exit \in BOOLEAN /\ running \in BOOLEAN /\ (running \/ outputs = <<>>)

LEMMA ServeTypesInit == Serve!Init => ServeTypes /\ ServeFlags
<1>1. Serve!Init => ServeTypes
  <2> SUFFICES ASSUME Serve!Init PROVE ServeTypes
    OBVIOUS
  <2>1. stdin = <<>> /\ chunk = <<>> /\ asked = <<>> /\ REQ_ID = 1 /\ own = 0
    BY DEF Serve!Init
  <2>2. 0 \in 0 .. MaxOwn
    BY HostAssumption
  <2> QED BY <2>1, <2>2 DEF ServeTypes
<1>2. Serve!Init => ServeFlags
  BY DEF Serve!Init, ServeFlags
<1> QED BY <1>1, <1>2

LEMMA FlagsNext ==
    ASSUME ServeFlags, Serve!Next \/ UNCHANGED serveVars
    PROVE  ServeFlags'
<1>1. CASE UNCHANGED serveVars
  BY <1>1 DEF serveVars, ServeFlags
<1>2. ASSUME NEW n, Serve!ReadChunk(n) PROVE ServeFlags'
  BY <1>2 DEF Serve!ReadChunk, ServeFlags
<1>3. ASSUME NEW effects, NEW broken, Serve!ServeLine(effects, broken) PROVE ServeFlags'
  <2>1. running /\ running' = running /\ should_exit' \in BOOLEAN
    BY <1>3 DEF Serve!ServeLine, ServeFlags
  <2> QED BY <2>1 DEF ServeFlags
<1>4. CASE Serve!WriteMessage \/ Serve!Exit
  BY <1>4 DEF Serve!WriteMessage, Serve!Exit, ServeFlags
<1>5. ASSUME NEW line, Serve!OwnLine(line) \/ Serve!HostWrites(line) PROVE ServeFlags'
  BY <1>5 DEF Serve!OwnLine, Serve!HostWrites, ServeFlags
<1>6. ASSUME NEW declares, Serve!HostReads(declares) PROVE ServeFlags'
  BY <1>6 DEF Serve!HostReads, ServeFlags
<1> QED
  BY <1>1, <1>2, <1>3, <1>4, <1>5, <1>6 DEF Serve!Next

\* A line that is answered under an id has one of the host's.
LEMMA AskedInRange ==
    ASSUME NEW line \in Serve!Line, Numbered(line),
           Requests(line) \/ (~Serve!Valid(line) /\ Serve!HasId(Serve!ToErrorResponse(line)))
    PROVE  line.id \in 1 .. MaxRequests
<1>1. Serve!NoId = 0 /\ Serve!Null = -1 /\ Serve!Odd = -2
  BY DEF Serve!NoId, Serve!Null, Serve!Odd
<1>2. Serve!Known(line) # 0
  <2>1. CASE Requests(line)
    BY <1>1, <2>1 DEF Requests, Serve!HasId
  <2>2. CASE ~Serve!Valid(line) /\ Serve!HasId(Serve!ToErrorResponse(line))
    <3>1. ~Serve!HasId(Serve!ErrorResponse(0))
      BY <1>1 DEF Serve!HasId, Serve!Known, Serve!ErrorResponse, Serve!Plain
    <3> QED BY <1>1, <2>2, <3>1, RefusalId
  <2> QED BY <2>1, <2>2
<1>3. line.id \notin {Serve!NoId, Serve!Null, Serve!Odd}
  BY <1>1, <1>2 DEF Serve!Known
<1>4. ~(Serve!Valid(line) /\ line.method = "none")
  BY DEF Requests
<1> QED BY <1>3, <1>4 DEF Numbered

\* A line of the host is numbered, and so is an answer.
LEMMA NumberedLines ==
    /\ \A n \in 1 .. MaxRequests :
          /\ \A line \in Serve!Malformed(Serve!Request(n, "invoke", "fit")) : Numbered(line)
          /\ \A m \in Serve!Method, p \in {"fit", "unfit"} : Numbered(Serve!Request(n, m, p))
    /\ Numbered(Serve!TooLarge)
    /\ \A n \in Int \ {Serve!Odd} : Numbered(Serve!ErrorResponse(n)) /\ Numbered(Serve!Result(n))
<1>1. /\ Serve!NoId = 0 /\ Serve!Plain.id = 0 /\ Serve!Plain.method = "none"
      /\ Serve!TooLarge.id = 0
  BY DEF Serve!NoId, Serve!Plain, Serve!TooLarge
<1>2. ASSUME NEW n, NEW m, NEW p PROVE Serve!Request(n, m, p).id = n
  BY DEF Serve!Request, Serve!Plain
<1>3. ASSUME NEW n \in 1 .. MaxRequests,
             NEW line \in Serve!Malformed(Serve!Request(n, "invoke", "fit"))
      PROVE  Numbered(line)
  <2> DEFINE r == Serve!Request(n, "invoke", "fit")
  <2>1. r \in Serve!Line
    <3>1. n \in Int \ {Serve!Odd} /\ "invoke" \in Serve!Method /\ "fit" \in {"fit", "unfit"}
      BY HostAssumption DEF Serve!Odd, Serve!Method
    <3> QED BY <3>1, WellMade
  <2>2. r.id = n
    BY <1>2
  <2> HIDE DEF r
  <2>3. line.id \in {n, Serve!Odd}
    BY <2>1, <2>2 DEF Serve!Malformed, Serve!Line, r
  <2> QED BY <2>3 DEF Numbered
<1>4. \A n \in 1 .. MaxRequests, m \in Serve!Method, p \in {"fit", "unfit"} : Numbered(Serve!Request(n, m, p))
  BY <1>2 DEF Numbered
<1>5. \A n \in Int \ {Serve!Odd} : Numbered(Serve!ErrorResponse(n)) /\ Numbered(Serve!Result(n))
  <2> SUFFICES ASSUME NEW n \in Int \ {Serve!Odd}
               PROVE  Numbered(Serve!ErrorResponse(n)) /\ Numbered(Serve!Result(n))
    OBVIOUS
  <2>1. Serve!ErrorResponse(n).method = "none" /\ Serve!Result(n).method = "none"
    BY DEF Serve!ErrorResponse, Serve!Result, Serve!Plain
  <2> QED BY <2>1, WellMade DEF Numbered
<1> QED BY <1>1, <1>3, <1>4, <1>5 DEF Numbered

\* A line more, and all are numbered still.
LEMMA NumberedMore ==
    ASSUME NEW lines \in Seq(Serve!Line), NEW line \in Serve!Line, Numbered(line),
           \A i \in DOMAIN lines : Numbered(lines[i])
    PROVE  \A i \in DOMAIN Append(lines, line) : Numbered(Append(lines, line)[i])
<1> DEFINE more == Append(lines, line)
<1>1. \A i \in DOMAIN more : more[i] = line \/ (i \in DOMAIN lines /\ more[i] = lines[i])
  BY OneMoreLine
<1> HIDE DEF more
<1>2. \A i \in DOMAIN more : Numbered(more[i])
  BY <1>1
<1> QED BY <1>2 DEF more

LEMMA ServeTypesNext ==
    ASSUME ServeTypes, ServeIInv, Serve!Next \/ UNCHANGED serveVars
    PROVE  ServeTypes'
<1>0. /\ stdin \in Seq(Serve!Line) /\ chunk \in Seq(Serve!Line) /\ stdout \in Seq(Serve!Line)
      /\ REQ_ID \in Nat /\ sent \in 0 .. MaxRequests /\ asked \in Seq(Int)
      /\ MaxRequests \in Nat /\ MaxOwn \in Nat
  BY HostAssumption DEF ServeIInv, LinesTyped
<1>1. CASE UNCHANGED serveVars
  BY <1>1 DEF serveVars, ServeTypes
<1>2. ASSUME NEW n \in 1 .. Len(stdin), Serve!ReadChunk(n) PROVE ServeTypes'
  <2>1. /\ chunk' = SubSeq(stdin, 1, n) /\ stdin' = SubSeq(stdin, n + 1, Len(stdin))
        /\ UNCHANGED <<asked, REQ_ID, own>> /\ Len(stdin) \in Nat
    BY <1>0, <1>2 DEF Serve!ReadChunk
  <2>2. \A i \in DOMAIN chunk' : i \in DOMAIN stdin /\ chunk'[i] = stdin[i]
    BY <1>0, <2>1
  <2>3. \A i \in DOMAIN stdin' : i + n \in DOMAIN stdin /\ stdin'[i] = stdin[i + n]
    BY <1>0, <2>1
  <2> QED BY <2>1, <2>2, <2>3 DEF ServeTypes
<1>3. ASSUME NEW effects, NEW broken, Serve!ServeLine(effects, broken), ServeIInv' PROVE ServeTypes'
  <2> DEFINE line == Head(chunk)
  <2>1. chunk # <<>> /\ chunk' = Tail(chunk) /\ UNCHANGED <<stdin, own>>
    BY <1>3 DEF Serve!ServeLine
  <2>2. /\ line \in Serve!Line /\ line = chunk[1] /\ 1 \in DOMAIN chunk
        /\ \A i \in DOMAIN chunk' : i + 1 \in DOMAIN chunk /\ chunk'[i] = chunk[i + 1]
    BY <1>0, <2>1
  <2>3. Numbered(line)
    BY <2>2 DEF ServeTypes
  <2>4. \/ asked' = asked
        \/ /\ asked' = Append(asked, line.id)
           /\ Requests(line) \/ (~Serve!Valid(line) /\ Serve!HasId(Serve!ToErrorResponse(line)))
    BY <1>3 DEF Serve!ServeLine, Requests
  <2>5. REQ_ID' # 0
    <3>1. CASE REQ_ID' = REQ_ID
      BY <3>1 DEF ServeTypes
    <3>2. CASE REQ_ID' # REQ_ID
      <4> DEFINE made == Serve!Cardinality({i \in DOMAIN outputs' : Serve!IsHostRequest(outputs'[i])})
      <4>1. REQ_ID' = REQ_ID + made
        BY <1>3, <3>2 DEF Serve!ServeLine
      <4>2. Len(outputs') \in Nat /\ DOMAIN outputs' = 1 .. Len(outputs')
        BY <1>3 DEF ServeIInv, LinesTyped
      <4>3. made \in Nat
        BY <4>2, Counted
      <4> HIDE DEF made
      <4> QED BY <1>0, <4>1, <4>3 DEF ServeTypes
    <3> QED BY <3>1, <3>2
  <2> HIDE DEF line
  <2>6. \A i \in DOMAIN asked' : asked'[i] \in 1 .. MaxRequests
    <3>1. CASE asked' = asked
      BY <3>1 DEF ServeTypes
    <3>2. CASE asked' # asked
      <4>1. line.id \in 1 .. MaxRequests
        BY <2>2, <2>3, <2>4, <3>2, AskedInRange
      <4>2. asked' = Append(asked, line.id)
        BY <2>4, <3>2
      <4> QED BY <1>0, <4>1, <4>2 DEF ServeTypes
    <3> QED BY <3>1, <3>2
  <2> QED BY <2>1, <2>2, <2>5, <2>6 DEF ServeTypes
<1>4. CASE Serve!WriteMessage \/ Serve!Exit
  BY <1>4 DEF Serve!WriteMessage, Serve!Exit, ServeTypes
<1>5. ASSUME NEW line, own < MaxOwn, Serve!OwnLine(line) PROVE ServeTypes'
  <2>1. own' = own + 1 /\ UNCHANGED <<stdin, chunk, asked, REQ_ID>>
    BY <1>5 DEF Serve!OwnLine
  <2> QED BY <1>0, <1>5, <2>1 DEF ServeTypes
<1>6. ASSUME sent < MaxRequests,
             NEW line \in {Serve!TooLarge} \cup Serve!Malformed(Serve!Request(sent + 1, "invoke", "fit")) \cup
                          {Serve!Request(sent + 1, m, p) : m \in Serve!Method, p \in {"fit", "unfit"}},
             Serve!HostWrites(line)
      PROVE  ServeTypes'
  <2>1. sent + 1 \in 1 .. MaxRequests
    BY <1>0, <1>6
  <2>2. Numbered(line)
    BY <2>1, NumberedLines
  <2>3. line \in Serve!Line
    <3>1. sent + 1 \in Int \ {Serve!Odd} /\ "invoke" \in Serve!Method /\ "fit" \in {"fit", "unfit"}
      BY <1>0 DEF Serve!Odd, Serve!Method
    <3> QED BY <3>1, WellMade, MalformedLine
  <2>4. stdin' = Append(stdin, line) /\ UNCHANGED <<chunk, asked, REQ_ID, own>>
    BY <1>6 DEF Serve!HostWrites
  <2>5. \A i \in DOMAIN stdin' : Numbered(stdin'[i])
    BY <1>0, <2>2, <2>3, <2>4, NumberedMore DEF ServeTypes
  <2> QED BY <2>4, <2>5 DEF ServeTypes
<1>7. ASSUME NEW declares \in BOOLEAN, Serve!HostReads(declares) PROVE ServeTypes'
  <2> DEFINE line == Head(stdout)
  <2>1. /\ stdout # <<>>
        /\ stdin' = IF ~Serve!Valid(line) THEN Append(stdin, Serve!ToErrorResponse(line))
                    ELSE IF ~Serve!IsHostRequest(line) THEN stdin
                    ELSE Append(stdin, IF declares THEN Serve!Result(line.id)
                                       ELSE Serve!ErrorResponse(line.id))
        /\ UNCHANGED <<chunk, asked, REQ_ID, own>>
    BY <1>7 DEF Serve!HostReads
  <2>2. line \in Serve!Line
    BY <1>0, <2>1
  <2> HIDE DEF line
  <2>3. line.id \in Int
    BY <2>2 DEF Serve!Line
  <2>4. /\ Serve!IsHostRequest(line) => line.id # Serve!Odd
        /\ Serve!Known(line) \in Int \ {Serve!Odd} /\ Serve!NoId \in Int \ {Serve!Odd}
    BY <2>3 DEF Serve!IsHostRequest, Serve!HasId, Serve!Known, Serve!NoId, Serve!Odd, Serve!Null
  <2>5. \/ stdin' = stdin
        \/ \E k \in Int \ {Serve!Odd} : \/ stdin' = Append(stdin, Serve!ErrorResponse(k))
                                        \/ stdin' = Append(stdin, Serve!Result(k))
    <3>1. CASE ~Serve!Valid(line)
      BY <2>1, <2>2, <2>4, <3>1, RefusalId
    <3>2. CASE Serve!Valid(line)
      BY <2>1, <2>3, <2>4, <3>2
    <3> QED BY <3>1, <3>2
  <2>6. \/ stdin' = stdin
        \/ \E answer \in Serve!Line : Numbered(answer) /\ stdin' = Append(stdin, answer)
    BY <2>5, NumberedLines, WellMade
  <2>7. \A i \in DOMAIN stdin' : Numbered(stdin'[i])
    <3>1. CASE stdin' = stdin
      BY <3>1 DEF ServeTypes
    <3>2. CASE stdin' # stdin
      <4>1. PICK answer \in Serve!Line : Numbered(answer) /\ stdin' = Append(stdin, answer)
        BY <2>6, <3>2
      <4> QED BY <1>0, <4>1, NumberedMore DEF ServeTypes
    <3> QED BY <3>1, <3>2
  <2> QED BY <2>1, <2>7 DEF ServeTypes
<1>8. ServeIInv'
  BY ServeNext
<1> QED
  BY <1>1, <1>2, <1>3, <1>4, <1>5, <1>6, <1>7, <1>8 DEF Serve!Next

LEMMA ServeTyped ==
    ASSUME ServeTypes, ServeFlags, ServeIInv
    PROVE  Serve!TypeOK
<1>1. Serve!ToSet(stdin) \cup Serve!ToSet(chunk) \subseteq Serve!Line
      /\ Serve!ToSet(outputs) \cup Serve!ToSet(stdout) \subseteq Serve!Line
  <2> DEFINE L == Serve!Line
  <2>1. stdin \in Seq(L) /\ chunk \in Seq(L) /\ outputs \in Seq(L) /\ stdout \in Seq(L)
    BY DEF ServeIInv, LinesTyped
  <2> HIDE DEF L
  <2>2. \A x \in Seq(L) : Serve!ToSet(x) \subseteq L
    BY DEF Serve!ToSet
  <2>3. /\ Serve!ToSet(stdin) \subseteq L /\ Serve!ToSet(chunk) \subseteq L
        /\ Serve!ToSet(outputs) \subseteq L /\ Serve!ToSet(stdout) \subseteq L
    BY <2>1, <2>2
  <2> QED BY <2>3 DEF L
<1>2. Serve!ToSet(asked) \subseteq 1 .. MaxRequests
  BY DEF ServeTypes, Serve!ToSet
<1>3. Serve!ToSet(answered) \subseteq Serve!ToSet(asked)
  <2>1. answered \in Seq(Int)
    BY DEF ServeIInv, LinesTyped
  <2>2. asked = answered \/ \E x : asked = Append(answered, x)
    BY DEF ServeIInv, Serve!AnswersInOrder
  <2>3. CASE asked = answered
    BY <2>3
  <2>4. ASSUME NEW x, asked = Append(answered, x) PROVE Serve!ToSet(answered) \subseteq Serve!ToSet(asked)
    <3>1. \A i \in DOMAIN answered : i \in DOMAIN asked /\ asked[i] = answered[i]
      BY <2>1, <2>4
    <3> QED BY <3>1 DEF Serve!ToSet
  <2> QED BY <2>2, <2>3, <2>4
<1>4. REQ_ID \in Nat \ {0} /\ sent \in 0 .. MaxRequests /\ own \in 0 .. MaxOwn
  BY DEF ServeTypes, ServeIInv, LinesTyped
<1> QED BY <1>1, <1>2, <1>3, <1>4 DEF ServeFlags, Serve!TypeOK

-----------------------------------------------------------------------------
\* What each part keeps, its types and what they rest on.
TypesIInv ==
    /\ part \in {"inbound", "trust", "stubs", "scan", "framing", "serve", "inproc", "env",
                 "shared", "stranger", "rewritten"}
    /\ part = "inbound" => TypeOK
    /\ part = "trust" => TrustIInv
    /\ part = "stubs" => StubsIInv
    /\ part = "scan" => ScanTypes /\ Scanned(user, packaged)
    /\ part = "framing" => FramingTypes /\ FramingIInv
    /\ part = "serve" => ServeTypes /\ ServeFlags /\ ServeIInv
    /\ part = "inproc" => InprocIInv
    /\ part = "env" => EnvTypes /\ EnvIInv
    /\ part = "shared" => SharedIInv
    /\ part = "stranger" => StrangerIInv
    /\ part = "rewritten" => RewrittenIInv

LEMMA TypesInit == HostInit => TypesIInv
<1> SUFFICES ASSUME HostInit PROVE TypesIInv
  OBVIOUS
<1>1. /\ part \in {"inbound", "trust", "stubs", "scan", "framing", "serve", "inproc", "env",
                   "shared", "stranger", "rewritten"}
      /\ Init
      /\ part = "trust" => Trust!Init
      /\ part = "stubs" => Stubs!Init
      /\ part = "scan" => Scan!Init
      /\ part = "framing" => Framing!Init
      /\ part = "serve" => Serve!Init
      /\ part = "inproc" => Inproc!Init
      /\ part = "env" => Env!Init
      /\ part = "shared" => Shared!Init
      /\ part = "stranger" => Stranger!Init
      /\ part = "rewritten" => Rewritten!Init
  BY DEF HostInit, TrustStart, StubsStart, ScanStart, FramingStart, ServeStart, InprocStart, EnvStart
<1>2. TypeOK
  BY <1>1, InitGood
<1>3. part = "trust" => TrustIInv
  BY <1>1, TrustHolds
<1>4. part = "shared" => SharedIInv
  BY <1>1, SharedHolds
<1>5. (part = "stranger" => StrangerIInv) /\ (part = "rewritten" => RewrittenIInv)
  BY <1>1, StrangerHolds, RewrittenHolds
<1>6. part = "scan" => ScanTypes /\ Scanned(user, packaged)
  BY <1>1, ScanInit, ScanTypesNext
<1>7. part = "env" => EnvTypes /\ EnvIInv
  BY <1>1, EnvInit, EnvTypesInit
<1>8. part = "framing" => FramingTypes /\ FramingIInv
  BY <1>1, FramingInit, FramingTypesInit
<1>9. part = "serve" => ServeTypes /\ ServeFlags /\ ServeIInv
  BY <1>1, ServeInit, ServeTypesInit
<1>10. (part = "stubs" => StubsIInv) /\ (part = "inproc" => InprocIInv)
  BY <1>1, StubsInit, InprocInit
<1> QED
  BY <1>1, <1>2, <1>3, <1>4, <1>5, <1>6, <1>7, <1>8, <1>9, <1>10 DEF TypesIInv

LEMMA TypesNext == TypesIInv /\ [HostNext]_hostVars => TypesIInv'
<1> SUFFICES ASSUME TypesIInv, [HostNext]_hostVars PROVE TypesIInv'
  OBVIOUS
<1>1. /\ part' = part
      /\ part = "inbound" => Next \/ UNCHANGED gateVars
      /\ part = "trust" => Trust!Next \/ UNCHANGED trustVars
      /\ part = "stubs" => Stubs!Next \/ UNCHANGED stubsVars
      /\ part = "scan" => Scan!Scan \/ UNCHANGED scanVars
      /\ part = "framing" => Framing!Next \/ UNCHANGED framingVars
      /\ part = "serve" => Serve!Next \/ UNCHANGED serveVars
      /\ part = "inproc" => Inproc!Next \/ UNCHANGED inprocVars
      /\ part = "env" => Env!Next \/ UNCHANGED envVars
      /\ part = "shared" => Shared!Next \/ UNCHANGED trustVars
      /\ part = "stranger" => Stranger!Next \/ UNCHANGED trustVars
      /\ part = "rewritten" => Rewritten!Next \/ UNCHANGED trustVars
  BY DEF HostNext, hostVars, gateVars, inboundVars
<1>2. part = "inbound" => TypeOK'
  BY <1>1, TypeStep DEF TypesIInv
<1>3. part = "trust" => TrustIInv'
  BY <1>1, TrustHolds DEF TypesIInv
<1>4. part = "shared" => SharedIInv'
  BY <1>1, SharedHolds DEF TypesIInv
<1>5. (part = "stranger" => StrangerIInv') /\ (part = "rewritten" => RewrittenIInv')
  BY <1>1, StrangerHolds, RewrittenHolds DEF TypesIInv
<1>6. part = "scan" => ScanTypes' /\ Scanned(user, packaged)'
  BY <1>1, ScanNext, ScanTypesNext DEF TypesIInv
<1>7. part = "env" => EnvTypes' /\ EnvIInv'
  BY <1>1, EnvNext, EnvTypesNext DEF TypesIInv
<1>8. part = "framing" => FramingTypes' /\ FramingIInv'
  BY <1>1, FramingNext, FramingTypesNext DEF TypesIInv
<1>9. part = "serve" => ServeTypes' /\ ServeFlags' /\ ServeIInv'
  BY <1>1, ServeNext, ServeTypesNext, FlagsNext DEF TypesIInv
<1>10. part = "inproc" => InprocIInv'
  BY <1>1, InprocNext DEF TypesIInv
<1>11. part = "stubs" => StubsIInv'
  <2>1. UNCHANGED stubsVars /\ StubsIInv => StubsIInv'
    BY DEF stubsVars, StubsIInv, OwnFile, Stubs!TypeOK, Stubs!StubsAreTheirOwn
  <2> QED BY <1>1, <2>1, StubsNext DEF TypesIInv
<1> QED
  BY <1>1, <1>2, <1>3, <1>4, <1>5, <1>6, <1>7, <1>8, <1>9, <1>10, <1>11 DEF TypesIInv

\* The variables of every part keep their types, for any bounds: no decoder
\* returns a line feed, nothing is asked under an id the host has not given, no
\* process is started by a round that has not begun.
THEOREM TypesStayOK == HostSpec => []HostTypesOK
<1>1. TypesIInv => HostTypesOK
  <2> SUFFICES ASSUME TypesIInv PROVE HostTypesOK
    OBVIOUS
  <2>1. /\ part = "inbound" => TypeOK
        /\ part = "trust" => Trust!TypeOK
        /\ part = "shared" => Shared!TypeOK
        /\ part = "stranger" => Stranger!TypeOK
        /\ part = "rewritten" => Rewritten!TypeOK
    BY TrustHolds, SharedHolds, StrangerHolds, RewrittenHolds DEF TypesIInv
  <2>2. (part = "stubs" => Stubs!TypeOK) /\ (part = "inproc" => Inproc!TypeOK)
    BY InprocTyped DEF TypesIInv, StubsIInv
  <2>3. (part = "scan" => Scan!TypeOK) /\ (part = "framing" => Framing!TypeOK)
    BY ScanTyped, FramingTyped DEF TypesIInv
  <2>4. (part = "serve" => Serve!TypeOK) /\ (part = "env" => Env!TypeOK)
    BY ServeTyped, EnvTyped DEF TypesIInv
  <2>5. part \in {"inbound", "trust", "stubs", "scan", "framing", "serve", "inproc", "env",
                  "shared", "stranger", "rewritten"}
    BY DEF TypesIInv
  <2> HIDE DEF TypesIInv
  <2> QED BY <2>1, <2>2, <2>3, <2>4, <2>5 DEF HostTypesOK
<1> QED
  BY <1>1, TypesInit, TypesNext, PTL DEF HostSpec
=============================================================================
