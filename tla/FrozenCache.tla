---------------------------- MODULE FrozenCache ----------------------------
(***************************************************************************)
(* The stubs on disk that let a frozen extension appear without being      *)
(* started (crates/dd-host/src/cache.rs, and load_one of crates/dd-gui/    *)
(* src/aggregator/spawn.rs).  A stub is keyed by id and version.  Rounds   *)
(* of aggregation may overlap, and each keeps the manifests it scanned.    *)
(***************************************************************************)
EXTENDS Naturals, FiniteSets

CONSTANTS
    Frozen,         \* extensions whose manifest says frozen
    Release,        \* their versions
    Fallback,       \* the pairs <<extension, version>> that have fallbacks
    Round           \* rounds of aggregation that may overlap

\* File names: cache_stem keeps extensions apart; the older names fold their
\* ids with sanitize, and here all of them to the same text.
Name == [kind : {"new"}, stem : Frozen, version : Release]
        \cup [kind : {"legacy"}, stem : {"folded"}, version : Release]

\* FrozenSnapshot; the commands are told apart by who gave them.
Snapshot == [ext : Frozen, version : Release, by : Frozen \X Release]
Corrupt == [ext |-> "?"]
Absent == [ext |-> "-"]

\* Where a round is with an extension (load_one).
Quiet == [at |-> "out"]
Task == [at : {"opened", "invalidated"}, version : Release]
        \cup [at : {"stub"}, version : Release, by : Frozen \X Release]

VARIABLES
    disk,
    installed,      \* the version whose files are installed
    task

cacheVars == <<disk, installed, task>>

TypeOK ==
    /\ disk \in [Name -> Snapshot \cup {Corrupt, Absent}]
    /\ installed \in [Frozen -> Release]
    /\ task \in [Round -> [Frozen -> Task \cup {Quiet}]]

\* A directory left by older releases of the host: legacy names only.
Init ==
    /\ \E old \in [Release -> {Corrupt, Absent} \cup
                              {s \in Snapshot : s.by = <<s.ext, s.version>>}] :
           /\ \A v \in Release : old[v] \in Snapshot => old[v].version = v
           /\ disk = [n \in Name |-> IF n.kind = "legacy" THEN old[n.version] ELSE Absent]
    /\ installed \in [Frozen -> Release]
    /\ task = [r \in Round |-> [e \in Frozen |-> Quiet]]

-----------------------------------------------------------------------------
New(e, v) == [kind |-> "new", stem |-> e, version |-> v]
Legacy(v) == [kind |-> "legacy", stem |-> "folded", version |-> v]

\* The names the two prefixes of an extension match.
Prefixed(e) == {n \in Name : n.kind = "legacy" \/ n.stem = e}

\* Mutant: any snapshot under the name is taken.
VerifiedAny(n, e) == IF disk[n] \in Snapshot THEN disk[n] ELSE Absent

\* read_verified: whatever is not this extension's own snapshot is no hit.
Verified(n, e) == IF disk[n] \in Snapshot /\ disk[n].ext = e THEN disk[n] ELSE Absent

\* FrozenCache::load: the older name only when the new one is not there.
Load(e, v) == IF disk[New(e, v)] # Absent THEN Verified(New(e, v), e)
                                          ELSE Verified(Legacy(v), e)

\* load_one up to the stub hit; without a stub the extension is started (its
\* files are taken not to change between the scan of its manifest and that).
Begin(r, e) ==
    /\ task[r][e] = Quiet
    /\ LET v == installed[e]
           hit == Load(e, v)
       IN  task' = [task EXCEPT ![r][e] =
               IF hit # Absent THEN [at |-> "stub", version |-> v, by |-> hit.by]
                               ELSE [at |-> "opened", version |-> v]]
    /\ UNCHANGED <<disk, installed>>

\* top_level_commands answered: an extension with fallbacks leaves no stub, any
\* other drops the stubs of its other versions first
\* (invalidate_if_version_changed, FrozenCache::remove).
Answered(r, e) ==
    /\ task[r][e].at = "opened"
    /\ LET v == task[r][e].version
           fallback == <<e, v>> \in Fallback
           stale(n) == fallback \/ disk[n] = Corrupt \/ disk[n].version # v
       IN  /\ disk' = [n \in Name |->
                  IF n \in Prefixed(e) /\ disk[n] # Absent /\ stale(n) THEN Absent ELSE disk[n]]
           /\ task' = [task EXCEPT ![r][e] =
                  IF fallback THEN Quiet ELSE [at |-> "invalidated", version |-> v]]
    /\ UNCHANGED installed

\* save: atomic_write replaces the file, or fails and leaves it.
Save(r, e) ==
    /\ task[r][e].at = "invalidated"
    /\ LET v == task[r][e].version
       IN  \/ disk' = [disk EXCEPT ![New(e, v)] = [ext |-> e, version |-> v, by |-> <<e, v>>]]
           \/ UNCHANGED disk
    /\ task' = [task EXCEPT ![r][e] = Quiet]
    /\ UNCHANGED installed

\* The round showed the stub (ExtOutcome::Stub), the extension could not be
\* opened or did not answer (ExtOutcome::Failed), or the host was stopped.
End(r, e) ==
    /\ task[r][e] # Quiet
    /\ task' = [task EXCEPT ![r][e] = Quiet]
    /\ UNCHANGED <<disk, installed>>

\* Another version is installed, older or newer.
Install(e) ==
    /\ \E v \in Release \ {installed[e]} : installed' = [installed EXCEPT ![e] = v]
    /\ UNCHANGED <<disk, task>>

\* A file is damaged outside of the program.
Damage(n) ==
    /\ disk[n] \in Snapshot
    /\ disk' = [disk EXCEPT ![n] = Corrupt]
    /\ UNCHANGED <<installed, task>>

Next ==
    \/ \E r \in Round, e \in Frozen :
           Begin(r, e) \/ Answered(r, e) \/ Save(r, e) \/ End(r, e)
    \/ \E e \in Frozen : Install(e)
    \/ \E n \in Name : Damage(n)

Spec == Init /\ [][Next]_cacheVars

-----------------------------------------------------------------------------
\* A stub that is shown holds the commands this very extension gave in the
\* version whose manifest was scanned, whatever overlapping rounds wrote,
\* older names fold together, and versions come back.
StubsAreTheirOwn ==
    \A r \in Round, e \in Frozen :
        task[r][e].at = "stub" => task[r][e].by = <<e, task[r][e].version>>

\* The host itself never leaves a stub of an extension with fallbacks under the
\* name it reads first: nothing would start it to ask for them.
NoStubHidesFallbacks ==
    \A p \in Fallback : disk[New(p[1], p[2])] = Absent
=============================================================================
