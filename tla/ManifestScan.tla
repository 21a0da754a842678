--------------------------- MODULE ManifestScan ----------------------------
(***************************************************************************)
(* How the host finds its extensions (crates/dd-host: manifest.rs,         *)
(* builtin.rs; crates/dd-gui/src/aggregator/scan.rs): the manifests of the *)
(* user's directory and of the packaged one go through nine rules, the     *)
(* first that fails naming the reason, and are merged with the built-in    *)
(* extensions.                                                             *)
(***************************************************************************)
EXTENDS Naturals, Sequences

CONSTANTS
    Id,             \* ids a manifest may claim
    BuiltinIds,     \* BUILTINS
    Slots,          \* bound: manifests in a directory, in the order of their names
    Flaws           \* what may be wrong with a manifest in a run

\* The rules in the order load_manifest applies them (rule 7, one id in one
\* directory, is scan_dir's).
RuleOrder == <<"ParseError", "UnsupportedSchema", "MissingField", "InvalidVersion",
               "OtherPlatform", "InvalidMinHost", "HostTooOld", "UnknownCapability",
               "EntryNotExecutable">>

Document == [id : Id, flaws : Flaws]
NoFile == [id |-> "none"]
Unreadable == <<"unreadable">>
Readable(d) == IF d = Unreadable THEN [f \in 1 .. Slots |-> NoFile] ELSE d
Directory == [1 .. Slots -> Document \cup {NoFile}] \cup {Unreadable}

VARIABLES
    user, packaged,     \* the two directories as the last scan found them
    exts,               \* ExtensionSources.exts: their order is that of the
                        \* origins, then of the files
    skipped             \* ExtensionSources.skipped

scanVars == <<user, packaged, exts, skipped>>

Found == [id : Id \cup BuiltinIds, origin : {"Builtin", "UserDir", "Sidecar"},
          file : 0 .. Slots]
Skip == [origin : {"UserDir", "Sidecar"}, file : 1 .. Slots,
         reason : {RuleOrder[i] : i \in 1 .. Len(RuleOrder)} \cup {"DuplicateId"}]

TypeOK ==
    /\ user \in Directory /\ packaged \in Directory
    /\ exts \subseteq Found /\ skipped \subseteq Skip

-----------------------------------------------------------------------------
Files(d) == {f \in 1 .. Slots : Readable(d)[f] # NoFile}

\* load_manifest: the first rule that fails, "Ok" if none does.
Verdict(m) ==
    LET failed == {i \in 1 .. Len(RuleOrder) : RuleOrder[i] \in m.flaws}
    IN  IF failed = {} THEN "Ok"
        ELSE RuleOrder[CHOOSE i \in failed : \A j \in failed : i <= j]

\* scan_dir: of the loadable manifests with one id, the first file wins.
Wins(d, f) ==
    /\ Verdict(d[f]) = "Ok"
    /\ \A g \in Files(d) : g < f /\ Verdict(d[g]) = "Ok" => d[g].id # d[f].id

ScanDir(d, origin) ==
    [loaded |-> {[id |-> d[f].id, origin |-> origin, file |-> f] :
                     f \in {g \in Files(d) : Wins(d, g)}},
     skipped |-> {[origin |-> origin, file |-> f,
                   reason |-> IF Verdict(d[f]) = "Ok" THEN "DuplicateId" ELSE Verdict(d[f])] :
                  f \in {g \in Files(d) : ~Wins(d, g)}}]

\* merge_scanned_dirs and merge_builtins: what comes first keeps the id.
Merge(first, second) == first \cup {x \in second : \A y \in first : y.id # x.id}

\* SkipReason::is_error
IsError(reason) == reason # "OtherPlatform"

Registered == {[id |-> i, origin |-> "Builtin", file |-> 0] : i \in BuiltinIds}

\* load_extension_sources, up to the trust map (TrustLedger): an extension that
\* bears the id of a built-in one counts as built in.
Sources(u, p) ==
    [exts |-> Merge(Registered, Merge(ScanDir(u, "UserDir").loaded, ScanDir(p, "Sidecar").loaded)),
     skipped |-> {s \in ScanDir(u, "UserDir").skipped \cup ScanDir(p, "Sidecar").skipped :
                      IsError(s.reason)}]

\* The first run: neither directory holds a manifest, or even exists.
Init ==
    /\ user = [f \in 1 .. Slots |-> NoFile] /\ packaged = user
    /\ exts = Registered /\ skipped = {}

\* What a directory may have become: a manifest put there, changed or taken
\* away, the directory unreadable or readable again.
Edited(d) ==
    {[Readable(d) EXCEPT ![f] = m] : f \in 1 .. Slots, m \in Document \cup {NoFile}}
        \cup {Unreadable}

\* A round scans the directories, of which one may have changed.
Scan ==
    /\ \/ user' \in Edited(user) /\ UNCHANGED packaged
       \/ packaged' \in Edited(packaged) /\ UNCHANGED user
    /\ exts' = Sources(user', packaged').exts
    /\ skipped' = Sources(user', packaged').skipped

Spec == Init /\ [][Scan]_scanVars

-----------------------------------------------------------------------------
Reported(origin, f) == \E s \in skipped : s.origin = origin /\ s.file = f
Listed(origin, f) == \E x \in exts : x.origin = origin /\ x.file = f
IdListed(i) == \E x \in exts : x.id = i

\* No extension vanishes without a trace: every manifest a scan found is
\* loaded, is reported with its reason, is for another platform, or gave way to
\* a loaded extension of the same id; and no id is loaded twice.
NothingVanishes ==
    /\ \A k \in 1 .. 2 :
           LET d == <<user, packaged>>[k]
               origin == <<"UserDir", "Sidecar">>[k]
           IN  \A f \in Files(d) :
                   \/ Listed(origin, f) \/ Reported(origin, f)
                   \/ Verdict(d[f]) = "OtherPlatform"
                   \/ Verdict(d[f]) = "Ok" /\ IdListed(d[f].id)
    /\ \A x, y \in exts : x.id = y.id => x = y
    /\ \A x \in exts : x.id \in BuiltinIds => x.origin = "Builtin"
=============================================================================
