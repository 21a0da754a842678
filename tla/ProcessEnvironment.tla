------------------------- MODULE ProcessEnvironment -------------------------
(***************************************************************************)
(* What of the settings reaches an extension.  A round of aggregation      *)
(* (spawn_aggregation of crates/dd-gui/src/app/aggregate_job.rs) puts the  *)
(* language and the user's configuration into copies of the manifests it   *)
(* scanned, and into globals for the extensions of its own process; the    *)
(* host filters what a manifest may override when it starts a process      *)
(* (crates/dd-host/src/process.rs).  A process may also be started later,  *)
(* from the manifests the round has sent: a reheat.  Rounds may overlap;   *)
(* only what the newest one sends is read, and its first result releases   *)
(* the clients in the pool.  One that is with a thread by then, called or  *)
(* being reheated, comes back later (store_warm_process of pool.rs).       *)
(***************************************************************************)
EXTENDS Naturals, Functions

CONSTANTS
    Ext,            \* extensions that are processes, enabled and trusted
    Frozen,         \* those of them whose manifest says frozen
    Adjustable,     \* those of them the settings hold a value for
    Declares,       \* what keys the manifests may declare in entry.env
    Choices,        \* bound: the settings the user chooses among
    Client,         \* bound: the ExtClients there may be at a time
    MaxRounds       \* bound: rounds of aggregation

\* A variable of PROTECTED_ENV_KEYS, DDRUN_LANG, and one of DD_EXT_CFG_<KEY>.
\* Case does not tell variables apart on Windows, and does in entry.env.
Variable == {"PATH", "LANG", "CFG"}
Key == Variable \X {"exact", "other"}

Lang == {"zh_cn", "en_us"}
Settings == [lang : Lang, cfg : {"none", "set"}]

\* What a process finds: what the host has itself, what the manifest says, or
\* what was injected.
Environment == [Variable -> {"host", "manifest", "set"} \cup Lang]
NoProcess == [by |-> "none", at |-> "none"]
\* In the vector of the pool or with a thread; outlived (history) is the last
\* round whose first result found it with a thread.
Process == [ext : Ext, by : {"round", "reheat"}, of : 1..MaxRounds, env : Environment,
            at : {"pool", "thread"}, outlived : 0..MaxRounds]

\* Where a round is; alone says that the earlier ones could write no global
\* any more when it began, specs in which language its built-in texts are.
Aggregation == [at : {"lang", "scan", "inject", "collect", "over"}, given : Settings,
          alone : BOOLEAN, specs : Lang, todo : SUBSET Ext]
NotBegun == [at |-> "none"]

VARIABLES
    declared,       \* the keys each manifest declares
    settings,       \* the settings, with the language in effect
    dirty,          \* engines_dirty, exts_dirty or lang_dirty
    round,
    newest,         \* the round aggregate_rx belongs to
    exts,           \* pool.exts: the round whose Meta filled it, 0 at first
    arrived,        \* pool.arrived
    clients,        \* the processes: those of pool.processes and those taken from it
    memory,         \* the globals the built-in extensions read
    stubbed         \* frozen extensions with a stub on disk

environmentVars ==
    <<declared, settings, dirty, round, newest, exts, arrived, clients, memory, stubbed>>

TypeOK ==
    /\ declared \in [Ext -> SUBSET Key]
    /\ settings \in Choices /\ memory \in Settings
    /\ dirty \in BOOLEAN
    /\ newest \in 1..MaxRounds /\ exts \in 0..newest
    /\ \A r \in 1..MaxRounds : round[r] \in IF r <= newest THEN Aggregation ELSE {NotBegun}
    /\ arrived \subseteq Ext /\ stubbed \subseteq Frozen
    /\ \A c \in Client : clients[c] \in Process \cup {NoProcess}

-----------------------------------------------------------------------------
\* The entry.env of the scanned manifest.
Declared(e) == [k \in declared[e] |-> "manifest"]

\* The copy of the round: inject_ext_settings (inject_websearch_env alike)
\* and the language, under the exact keys, over what the manifest has there.
Injected(e, given) ==
    LET added == {<<"LANG", "exact">>} \cup
                 IF e \in Adjustable /\ given.cfg # "none" THEN {<<"CFG", "exact">>} ELSE {}
    IN [k \in declared[e] \cup added |->
          IF k \notin added THEN "manifest"
          ELSE IF k[1] = "LANG" THEN given.lang ELSE given.cfg]

\* filter_env_overrides.
Kept(env) == Restrict(env, {k \in DOMAIN env : k[1] # "PATH"})

\* Command::envs takes the keys in the order of the map, where the exact key,
\* in capitals, comes before every other spelling: the last one stays.
Started(env) ==
    [v \in Variable |->
        CASE <<v, "other">> \in DOMAIN Kept(env) -> Kept(env)[<<v, "other">>]
          [] <<v, "exact">> \in DOMAIN Kept(env) /\ <<v, "other">> \notin DOMAIN Kept(env)
               -> Kept(env)[<<v, "exact">>]
          [] OTHER -> "host"]

Begin(given, earlier) ==
    [at |-> "lang", given |-> given, specs |-> "zh_cn", todo |-> Ext,
     alone |-> \A r \in 1..MaxRounds : earlier[r].at \in {"none", "collect", "over"}]

\* main.rs begins the first round; stubs may be left from an earlier session.
Init ==
    /\ declared \in Declares
    /\ settings \in Choices
    /\ dirty = FALSE
    /\ newest = 1
    /\ LET none == [r \in 1..MaxRounds |-> NotBegun]
       IN round = [none EXCEPT ![1] = Begin(settings, none)]
    /\ exts = 0
    /\ arrived = {}
    /\ clients = [c \in Client |-> NoProcess]
    /\ memory = [lang |-> "zh_cn", cfg |-> "none"]
    /\ stubbed \in SUBSET Frozen

-----------------------------------------------------------------------------
\* The settings page.
Change ==
    /\ \E s \in Choices \ {settings} : settings' = s
    /\ dirty' = TRUE
    /\ UNCHANGED <<declared, round, newest, exts, arrived, clients, memory, stubbed>>

Restart ==
    /\ newest < MaxRounds
    /\ newest' = newest + 1
    /\ round' = [round EXCEPT ![newest'] = Begin(settings, round)]
    /\ UNCHANGED <<declared, settings, exts, arrived, clients, memory, stubbed>>

\* Leaving the page; a retry, an import or a refresh restarts without it.
SettingsLeft == dirty /\ dirty' = FALSE /\ Restart
Retry == Restart /\ UNCHANGED dirty

Step(r, from, to) == round[r].at = from /\ round' = [round EXCEPT ![r].at = to]

\* i18n::set_lang.
SetLang(r) ==
    /\ Step(r, "lang", "scan")
    /\ memory' = [memory EXCEPT !.lang = round[r].given.lang]
    /\ UNCHANGED <<declared, settings, dirty, newest, exts, arrived, clients, stubbed>>

\* load_extension_sources, and apply_aggregate_meta of what it sends: the
\* manifests as they were scanned, and built-in specs in the global language.
Meta(r) ==
    /\ round[r].at = "scan"
    /\ round' = [round EXCEPT ![r].at = "inject", ![r].specs = memory.lang]
    /\ exts' = IF r = newest THEN r ELSE exts
    /\ arrived' = IF r = newest THEN {} ELSE arrived
    /\ UNCHANGED <<declared, settings, dirty, newest, clients, memory, stubbed>>

\* set_configured_engines_json and set_configured_blocklist.
Inject(r) ==
    /\ Step(r, "inject", "collect")
    /\ memory' = [memory EXCEPT !.cfg = round[r].given.cfg]
    /\ UNCHANGED <<declared, settings, dirty, newest, exts, arrived, clients, stubbed>>

-----------------------------------------------------------------------------
\* The clients of the vector, and those of one extension; which of several of
\* them the vector yields first is left open.
Pooled == {c \in Client : clients[c].at = "pool"}
PooledOf(e) == {c \in Pooled : clients[c].ext = e}

\* evict_warm: one client of each extension that is to be released.
Victims == {V \in SUBSET Pooled : \A c, d \in V : clients[c].ext = clients[d].ext => c = d}

Without(gone) == [c \in Client |-> IF c \in gone THEN NoProcess ELSE clients[c]]
New(e, by, of, env, at) ==
    [ext |-> e, by |-> by, of |-> of, env |-> env, at |-> at, outlived |-> 0]

\* Mutant: what arrives is added to what is there.
AllSurvive(r) == clients

\* The first result releases the whole vector, and only the vector.
Survivors(r) ==
    IF arrived # {} THEN clients
    ELSE [c \in Client |-> IF clients[c].at = "thread" THEN [clients[c] EXCEPT !.outlived = r]
                           ELSE NoProcess]

\* apply_aggregate_ext of a result without a process, and of one with; what an
\* older round sends is dropped with its channel.
ArriveStub(r, e) ==
    IF r = newest
    THEN arrived' = arrived \cup {e} /\ clients' = Survivors(r)
    ELSE UNCHANGED <<arrived, clients>>

Arrive(r, e, env) ==
    IF r = newest
    THEN /\ arrived' = arrived \cup {e}
         /\ \E c \in Client :
               /\ Survivors(r)[c] = NoProcess
               /\ clients' = [Survivors(r) EXCEPT ![c] = New(e, "round", r, env, "pool")]
    ELSE UNCHANGED <<arrived, clients>>

\* load_one: a stub on disk stands for the process; otherwise it is started
\* with the environment of the round, and may fail.  A frozen extension that
\* answered leaves a stub, if it can be written.
Collect(r, e) ==
    /\ round[r].at = "collect" /\ e \in round[r].todo
    /\ round' = [round EXCEPT ![r].todo = @ \ {e}]
    /\ \/ ArriveStub(r, e) /\ UNCHANGED stubbed
       \/ /\ e \notin stubbed
          /\ Arrive(r, e, Started(Injected(e, round[r].given)))
          /\ stubbed' \in {stubbed, stubbed \cup ({e} \cap Frozen)}
    /\ UNCHANGED <<declared, settings, dirty, newest, exts, memory>>

\* finish_aggregation, of the newest round, counts the clients of the vector in
\* and releases those beyond the capacity.
Done(r) ==
    /\ round[r].todo = {} /\ Step(r, "collect", "over")
    /\ IF r = newest THEN arrived' = {} /\ \E V \in Victims : clients' = Without(V)
                     ELSE UNCHANGED <<arrived, clients>>
    /\ UNCHANGED <<declared, settings, dirty, newest, exts, memory, stubbed>>

-----------------------------------------------------------------------------
(* Calls.  That an extension which is busy is not called again is for      *)
(* WarmPool; here any number of its clients may be with threads at once.   *)

\* start_invoke, start_fetch_page and start_fallback take the client along.
Take(c) ==
    /\ c \in Pooled
    /\ clients' = [clients EXCEPT ![c].at = "thread"]
    /\ UNCHANGED <<declared, settings, dirty, round, newest, exts, arrived, memory, stubbed>>

\* start_invoke_reheat and fetch_page_reheat: find_ext, then open in a thread.
Reheat(e) ==
    /\ exts # 0 /\ PooledOf(e) = {}
    /\ \E c \in Client :
          /\ clients[c] = NoProcess
          /\ clients' = [clients EXCEPT ![c] =
                 New(e, "reheat", exts, Started(Declared(e)), "thread")]
    /\ UNCHANGED <<declared, settings, dirty, round, newest, exts, arrived, memory, stubbed>>

\* store_warm_process: back into the vector, whatever rounds there were since;
\* the extension that was used least may have to leave.
GiveBack(c) ==
    /\ clients[c].at = "thread"
    /\ \E V \in Victims :
          /\ \A v \in V : V = {v} /\ clients[v].ext # clients[c].ext
          /\ clients' = [Without(V) EXCEPT ![c].at = "pool"]
    /\ UNCHANGED <<declared, settings, dirty, round, newest, exts, arrived, memory, stubbed>>

\* A process that has exited, whose reheat failed or whose call hangs is not
\* given back; drop_source_to_stub then empties the vector of its extension.
Lose(c) ==
    /\ clients[c].at = "thread"
    /\ \/ clients' = Without({c})
       \/ clients' = Without({c} \cup PooledOf(clients[c].ext))
    /\ UNCHANGED <<declared, settings, dirty, round, newest, exts, arrived, memory, stubbed>>

\* evict_warm, when the capacity shrinks or the panel is hidden for long, and
\* drop_source_to_stub for a client of the vector that has exited.
Evict ==
    /\ \/ \E V \in Victims : V # {} /\ clients' = Without(V)
       \/ \E c \in Pooled : clients' = Without(PooledOf(clients[c].ext))
    /\ UNCHANGED <<declared, settings, dirty, round, newest, exts, arrived, memory, stubbed>>

Next ==
    \/ Change
    \/ SettingsLeft
    \/ Retry
    \/ \E r \in 1..newest :
          \/ SetLang(r)
          \/ Meta(r)
          \/ Inject(r)
          \/ Done(r)
          \/ \E e \in Ext : Collect(r, e)
    \/ \E e \in Ext : Reheat(e)
    \/ \E c \in Client : Take(c) \/ GiveBack(c) \/ Lose(c)
    \/ Evict

Spec == Init /\ [][Next]_environmentVars

-----------------------------------------------------------------------------
(* Whatever a manifest declares, under whatever spelling, and however its  *)
(* process came to be started, a protected variable is the host's ("比对大小   *)
(* 写不敏感", PROTECTED_ENV_KEYS of process.rs).                              *)
ProtectedIsKept ==
    \A c \in Client : clients[c] # NoProcess => clients[c].env["PATH"] = "host"

(* A process a round started has the language and the configuration of     *)
(* that round, unless its own manifest spells the variable otherwise; and  *)
(* once the newest round is over, what was started from an earlier one is  *)
(* gone, except what was with a thread when its first result came.         *)
RoundConfigures ==
    /\ \A c \in Client : clients[c].by = "round" =>
        LET e == clients[c].ext given == round[clients[c].of].given
        IN  /\ <<"LANG", "other">> \notin declared[e] => clients[c].env["LANG"] = given.lang
            /\ declared[e] \cap {<<"CFG", "exact">>, <<"CFG", "other">>} = {} =>
                 clients[c].env["CFG"] =
                   IF e \in Adjustable /\ given.cfg # "none" THEN given.cfg ELSE "host"
    /\ round[newest].at = "over" => \A c \in Client : clients[c] # NoProcess =>
           clients[c].of = newest \/ clients[c].outlived = newest

(* A round that began when no earlier one could write a global any more    *)
(* leaves the built-in extensions with its settings and texts, and with    *)
(* none of an earlier round.                                               *)
GlobalsFollow ==
    round[newest].alone /\ round[newest].at \in {"collect", "over"} =>
        memory = round[newest].given /\ round[newest].specs = round[newest].given.lang

(* All of what the settings and the host decide about a process, however   *)
(* rounds, reheats and changes of the settings follow each other.          *)
ProcessesAreConfigured == ProtectedIsKept /\ RoundConfigures /\ GlobalsFollow

(* "回传的 `exts` 已含注入，桩复热/后续 spawn 沿用同一环境" (spawn_aggregation): a  *)
(* process that is started later gets what the round injected.             *)
ReheatKeepsEnvironment ==
    \A c \in Client : clients[c].by = "reheat" =>
        clients[c].env = Started(Injected(clients[c].ext, round[clients[c].of].given))
=============================================================================
