------------------------------ MODULE WebSearch ------------------------------
(***************************************************************************)
(* The web search extension (crates/dd-ext/src/builtins/websearch.rs): one *)
(* command and one fallback per engine, named by the slug of the engine's  *)
(* name.  The engines come from the settings, handed over in memory before *)
(* a round of aggregation, from the environment, or from a built-in table; *)
(* every call reads and parses them anew.                                  *)
(***************************************************************************)
EXTENDS Naturals, Sequences, SequencesExt

CONSTANTS
    Name,           \* names of engines
    Slug,           \* slugify: a name's words, <<"engine">> when none is left
    Unsound,        \* the names configured with a template of no use
    BuiltIn,        \* the names of builtin_engines, in order
    Env,            \* what the environment of the process may hold
    Longest         \* bound: engines in one configuration

\* What the host or the environment may hold: nothing, text that is no JSON
\* array, or an array.
Nothing == [kind |-> "none", list |-> <<>>]
Config == {Nothing, [kind |-> "broken", list |-> <<>>]}
          \cup [kind : {"array"}, list : SeqOf(Name, Longest)]
NoEntry == [name |-> "-", suffix |-> <<>>]

VARIABLES
    configured,     \* CONFIGURED_ENGINES_JSON
    env,            \* DD_WEBSEARCH_ENGINES of this process
    shown,          \* the listed entry the user is about to choose
    went            \* the last invoke: the engine shown, the one opened, the page

webVars == <<configured, env, shown, went>>

TypeOK ==
    /\ configured \in Config /\ env \in Env
    /\ shown.name \in Name \cup {"-"}
    /\ went.page \in {"-", "toast", "home", "search"}

Init ==
    /\ configured = Nothing
    /\ env \in Env
    /\ shown = NoEntry
    /\ went = [shown |-> "-", opened |-> "-", page |-> "-"]

-----------------------------------------------------------------------------
\* The suffix of the n-th try for a slug: the slug, then slug-2, slug-3, ...
Candidate(slug, n) == IF n = 1 THEN slug ELSE Append(slug, n)

\* A mutant: the n-th engine of a slug gets the n-th candidate.
DedupeCounting(names) ==
    [i \in DOMAIN names |->
        [name |-> names[i],
         suffix |-> Candidate(Slug[names[i]],
                              Len(SelectSeq(SubSeq(names, 1, i),
                                            LAMBDA n : Slug[n] = Slug[names[i]])))]]

\* An engine after those chosen: it takes the first candidate not used yet.
Chosen(before, name) ==
    LET used == {before[j].suffix : j \in DOMAIN before}
        free(n) == Candidate(Slug[name], n) \notin used
        n == CHOOSE n \in 1..(Len(before) + 1) : free(n) /\ \A k \in 1..(n - 1) : ~free(k)
    IN [name |-> name, suffix |-> Candidate(Slug[name], n)]

\* dedupe_suffixes: engine by engine.
Dedupe(names) ==
    LET pick[i \in 0..Len(names)] ==
          IF i = 0 THEN <<>> ELSE Append(pick[i - 1], Chosen(pick[i - 1], names[i]))
    IN pick[Len(names)]

\* filter_map: the engines with a template of some use.
Sound(names) ==
    LET kept[i \in 0..Len(names)] ==
          IF i = 0 THEN <<>>
          ELSE IF names[i] \in Unsound THEN kept[i - 1] ELSE Append(kept[i - 1], names[i])
    IN kept[Len(names)]

\* engines_from_json: an empty array means no engines; an array in which no
\* engine is sound counts as no array.
IsEngines(config) == /\ config.kind = "array"
                     /\ config.list = <<>> \/ \E i \in DOMAIN config.list : config.list[i] \notin Unsound
FromJson(config) == Dedupe(Sound(config.list))

\* resolve_engines, active_engines.
Active ==
    LET config == IF configured # Nothing THEN configured ELSE env
    IN IF IsEngines(config) THEN FromJson(config) ELSE Dedupe(BuiltIn)

\* The engine an id names: the first whose command or fallback has that id.
Named(engines, suffix) == SelectInSeq(engines, LAMBDA e : e.suffix = suffix)

-----------------------------------------------------------------------------
\* set_configured_engines_json: the round of aggregation hands them over.
Inject == /\ configured' \in Config
          /\ UNCHANGED <<env, shown, went>>

\* top_level_commands and fallback_commands: the user will choose one.
List == /\ \E i \in DOMAIN Active : shown' = Active[i]
        /\ UNCHANGED <<configured, env, went>>

\* handle_invoke of the entry, with or without words to search for.
Invoke(words) ==
    LET at == Named(Active, shown.suffix) IN
    /\ shown # NoEntry
    /\ went' = IF at = 0 THEN [shown |-> shown.name, opened |-> "-", page |-> "toast"]
               ELSE [shown |-> shown.name, opened |-> Active[at].name,
                     page |-> IF words THEN "search" ELSE "home"]
    /\ UNCHANGED <<configured, env, shown>>

Next ==
    \/ Inject
    \/ List
    \/ \E words \in BOOLEAN : Invoke(words)

Spec == Init /\ [][Next]_webVars

-----------------------------------------------------------------------------
(* Whatever the names are, every engine is found under its own id: slugs   *)
(* that coincide, names without a letter, and names that end in a number   *)
(* another slug is given, do not hide one engine behind another.           *)
IdsFindTheirEngine == \A i \in DOMAIN Active : Named(Active, Active[i].suffix) = i

(* An entry opens the engine it shows, or a message.                       *)
OpensWhatItShows == went.page \in {"home", "search"} => went.opened = went.shown
=============================================================================
