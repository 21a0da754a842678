------------ MODULE MCHost ------------
(* The host's side of an extension, part by part, for TLC: the inbound     *)
(* queue, the ledger of trust, the cached stubs, the scan of manifests, the *)
(* framing and serving of lines, the extensions of this process, and what   *)
(* the others find in their environment. The parts share no variable in the *)
(* code; each behaviour is one part's.                                      *)
EXTENDS InboundGate, TLC

CONSTANTS
  message, Ext, FirstParty, Signed, Manifest, Manifests, Program, MaxVersion,
  Frozen, Release, Round, Id, BuiltinIds, Slots, MaxBytes, Stream, HasPages,
  MaxRequests, MaxOwn, ServeEffects, MaxCalls, RequestsCap, BusCap,
  CallEffects, MaxRounds, Fallback, Declarations, Choices, Client, b

\* Extension b has fallbacks from its second release on.
MCFallback == {<<b, 2>>}

ASSUME HostAssumption ==
  /\ Fallback \subseteq Frozen \X Release
  /\ MaxVersion \in Nat \ {0} /\ MaxRounds \in Nat \ {0}
  /\ MaxRequests \in Nat /\ MaxOwn \in Nat /\ ServeEffects \in Nat
  /\ Slots \in Nat /\ MaxBytes \in Nat /\ Stream \in Nat
  /\ Declarations \subseteq [Ext -> SUBSET ({"PATH", "LANG", "CFG"} \X {"exact", "other"})]
  /\ Choices \subseteq [lang : {"zh_cn", "en_us"}, cfg : {"none", "set"}]
  /\ MaxCalls \in Nat /\ RequestsCap \in Nat /\ BusCap \in Nat /\ CallEffects \in Nat

Flaws == {{}, {"OtherPlatform", "EntryNotExecutable"}, {"HostTooOld", "ParseError"}}
Alike == Permutations(Program) \cup Permutations(Client)
\* The ledger of trust is checked in four parts: a packaged extension over two
\* releases, a packaged one and another with two writers of their one ledger,
\* one with signatures, and one whose manifest is rewritten.
Strangers == Ext \ FirstParty
\* Manifests that declare the variables of the host, one with its spelling of
\* the language and one with another.
MCDeclared ==
  LET keys == {{<<"LANG", "exact">>, <<"PATH", "other">>},
               {<<"PATH", "exact">>, <<"LANG", "other">>, <<"CFG", "other">>}}
  IN {f \in [Ext -> keys] : \E e \in Ext, x \in Ext : f[e] # f[x]}
MCChoices == {[lang |-> "zh_cn", cfg |-> "none"], [lang |-> "en_us", cfg |-> "set"]}

VARIABLES
  part,  \* the part this behaviour is about, the same throughout
  file, version, ledger, ui, bg, offered, loaded, starting, runs, allowed,
  decided, firstPin,
  disk, installed, task,
  user, packaged, scanExts, skipped,
  buf, poisoned, frames, framingReceived,
  stdin, chunk, should_exit, running, outputs, REQ_ID, stdout, asked,
  answered, sent, own,
  state, slot, threads, waiting, calls, ended, ran, inprocReported,
  declared, settings, dirty, round, newest, envExts, arrived, clients, memory,
  stubbed

Trust == INSTANCE TrustLedger WITH
  Ext <- FirstParty, Overlap <- FALSE
Stubs == INSTANCE FrozenCache
Scan == INSTANCE ManifestScan WITH
  exts <- scanExts
Framing == INSTANCE Framing WITH
  received <- framingReceived
Serve == INSTANCE ServeLoop WITH
  MaxEffects <- ServeEffects
Inproc == INSTANCE InProcess WITH
  reported <- inprocReported, MaxEffects <- CallEffects
Env == INSTANCE ProcessEnvironment WITH
  exts <- envExts, Frozen <- FirstParty, Adjustable <- Strangers,
  Declares <- Declarations
Shared == INSTANCE TrustLedger WITH
  Program <- {"only"}, MaxVersion <- 1, Overlap <- TRUE
Stranger == INSTANCE TrustLedger WITH
  Ext <- Strangers, FirstParty <- {}, Signed <- Strangers, Overlap <- TRUE
Rewritten == INSTANCE TrustLedger WITH
  Ext <- Strangers, FirstParty <- {}, Manifest <- Manifests, Overlap <- TRUE

inboundVars == <<
  queue, cut, owing, overflown, dropped, swapping, received, last, reported>>
trustVars == <<
  file, version, ledger, ui, bg, offered, loaded, starting, runs, allowed,
  decided, firstPin>>
stubsVars == <<
  disk, installed, task>>
scanVars == <<
  user, packaged, scanExts, skipped>>
framingVars == <<
  buf, poisoned, frames, framingReceived>>
serveVars == <<
  stdin, chunk, should_exit, running, outputs, REQ_ID, stdout, asked,
  answered, sent, own>>
inprocVars == <<
  state, slot, threads, waiting, calls, ended, ran, inprocReported>>
envVars == <<
  declared, settings, dirty, round, newest, envExts, arrived, clients, memory,
  stubbed>>

Idle == "idle"

TrustStart ==
  IF part = "trust" THEN Trust!Init
  ELSE IF part = "shared" THEN Shared!Init
  ELSE IF part = "stranger" THEN Stranger!Init
  ELSE IF part = "rewritten" THEN Rewritten!Init
  ELSE /\ file = Idle /\ version = Idle /\ ledger = Idle /\ ui = Idle
       /\ bg = Idle /\ offered = Idle /\ loaded = Idle /\ starting = Idle
       /\ runs = Idle /\ allowed = Idle
       /\ decided = Idle /\ firstPin = Idle
StubsStart ==
  IF part = "stubs" THEN Stubs!Init
  ELSE /\ disk = Idle /\ installed = Idle /\ task = Idle
ScanStart ==
  IF part = "scan" THEN Scan!Init
  ELSE /\ user = Idle /\ packaged = Idle /\ scanExts = Idle
       /\ skipped = Idle
FramingStart ==
  IF part = "framing" THEN Framing!Init
  ELSE /\ buf = Idle /\ poisoned = Idle /\ frames = Idle
       /\ framingReceived = Idle
ServeStart ==
  IF part = "serve" THEN Serve!Init
  ELSE /\ stdin = Idle /\ chunk = Idle /\ should_exit = Idle
       /\ running = Idle /\ outputs = Idle /\ REQ_ID = Idle /\ stdout = Idle
       /\ asked = Idle /\ answered = Idle /\ sent = Idle /\ own = Idle
InprocStart ==
  IF part = "inproc" THEN Inproc!Init
  ELSE /\ state = Idle /\ slot = Idle /\ threads = Idle /\ waiting = Idle
       /\ calls = Idle /\ ended = Idle /\ ran = Idle
       /\ inprocReported = Idle
EnvStart ==
  IF part = "env" THEN Env!Init
  ELSE /\ declared = Idle /\ settings = Idle /\ dirty = Idle /\ round = Idle
       /\ newest = Idle /\ envExts = Idle /\ arrived = Idle /\ clients = Idle
       /\ memory = Idle /\ stubbed = Idle

HostInit ==
  /\ part \in {"inbound", "trust", "stubs", "scan", "framing", "serve", "inproc", "env", "shared",
               "stranger", "rewritten"}
  /\ Init /\ TrustStart /\ StubsStart /\ ScanStart /\ FramingStart
  /\ ServeStart /\ InprocStart /\ EnvStart

HostNext ==
  /\ UNCHANGED part
  /\ \/ /\ part = "inbound" /\ Next
        /\ UNCHANGED <<trustVars, stubsVars, scanVars, framingVars, serveVars,
          inprocVars, envVars>>
     \/ /\ part = "trust" /\ Trust!Next
        /\ UNCHANGED <<inboundVars, stubsVars, scanVars, framingVars, serveVars,
          inprocVars, envVars>>
     \/ /\ part = "stubs" /\ Stubs!Next
        /\ UNCHANGED <<inboundVars, trustVars, scanVars, framingVars, serveVars,
          inprocVars, envVars>>
     \/ /\ part = "scan" /\ Scan!Scan
        /\ UNCHANGED <<inboundVars, trustVars, stubsVars, framingVars, serveVars,
          inprocVars, envVars>>
     \/ /\ part = "framing" /\ Framing!Next
        /\ UNCHANGED <<inboundVars, trustVars, stubsVars, scanVars, serveVars,
          inprocVars, envVars>>
     \/ /\ part = "serve" /\ Serve!Next
        /\ UNCHANGED <<inboundVars, trustVars, stubsVars, scanVars, framingVars,
          inprocVars, envVars>>
     \/ /\ part = "inproc" /\ Inproc!Next
        /\ UNCHANGED <<inboundVars, trustVars, stubsVars, scanVars, framingVars,
          serveVars, envVars>>
     \/ /\ part = "env" /\ Env!Next
        /\ UNCHANGED <<inboundVars, trustVars, stubsVars, scanVars, framingVars,
          serveVars, inprocVars>>
     \/ /\ part = "shared" /\ Shared!Next
        /\ UNCHANGED <<inboundVars, stubsVars, scanVars, framingVars, serveVars,
          inprocVars, envVars>>
     \/ /\ part = "stranger" /\ Stranger!Next
        /\ UNCHANGED <<inboundVars, stubsVars, scanVars, framingVars, serveVars,
          inprocVars, envVars>>
     \/ /\ part = "rewritten" /\ Rewritten!Next
        /\ UNCHANGED <<inboundVars, stubsVars, scanVars, framingVars, serveVars,
          inprocVars, envVars>>

hostVars == <<part, inboundVars, trustVars, stubsVars, scanVars, framingVars,
  serveVars, inprocVars, envVars>>

HostSpec == HostInit /\ [][HostNext]_hostVars

\* The variables of the part at work have their types.
HostTypesOK ==
  CASE part = "inbound" -> TypeOK
    [] part = "trust" -> Trust!TypeOK
    [] part = "stubs" -> Stubs!TypeOK
    [] part = "scan" -> Scan!TypeOK
    [] part = "framing" -> Framing!TypeOK
    [] part = "serve" -> Serve!TypeOK
    [] part = "inproc" -> Inproc!TypeOK
    [] part = "env" -> Env!TypeOK
    [] part = "shared" -> Shared!TypeOK
    [] part = "stranger" -> Stranger!TypeOK
    [] part = "rewritten" -> Rewritten!TypeOK

\* No program is started that nobody and no signature vouched for, a release
\* that vouches for its own files does so once (trust.rs, spawn.rs), and a
\* process has the settings of the round that started it and the protected
\* variables of the host (aggregate_job.rs, process.rs).
StartsAsDecided ==
  /\ part = "trust" => Trust!NothingRunsUnasked /\ Trust!OnePinPerRelease
  /\ part = "shared" => Shared!NothingRunsUnasked
  /\ part = "stranger" => Stranger!NothingRunsUnasked
  /\ part = "rewritten" => Rewritten!NothingRunsUnasked
  /\ part = "env" => Env!ProcessesAreConfigured

\* A stub read from the cache is one its own extension wrote, and the host
\* leaves none of an extension that must be started to be asked for its
\* fallbacks (cache.rs, spawn.rs).
StubsAreSound ==
  /\ part = "stubs" => Stubs!StubsAreTheirOwn
  /\ part = "stubs" => Stubs!NoStubHidesFallbacks

\* What comes in is taken or reported: a manifest is loaded, superseded or
\* named with its reason (manifest.rs), and what the decoder returns is the
\* lines that came, however they were cut into reads (framing.rs).
NothingVanishes ==
  /\ part = "scan" => Scan!NothingVanishes
  /\ part = "framing" => Framing!FramesAreTheLines

\* The serving loop answers every line that carries an id, once and in order,
\* and what was not a request never comes back (lib.rs of dd-ext).
AnswersWhatWasAsked ==
  /\ part = "serve" => Serve!NoEcho
  /\ part = "serve" => Serve!AnswersInOrder

\* The calls an in-process extension completes are the answers the client
\* hands back (ext_client.rs).
RunsWhatWasReturned == part = "inproc" => Inproc!RunsWhatWasReturned
=============================================================================
