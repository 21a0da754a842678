SPECIFICATION HostSpec
CONSTANTS
    message = message
    Body = {message}
    QueueCap = 2
    MaxFrames = 6
    Ext = {first, other}
    FirstParty = {first}
    Signed = {}
    Manifest = {m}
    Manifests = {m, n}
    Program = {p, q}
    MaxVersion = 2
    Frozen = {a, b}
    b = b
    Fallback <- MCFallback
    Declarations <- MCDeclared
    Release = {1, 2}
    Round = {r, s}
    Id = {a, b}
    BuiltinIds = {b}
    Slots = 2
    MaxBytes = 2
    Stream = 6
    HasPages = TRUE
    MaxRequests = 2
    MaxOwn = 1
    ServeEffects = 1
    MaxCalls = 4
    RequestsCap = 2
    BusCap = 1
    CallEffects = 2
    Choices <- MCChoices
    Client = {u, v}
    MaxRounds = 2
SYMMETRY Alike
CHECK_DEADLOCK FALSE
INVARIANTS
    HostTypesOK
    EveryFrameCounted
    StartsAsDecided
    StubsAreSound
    NothingVanishes
    AnswersWhatWasAsked
    RunsWhatWasReturned
