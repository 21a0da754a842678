SPECIFICATION ExtensionsSpec
CONSTANTS
    Profile = {chrome, edge}
    Url = {u, v}
    Caller = {first, second}
    MaxEntries = 1
    MarkedLongest = 2
    Writes = 2
    g = g
    x = x
    y = y
    z = z
    google = google
    engine = engine
    Name <- MCName
    Word <- MCWord
    Slug <- MCSlug
    BuiltIn <- MCBuiltIn
    Env <- MCEnv
    Unsound = {y}
    NameLongest = 3
    Installed <- MCInstalled
    Shortcuts <- MCShortcuts
    MaxApps = 3
    Deadline = 2
    PipeSize = 1
    MaxOutput = 2
    Token = {"n", "-", "*", "^", "(", ")"}
    MaxDepth = 2
    SumLongest = 5
    RebuildAfter = 3
    exe = exe
    txt = txt
    File = {exe, txt}
    OwnIcon = {exe}
    Unc = {}
    Escaped = {txt}
    Twin <- MCTwin
    Limit = 2
    Cap = 2
    Threads = 1
    MaxId = 4
    Ext = {calc, other}
    BuiltinIds = {calc}
    Id = {a}
    Capability = {toast, exotic}
    Known = {toast}
    MaxItems = 1
    RecordCap = 2
    MaxBurst = 1
CHECK_DEADLOCK FALSE
INVARIANTS
    ExtensionTypesOK
    FreshIsCurrent
    IdsFindTheirEngine
    LaunchesWhatItShows
    OutputIsWhole
    MeansWhatItSays
    ItemsKeepTheirFile
    SearchRecovers
    GreenIsEarned
