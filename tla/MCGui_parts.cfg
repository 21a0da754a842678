SPECIFICATION GuiSpec
CONSTANTS
    Ext = {a, b}
    Command <- MCCommand
    Template <- MCTemplate
    App <- MCApp
    Query <- MCQuery
    Score <- MCScore
    a = a
    b = b
    c = c
    x = x
    q = q
    r = r
    MaxUse = 1
    TrayCap = 1
    Clicks = TRUE
    Sessions = 2
    Unread = 1
    Combo = {a, b}
    Default = a
    Windows = TRUE
    Requests = 3
    Cmd = {x, y}
    Custom = host
    Backlog = 1
    MaxSessions = 2
    MaxChanges = 2
    Countdown = 3
    Changes = 5
    Keep = 4
    Size = 2
    MaxLines = 12
CHECK_DEADLOCK FALSE
INVARIANTS
    GuiTypesOK
    MenuActsOnItsRow
    ConfirmRepeatsWhatAsked
    SettingsTakeEffect
    LogIsKept
PROPERTIES
    TrayClickHides
    WrittenOnceRegistered
    UnknownSurvives
