SPECIFICATION LiveSpec
CONSTANTS
    None = None
    Base = 4
    HistorySize = 3
    Readings = {None, 0, 15, 63, 255, 3600}
    Bitrates = {0, 15}
    Totals = {None, 0, 64}
    Dests = {d1}
    MaxCount = 2
    MaxSamples = 2
    MaxCalls = 2
    Ids = {"d1"}
    Metas = {m1, m2}
    BlankMeta = m1
    MaxChanges = 2
    Values = {v1, v2, v3}
    Valid = {v1, v2}
    Default = v1
    MaxUpdates = 2
    Starts = {s1}
INVARIANTS
    TypeOK
    ReadingsTrue
    NumbersTrue
    WordIsTrue
    FeedbackIsTrue
    ItemsAgree
    SettingsHold
PROPERTIES
    RateIsTraffic
    UntouchedFieldsKept
    BusyEnds
