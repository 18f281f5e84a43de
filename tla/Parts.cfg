CONSTANTS
    Time = {t1, t2}
    BadTime = {bad}
    Site = {s1, s2}
    Unset = unset
    Direct = {"TAI"}
    Plain = {"PL"}
    Arguments = {"RLONG"}
    LastYear = 2101
    Degrees = {0, 7, 23, 59, 123, 359}
    Sixtieths = {0, 9, 59}
    Millis = {0, 4, 5, 10, 994, 995, 999}
    Text = {f, g}
    Image = {h}
    Lines <- TextLines
    NoValue = none
    NumFits = 2
    StarsOf = 4
    nitem = 2
    itmax = 5
    MaxRows = 2
    MaxCols = 2
    Masks <- FewMasks
    MaxImages = 3
    Garbage = 0
    wdim = 4
    hdim = 3
    area0 = 3
    area1 = 8
    Memory = {0}
    Pictures <- BelowOnly
    MaxQueue = 3
    MaxThreads = 6
    Prompt = TRUE
    Thread = {w1, w2}
    Slots = 3
    Cap = 3
    LineLen = 2
    MaxLines = 5
    NumFrames = 4
    PerFrame = 2
    MaxCans = 3
    MINFRAME = 3
    Col = {1, 4}
    Row = {1}
    BADCNT = 4
    MaxObjects = 4
    LastDay = 2
SPECIFICATION Spec
INVARIANTS CachedIsCurrent CacheIsClosed DatesConvert TextReadsBack InverseInverts
    FitFindsCoefficients ItemsFillTheBuffers ModelOfItsFrame ValidIsOneSource
    ReadsBack PixelsCountedOnce ReducedFromItself OneObjectPerPoint OnlyHotFilesRemoved
    LinkIsTended WireHoldsLines
PROPERTIES LeapSeconds SavedMarksComeBack
CHECK_DEADLOCK FALSE
