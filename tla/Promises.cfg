\* One DOCX file with a link beside a picture, and the inputs of five stages.
SPECIFICATION PromisesSpec
CONSTANTS
    MaxPages = 2
    MaxSheets = 2
    MaxRows = 5
    MaxCells = 8
    MaxEntries = 2
    MaxExpanded = 8
    MaxRatio = 2
    MinChars = 10
    MinSide = 2
    Width = 8
    RowGap = 1
    Files <- MCLinkedFiles
    IdleFile <- MCLinkedFile
    Inputs <- MCPromisedInputs
    MaxVisionCalls = 2
    MaxVisionTokens = 3
    VisionMaxTokens = 2
    ParseTime = 2
    MaxTries = 2
    Failed = Failed
    Error = Error
    MaxSearches = 3
    Gone = Gone
    Open = Open
    PreviewChars = 12
    PreviewBlocks = 3
    PreviewRows = 4
    PreviewCells = 6
    MaxPixels = 2
    Unset = Unset
    MostAsked = 3
    MostSearches = 3
    Unusable = Unusable
    PageParts = 8
    MostPixels = 24
    RowTolerance = 1
    WordGap = 2
    MaxRegions = 2
INVARIANT SomePromiseKept
CHECK_DEADLOCK FALSE
