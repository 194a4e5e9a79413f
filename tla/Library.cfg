SPECIFICATION LibrarySpec
CONSTANTS
    Streams <- MCStreams
    Garbage = {0, 200}
    Files <- MCConfigFiles
    MaxReads = 2
    Objects = {o1, o2}
    MaxMessages = 2
    Script <- MCScript
    MaxCalls = 3
    PathChars = {"/", "a", "b"}
    PathUris <- MCPathUris
    PathKeys <- MCPathKeys
    MaxPaths = 4
    ResourceFiles = {"page.html", "logo.png"}
    ResourceType <- MCResourceType
    ResourceTexts <- MCResourceTexts
    MaxLoads = 2
    TemplatePaths = {"p", "q"}
    TemplateTexts = {"old", "new"}
    MaxPasses = 2
    MaxEdits = 3
    LocThreads = {t1, t2}
    Languages = {"en", "de"}
    LocaleDirs = {"x", "y"}
    MaxLocCalls = 5
    PlainTexts = {"old", "new"}
    MaxPairs = 4
    Paths <- MCPaths
    FileTexts = {"old", "new"}
    FileLists <- MCFileLists
    MaxJobs = 3
    MaxChanges = 1
    QrSize = 2
    QrScales = {1, 2}
    QrBorders = {0, 1}
    PngBytes <- MCPngBytes
    Black = 0
    White = 255
INVARIANTS
    LoopTypeOK
    HeadersBackDefined
    FieldsClean
    FirstMessageFound
    ParsedFields
    LastMentionWins
    SilentUnlessOn
    NothingUnwritten
    NoFault
    InitThenRun
    FilesFound
    LoadedTogether
    ReloadSees
    SwitchHolds
    KeyFilesMatch
    DecryptRestores
    UnzipRestores
    RowsAgree
    Base64Decodes
CHECK_DEADLOCK FALSE
