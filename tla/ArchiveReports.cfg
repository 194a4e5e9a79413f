SPECIFICATION ArchivesSpec
CONSTANTS
    Paths <- MCPaths
    FileTexts = {"old", "new"}
    FileLists <- MCFileLists
    MaxJobs = 1
    MaxChanges = 1
INVARIANTS
    CompressedIfTrue
CHECK_DEADLOCK FALSE
