SPECIFICATION LuaSpec
CONSTANTS
    Files <- MCLuaFiles
    Script <- MCScript
    MaxReads = 1
    MaxCalls = 0
INVARIANTS
    ViewsAlive
CHECK_DEADLOCK FALSE
