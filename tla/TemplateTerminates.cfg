SPECIFICATION StartupSpec
CONSTANT
    MaxFileChanges = 1
INVARIANTS
    TemplateReported
CHECK_DEADLOCK FALSE
