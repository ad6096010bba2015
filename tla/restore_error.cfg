SPECIFICATION Spec
CONSTANTS Dirs <- MCDirs
INVARIANT ReadErrorReported
CHECK_DEADLOCK FALSE
