SPECIFICATION FairSpec
CONSTANTS Dirs <- MCDirs
INVARIANTS TypeOK RestoredAll RestoredPrefix
PROPERTY StartEnds
CHECK_DEADLOCK FALSE
