CONSTANT NBuf = 4
SPECIFICATION LoopsSpec
INVARIANT LoopsFindVictim
PROPERTY LoopsEnd
CHECK_DEADLOCK FALSE
