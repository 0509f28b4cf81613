CONSTANT MaxTracks = 3
SPECIFICATION Spec
INVARIANT QueueInv
PROPERTY PeekIsNext
PROPERTY LapPlaysEachOnce
