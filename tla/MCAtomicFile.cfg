CONSTANTS
  w1 = w1
  w2 = w2
  d1 = d1
  d2 = d2
  i1 = i1
  i2 = i2
  i3 = i3
  Writer <- MCWriter
  Data <- MCData
  Inode <- MCInode
  NoWriter = NoWriter
  NoInode = NoInode
  Absent = Absent
  Empty = Empty
  Torn = Torn
SPECIFICATION AtomicSpec
SYMMETRY MCSymmetry
INVARIANT FileInv
INVARIANT NeverTorn
INVARIANT SyncedVersionSurvives
PROPERTY ImplementsDurableFile
