\* Three processes extract two fixtures, with two faults.
CONSTANTS
  w1 = w1  w2 = w2  w3 = w3  t1 = t1  t2 = t2  t3 = t3
  i1 = i1  i2 = i2  i3 = i3  i4 = i4  i5 = i5
  Writer <- MCWriter
  NFixture = 2
  Tmp <- MCTmp
  Inode <- MCInode
  NoInode = NoInode
  Blocks = 2
  MaxEvents = 2
SYMMETRY MCSymmetry
SPECIFICATION Spec
INVARIANTS WholeOrAbsent OkMeansThere
PROPERTIES Unmodified
