\* The pool of Tasks: four Tasks that may be in flight on a pool of three objects,
\* within its size and beyond it, where the grow path and the null pop happen.  The
\* memory tracker: two threads, two blocks that share a bucket, and as many records
\* as reused addresses can need.  The reader: every text of up to four bytes,
\* of which four letters in a line are one more than s_TmpArea has room for.
CONSTANTS
  Holders = {h1, h2, h3, h4}
  Heap = {o1, o2, o3, o4, o5}
  N = 3
  NoObj = NoObj
  Threads = {a, b}
  Addrs = {16, 32}
  Infos = {i1, i2, i3}
  Sizes = {1, 2}
  TableSize = 1
  Null = Null
  Texts <- MCTexts
  MaxCount = 2
  TmpSize = 4
SYMMETRY Symmetry
SPECIFICATION MCSpec
INVARIANTS
  ExclusiveOwnership NoNullTask NothingLost RecordsAreAccounted EveryBlockIsRecorded
  NoByteLost MessagesSurvive HelpersAgree
\* The process ends after Free, or crashes; the reader at the end of the text.
CHECK_DEADLOCK FALSE
