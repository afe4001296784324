\* The text of a stream as the name of a file.
CONSTANTS
  Holders = {h1, h2, h3, h4}
  Heap = {o1, o2, o3, o4, o5}
  N = 3
  NoObj = NoObj
  Threads = {a, b}
  Addrs = {16, 32}
  Infos = {i1, i2, i3}
  Sizes = {1, 2}
  TableSize = 1
  Null = Null
  Texts <- MCTexts
  MaxCount = 2
  TmpSize = 4
SPECIFICATION MCSpec
INVARIANTS SplitIsStandardised
CHECK_DEADLOCK FALSE
