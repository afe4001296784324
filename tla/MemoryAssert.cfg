\* Two threads and two blocks: the debug assertion of Insert.
CONSTANTS
  Threads = {a, b}
  Addrs = {16, 32}
  Infos = {i1, i2, i3}
  Sizes = {1}
  TableSize = 1
  Null = Null
SPECIFICATION TrackSpec
INVARIANTS NewBlockIsUnrecorded
