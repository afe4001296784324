\* The pool without Tasks: one poison stops two threads.
CONSTANTS
  Owner = owner
  Clients = {c}
  Processors = {c}
  Threads = {w1, w2}
  Tasks = {}
  Poison = poison
  Capacity = 8
  Room = 6
  MaxSem = 2
  None = None
SPECIFICATION Spec
INVARIANTS ExitStopsOne
