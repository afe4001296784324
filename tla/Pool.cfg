\* The pool of the constructor on its THROW queue, one Task, two thread objects, an
\* owner that creates, removes, stops and joins; the queue has room for one Task's
\* two copies and one poison, or fills up.
CONSTANTS
  Owner = owner
  Clients = {c}
  Processors = {c}
  Threads = {w1, w2}
  Tasks = {t}
  Poison = poison
  Capacity = 3
  Room = 4
  MaxSem = 1
  None = None
SPECIFICATION FairSpec
INVARIANTS ThreadsAreListed JoinsAreCovered
PROPERTIES CallsReturn
\* After an exception or a second use of a Task, and when the owner is done.
CHECK_DEADLOCK FALSE
