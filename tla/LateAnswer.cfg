\* Two load requests: the answer to the first is being stored when the lock of the
\* second is made.
CONSTANT Requests = {1, 2}
SPECIFICATION IOSSpec
INVARIANTS WaitsForItsAnswer
CHECK_DEADLOCK FALSE
