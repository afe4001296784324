---------------------------- MODULE MCTaskThread ----------------------------
(* TaskThread for TLC.  Functions that run on the first executor may post   *)
(* to the second, and get their Tasks back from it.                         *)
EXTENDS TaskThread, TLC

CONSTANTS e1, e2

MCSends == {<<e1, e2>>}
=============================================================================
