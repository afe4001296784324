---------------------------- MODULE MCServiceMgr ----------------------------
(* ServiceMgr for TLC: configurations of classes.                           *)
EXTENDS ServiceMgr, TLC

(* Sequences of different classes of S.                                    *)
Lists(S) == UNION {{q \in [1..n -> S] : IsInjective(q)} : n \in 0..Cardinality(S)}

(* Three classes, one of which may derive from another, and every way to   *)
(* depend on the others; no frame thread.                                  *)
Three == 1..3
OneBase ==
  {b \in [Three -> Three \cup {0}] :
     Cardinality({c \in Three : b[c] # 0}) <= 1 /\ \A c \in Three : b[c] # c}
AllDeps == {f \in [Three -> Lists(Three)] : \A c \in Three : c \notin ToSet(f[c])}
GraphConfigurations ==
  {[objects |-> Three, base |-> b, deps |-> d, frameService |-> 0] :
     b \in OneBase, d \in AllDeps}

(* The third service owns the frame thread: it depends on another one, of  *)
(* services that depend on each other or derive from one class; or it      *)
(* depends on nothing, and another one on it.                              *)
FrameConfigurations ==
  {[objects |-> Three, frameService |-> 3,
    base |-> <<0, 0, 0>>, deps |-> << <<2>>, <<>>, <<1>> >>],
   [objects |-> Three, frameService |-> 3,
    base |-> <<0, 1, 1>>, deps |-> << <<>>, <<>>, <<2>> >>],
   [objects |-> Three, frameService |-> 3,
    base |-> <<0, 0, 0>>, deps |-> << <<3>>, <<>>, <<>> >>]}

AllConfigurations == GraphConfigurations \cup FrameConfigurations
=============================================================================
