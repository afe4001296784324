-------------------------- MODULE TaskThreadProofs --------------------------
(***************************************************************************)
(* Proofs about TaskThread, for any executors, clients and Tasks, and for  *)
(* callers that keep the contract or do not: its types, that no queue and  *)
(* no thread holds a released Task, that no wake-up is lost, and that a    *)
(* Task goes through TaskLifecycle; and, for callers that keep it, that a  *)
(* stopped executor is clean.                                              *)
(***************************************************************************)
EXTENDS TaskThread, FiniteSetTheorems, WellFoundedInduction, TLAPS

(* A thread has a Task in its hands exactly while it handles or finishes   *)
(* one.                                                                    *)
CurInv ==
  \A e \in Executors : cur[e] \in Tasks <=> pc[e] \in {"handle", "finish"}

TypeInv == TypeOK /\ CurInv

(* The working queue is empty unless the thread drains it, has a Task of   *)
(* it, or has left it at m_Finished for ClearTasks.                        *)
DrainedInv ==
  \A e \in Executors :
    /\ pc[e] \notin {"test", "drain", "handle", "finish", "clearW"} => working[e] = {}
    /\ pc[e] = "test" => finished[e] \/ working[e] = {}

WakeInv == DrainedInv /\ NoLostWakeup

-----------------------------------------------------------------------------
(* A finite set of numbers that is not empty has a greatest element, so    *)
(* TaskQueue::Dequeue takes an element of the queue.                       *)
LEMMA TopIsIn == \A q \in SUBSET Tasks : q # {} => Top(q) \in q
<1>. SUFFICES ASSUME NEW q \in SUBSET Tasks, q # {}
              PROVE \E t \in q : \A u \in q : u <= t
  BY DEF Top
<1>. DEFINE Above(t) == {u \in q : u > t}
            Aboves == {Above(t) : t \in q}
<1>1. IsFiniteSet(q)
  BY TaskThreadAssumption, FS_Subset
<1>2. IsWellFoundedOn(StrictSubsetOrdering(q), SUBSET q)
  BY <1>1, FS_StrictSubsetOrderingWellFounded, FS_FiniteSubsetsOfFinite
<1>3. Aboves \subseteq SUBSET q /\ Aboves # {}
  OBVIOUS
<1>4. PICK A \in Aboves : \A B \in Aboves : <<B, A>> \notin StrictSubsetOrdering(q)
  <2>. HIDE DEF Aboves
  <2>. QED
    BY <1>2, <1>3, WFMin
<1>5. PICK t \in q : A = Above(t)
  OBVIOUS
<1>6. ASSUME NEW u \in q, u > t PROVE FALSE
  <2>1. t \in Nat /\ u \in Nat /\ q \subseteq Nat
    BY TaskThreadAssumption
  <2>a. u \notin Above(u) /\ u \in Above(t)
    BY <2>1, <1>6
  <2>b. \A v \in q : v > u => v > t
    BY <2>1, <1>6
  <2>2. Above(u) \subseteq Above(t) /\ u \in Above(t) /\ u \notin Above(u)
    BY <2>a, <2>b
  <2>3. <<Above(u), Above(t)>> \in StrictSubsetOrdering(q)
    BY <2>2, Zenon DEF StrictSubsetOrdering
  <2>. QED
    BY <2>3, <1>4, <1>5
<1>7. \A u \in q : u \in Nat
  BY TaskThreadAssumption
<1>. QED
  BY <1>6, <1>7

-----------------------------------------------------------------------------
(* The types hold before any executor starts.                              *)
LEMMA InitTypeInv == Init => TypeInv
<1>. SUFFICES ASSUME Init PROVE TypeOK /\ CurInv
  BY DEF TypeInv
<1>1. TypeOK
  BY DEF Init, TypeOK, PCs, Stops, SysActions
<1>2. CurInv
  BY TaskThreadAssumption DEF Init, CurInv
<1>. QED
  BY <1>1, <1>2

(* PostTask of a Task to an executor preserves the types of what it        *)
(* changes.                                                                *)
LEMMA PostTaskTypes ==
  ASSUME TypeOK, NEW a \in Actors, NEW e \in Executors, NEW t \in Tasks, PostTask(a, e, t)
  PROVE  /\ incoming' \in [Executors -> SUBSET Tasks]
         /\ ready' \in [Executors -> BOOLEAN]
         /\ notifying' \in [Actors -> Executors \cup {None}]
         /\ broken' \in BOOLEAN
<1>1. /\ incoming \in [Executors -> SUBSET Tasks]
      /\ ready \in [Executors -> BOOLEAN]
      /\ notifying \in [Actors -> Executors \cup {None}]
      /\ broken \in BOOLEAN
  BY DEF TypeOK
<1>2. \/ /\ incoming' = [incoming EXCEPT ![e] = @ \cup {t}]
         /\ ready' = [ready EXCEPT ![e] = TRUE]
         /\ notifying' = [notifying EXCEPT ![a] = e]
         /\ broken' = broken
      \/ broken' = TRUE /\ UNCHANGED <<incoming, ready, notifying>>
  BY DEF PostTask
<1>3. incoming' \in [Executors -> SUBSET Tasks]
  BY <1>1, <1>2
<1>4. ready' \in [Executors -> BOOLEAN] /\ broken' \in BOOLEAN
  BY <1>1, <1>2
<1>5. notifying' \in [Actors -> Executors \cup {None}]
  BY <1>1, <1>2
<1>. QED
  BY <1>3, <1>4, <1>5

(* Every step preserves the types.                                         *)
LEMMA NextTypeInv == TypeInv /\ [Next]_vars => TypeInv'
<1>. SUFFICES ASSUME TypeInv, [Next]_vars PROVE TypeOK' /\ CurInv'
  BY DEF TypeInv
<1>0. TypeOK /\ CurInv /\ None \notin Tasks /\ None \notin Executors
  BY TaskThreadAssumption DEF TypeInv
<1>1. ASSUME NEW a \in Actors, NEW e \in Executors, Add(a, e) PROVE TypeOK' /\ CurInv'
  <2>1. TypeOK'
    <3>. PICK t \in Tasks \ live, act \in Garbage \cup {"WAIT_NOTIFIER"} :
              /\ live' = live \cup {t}
              /\ home' = [home EXCEPT ![t] = IF a \in Executors THEN a ELSE None]
              /\ action' = [action EXCEPT ![t] = act]
              /\ PostTask(a, e, t)
      BY <1>1 DEF Add
    <3>1. act \in SysActions
      BY TaskThreadAssumption DEF SysActions
    <3>. QED
      BY <1>1, <1>0, <3>1, PostTaskTypes DEF Add, threadVars, TypeOK
  <2>2. CurInv'
    BY <1>1, <1>0, TaskThreadAssumption, SMTT(30) DEF Add, PostTask, threadVars, TypeOK, CurInv
  <2>. QED
    BY <2>1, <2>2
<1>2. ASSUME NEW a \in Actors, Notify(a) PROVE TypeOK' /\ CurInv'
  <2>1. TypeOK'
    BY <1>2, <1>0, SMTT(30) DEF Notify, consumerVars, taskVars, TypeOK, PCs, Stops, SysActions, Actors
  <2>2. CurInv'
    BY <1>2, <1>0, SMTT(30) DEF Notify, consumerVars, taskVars, TypeOK, CurInv
  <2>. QED
    BY <2>1, <2>2
<1>3. ASSUME NEW e \in Executors, Start(e) PROVE TypeOK' /\ CurInv'
  <2>1. TypeOK'
    BY <1>3, <1>0, SMTT(30) DEF Start, consumerVars, taskVars, TypeOK, PCs, Stops, SysActions, Actors
  <2>2. CurInv'
    BY <1>3, <1>0, SMTT(30) DEF Start, consumerVars, taskVars, TypeOK, CurInv
  <2>. QED
    BY <2>1, <2>2
<1>4. ASSUME NEW e \in Executors, ThreadRun(e) PROVE TypeOK' /\ CurInv'
  <2>1. TypeOK'
    BY <1>4, <1>0, SMTT(30) DEF ThreadRun, consumerVars, taskVars, At, Goto, TypeOK, PCs, Stops, SysActions, Actors
  <2>2. CurInv'
    BY <1>4, <1>0, SMTT(30) DEF ThreadRun, consumerVars, taskVars, At, Goto, TypeOK, CurInv
  <2>. QED
    BY <2>1, <2>2
<1>5. ASSUME NEW e \in Executors, TestFinished(e) PROVE TypeOK' /\ CurInv'
  <2>1. TypeOK'
    BY <1>5, <1>0, SMTT(30) DEF TestFinished, consumerVars, taskVars, At, Goto, TypeOK, PCs, Stops, SysActions, Actors
  <2>2. CurInv'
    BY <1>5, <1>0, SMTT(30) DEF TestFinished, consumerVars, taskVars, At, Goto, TypeOK, CurInv
  <2>. QED
    BY <2>1, <2>2
<1>6. ASSUME NEW e \in Executors, Block(e) \/ SpuriousWake(e) PROVE TypeOK' /\ CurInv'
  <2>1. TypeOK'
    BY <1>6, <1>0, SMTT(30) DEF Block, SpuriousWake, consumerVars, taskVars, At, Goto, TypeOK, PCs, Stops, SysActions, Actors
  <2>2. CurInv'
    BY <1>6, <1>0, SMTT(30) DEF Block, SpuriousWake, consumerVars, taskVars, At, Goto, TypeOK, CurInv
  <2>. QED
    BY <2>1, <2>2
<1>7. ASSUME NEW e \in Executors, Reload(e) PROVE TypeOK' /\ CurInv'
  <2>1. TypeOK'
    BY <1>7, <1>0, SMTT(30) DEF Reload, taskVars, At, Goto, TypeOK, PCs, Stops, SysActions, Actors
  <2>2. CurInv'
    BY <1>7, <1>0, SMTT(30) DEF Reload, taskVars, At, Goto, TypeOK, CurInv
  <2>. QED
    BY <2>1, <2>2
<1>8. ASSUME NEW e \in Executors, LeaveDrain(e) PROVE TypeOK' /\ CurInv'
  <2>1. TypeOK'
    BY <1>8, <1>0, SMTT(30) DEF LeaveDrain, consumerVars, taskVars, At, Goto, TypeOK, PCs, Stops, SysActions, Actors
  <2>2. CurInv'
    BY <1>8, <1>0, SMTT(30) DEF LeaveDrain, consumerVars, taskVars, At, Goto, TypeOK, CurInv
  <2>. QED
    BY <2>1, <2>2
<1>9. ASSUME NEW e \in Executors, Dequeue(e) PROVE TypeOK' /\ CurInv'
  <2>1. TypeOK'
    BY <1>9, <1>0, TopIsIn, SMTT(30) DEF Dequeue, taskVars, At, Goto, TypeOK, PCs, Stops, SysActions, Actors
  <2>2. CurInv'
    BY <1>9, <1>0, TopIsIn, SMTT(30) DEF Dequeue, taskVars, At, Goto, TypeOK, CurInv
  <2>. QED
    BY <2>1, <2>2
<1>10. ASSUME NEW e \in Executors, Finish(e) \/ HandledHere(e) PROVE TypeOK' /\ CurInv'
  <2>1. TypeOK'
    BY <1>10, <1>0, SMTT(30) DEF Finish, HandledHere, ReleaseCurrent, Release, consumerVars, At, Goto, TypeOK, PCs, Stops, SysActions, Actors
  <2>2. CurInv'
    BY <1>10, <1>0, SMTT(30) DEF Finish, HandledHere, ReleaseCurrent, Release, consumerVars, At, Goto, TypeOK, CurInv
  <2>. QED
    BY <2>1, <2>2
<1>11. ASSUME NEW e \in Executors, HandledElsewhere(e) PROVE TypeOK' /\ CurInv'
  <2>1. TypeOK'
    <3>1. cur[e] \in Tasks /\ home[cur[e]] \in Executors /\ e \in Actors
      BY <1>11, <1>0 DEF HandledElsewhere, At, Goto, TypeOK, CurInv, Actors
    <3>2. pc' \in [Executors -> PCs] /\ action' \in [Tasks -> SysActions]
      BY <1>11, <1>0, <3>1 DEF HandledElsewhere, Goto, TypeOK, PCs, SysActions
    <3>. QED
      BY <1>11, <1>0, <3>1, <3>2, PostTaskTypes DEF HandledElsewhere, TypeOK
  <2>2. CurInv'
    BY <1>11, <1>0, SMTT(30) DEF HandledElsewhere, PostTask, At, Goto, TypeOK, CurInv
  <2>. QED
    BY <2>1, <2>2
<1>12. ASSUME NEW e \in Executors, ClearWorking(e) PROVE TypeOK' /\ CurInv'
  <2>1. TypeOK'
    BY <1>12, <1>0, TopIsIn, SMTT(30) DEF ClearWorking, Release, taskVars, At, Goto, TypeOK, PCs, Stops, SysActions, Actors
  <2>2. CurInv'
    BY <1>12, <1>0, TopIsIn, SMTT(30) DEF ClearWorking, Release, taskVars, At, Goto, TypeOK, CurInv
  <2>. QED
    BY <2>1, <2>2
<1>13. ASSUME NEW e \in Executors, ClearIncoming(e) PROVE TypeOK' /\ CurInv'
  <2>1. TypeOK'
    BY <1>13, <1>0, TopIsIn, SMTT(30) DEF ClearIncoming, Release, taskVars, At, Goto, TypeOK, PCs, Stops, SysActions, Actors
  <2>2. CurInv'
    BY <1>13, <1>0, TopIsIn, SMTT(30) DEF ClearIncoming, Release, taskVars, At, Goto, TypeOK, CurInv
  <2>. QED
    BY <2>1, <2>2
<1>14. ASSUME NEW e \in Executors, OnThreadExit(e) PROVE TypeOK' /\ CurInv'
  <2>1. TypeOK'
    BY <1>14, <1>0, SMTT(30) DEF OnThreadExit, taskVars, At, Goto, TypeOK, PCs, Stops, SysActions, Actors
  <2>2. CurInv'
    BY <1>14, <1>0, SMTT(30) DEF OnThreadExit, taskVars, At, Goto, TypeOK, CurInv
  <2>. QED
    BY <2>1, <2>2
<1>15. ASSUME NEW e \in Executors, Stop(e) PROVE TypeOK' /\ CurInv'
  <2>1. TypeOK'
    <3>1. CASE SetFinished(e)
      BY <3>1, <1>0 DEF SetFinished, taskVars, TypeOK, Stops
    <3>2. CASE NotifyFinished(e)
      BY <3>2, <1>0 DEF NotifyFinished, consumerVars, taskVars, TypeOK, Stops, PCs
    <3>3. CASE SetThreadExit(e)
      BY <3>3, <1>0 DEF SetThreadExit, consumerVars, taskVars, TypeOK, Stops
    <3>4. CASE Join(e)
      BY <3>4, <1>0 DEF Join, consumerVars, taskVars, TypeOK, Stops
    <3>. QED
      BY <1>15, <3>1, <3>2, <3>3, <3>4 DEF Stop
  <2>2. CurInv'
    BY <1>15, <1>0, SMTT(30) DEF Stop, SetFinished, NotifyFinished, SetThreadExit, Join, consumerVars, taskVars, TypeOK, CurInv
  <2>. QED
    BY <2>1, <2>2
<1>16. ASSUME UNCHANGED vars PROVE TypeOK' /\ CurInv'
  <2>1. TypeOK'
    BY <1>16, <1>0, SMTT(30) DEF vars, consumerVars, threadVars, taskVars, TypeOK, PCs, Stops, SysActions, Actors
  <2>2. CurInv'
    BY <1>16, <1>0, SMTT(30) DEF vars, consumerVars, threadVars, taskVars, TypeOK, CurInv
  <2>. QED
    BY <2>1, <2>2
<1>. QED
  BY <1>1, <1>2, <1>3, <1>4, <1>5, <1>6, <1>7, <1>8, <1>9, <1>10, <1>11, <1>12, <1>13, <1>14, <1>15, <1>16 DEF Next, Thread

-----------------------------------------------------------------------------
(* Every step keeps the queues and the hands of the threads apart, and     *)
(* releases only what nobody else holds.                                   *)
LEMMA NextNoDangling == TypeInv /\ NoDangling /\ [Next]_vars => NoDangling'
<1>. SUFFICES ASSUME TypeInv, NoDangling, [Next]_vars PROVE NoDangling'
  OBVIOUS
<1>0. /\ incoming \in [Executors -> SUBSET Tasks]
      /\ working \in [Executors -> SUBSET Tasks]
      /\ cur \in [Executors -> Tasks \cup {None}]
      /\ None \notin Tasks
  BY TaskThreadAssumption DEF TypeInv, TypeOK
<1>1. ASSUME UNCHANGED <<incoming, working, cur, live>> PROVE NoDangling'
  BY <1>1 DEF NoDangling, Holds
<1>2. ASSUME NEW a \in Actors, NEW e \in Executors, Add(a, e) PROVE NoDangling'
  <2>. PICK t \in Tasks \ live : live' = live \cup {t} /\ PostTask(a, e, t)
    BY <1>2 DEF Add
  <2>1. working' = working /\ cur' = cur
    BY <1>2 DEF Add, threadVars
  <2>2. incoming' = incoming \/ incoming' = [incoming EXCEPT ![e] = @ \cup {t}]
    BY DEF PostTask
  <2>3. \A f \in Executors : ~Holds(f, t)
    BY DEF NoDangling
  <2>. QED
    BY <1>0, <2>1, <2>2, <2>3 DEF NoDangling, Holds
<1>3. ASSUME NEW e \in Executors, Reload(e) PROVE NoDangling'
  <2>1. live' = live /\ cur' = cur
    BY <1>3 DEF Reload, taskVars
  <2>2. \/ incoming' = incoming /\ working' = working
        \/ /\ incoming' = [incoming EXCEPT ![e] = working[e]]
           /\ working' = [working EXCEPT ![e] = incoming[e]]
    BY <1>3 DEF Reload
  <2>. QED
    BY <1>0, <2>1, <2>2 DEF NoDangling, Holds
<1>4. ASSUME NEW e \in Executors, Dequeue(e) PROVE NoDangling'
  <2>. DEFINE t == Top(working[e])
  <2>1. t \in working[e] /\ t \in Tasks
    BY <1>0, <1>4, TopIsIn DEF Dequeue
  <2>2. /\ cur' = [cur EXCEPT ![e] = t]
        /\ working' = [working EXCEPT ![e] = @ \ {t}]
        /\ incoming' = incoming /\ live' = live
    BY <1>4 DEF Dequeue, taskVars
  <2>. HIDE DEF t
  <2>. QED
    BY <1>0, <2>1, <2>2 DEF NoDangling, Holds
<1>5. ASSUME NEW e \in Executors, Finish(e) \/ HandledHere(e) PROVE NoDangling'
  <2>1. /\ cur' = [cur EXCEPT ![e] = None] /\ live' = live \ {cur[e]}
        /\ incoming' = incoming /\ working' = working
    BY <1>5 DEF Finish, HandledHere, ReleaseCurrent, Release, consumerVars
  <2>2. \A t \in Tasks, f \in Executors : t = cur[e] /\ Holds(f, t) =>
          f = e /\ t \notin incoming[e] \cup working[e]
    BY DEF NoDangling, Holds
  <2>. QED
    BY <1>0, <2>1, <2>2 DEF NoDangling, Holds
<1>6. ASSUME NEW e \in Executors, HandledElsewhere(e) PROVE NoDangling'
  <2>. DEFINE t == cur[e]
              f == home[t]
  <2>1. t \in Tasks /\ f \in Executors /\ f # e
    BY <1>6 DEF HandledElsewhere, At, Goto, TypeInv, TypeOK, CurInv
  <2>2. /\ cur' = [cur EXCEPT ![e] = None] /\ working' = working /\ live' = live
        /\ incoming' = incoming \/ incoming' = [incoming EXCEPT ![f] = @ \cup {t}]
    BY <1>6 DEF HandledElsewhere, PostTask
  <2>3. t \in live /\ \A g \in Executors : Holds(g, t) =>
          g = e /\ t \notin incoming[e] \cup working[e]
    BY <2>1 DEF NoDangling, Holds
  <2>4. cur[e] = t
    OBVIOUS
  <2>. HIDE DEF f, t
  <2>. QED
    BY <1>0, <2>1, <2>2, <2>3, <2>4 DEF NoDangling, Holds
<1>7. ASSUME NEW e \in Executors, NEW t \in working[e],
             working' = [working EXCEPT ![e] = @ \ {t}], incoming' = incoming,
             cur' = cur, live' = live \ {t}
      PROVE NoDangling'
  <2>1. t \in Tasks /\ \A f \in Executors : Holds(f, t) =>
          f = e /\ t \notin incoming[e] /\ cur[e] # t
    BY <1>0 DEF NoDangling, Holds
  <2>. QED
    BY <1>0, <1>7, <2>1 DEF NoDangling, Holds
<1>8. ASSUME NEW e \in Executors, ClearWorking(e) PROVE NoDangling'
  <2>1. CASE working[e] = {}
    BY <1>1, <1>8, <2>1 DEF ClearWorking, taskVars
  <2>2. CASE working[e] # {}
    <3>1. Top(working[e]) \in working[e]
      BY <1>0, <2>2, TopIsIn
    <3>. QED
      BY <1>7, <1>8, <2>2, <3>1 DEF ClearWorking, Release
  <2>. QED
    BY <2>1, <2>2
<1>9. ASSUME NEW e \in Executors, ClearIncoming(e) PROVE NoDangling'
  <2>1. CASE incoming[e] = {}
    BY <1>1, <1>9, <2>1 DEF ClearIncoming, taskVars
  <2>2. CASE incoming[e] # {}
    <3>. DEFINE t == Top(incoming[e])
    <3>1. t \in incoming[e] /\ t \in Tasks
      BY <1>0, <2>2, TopIsIn
    <3>2. /\ incoming' = [incoming EXCEPT ![e] = @ \ {t}] /\ live' = live \ {t}
          /\ working' = working /\ cur' = cur
      BY <1>9, <2>2 DEF ClearIncoming, Release
    <3>. HIDE DEF t
    <3>3. \A f \in Executors : Holds(f, t) => f = e /\ t \notin working[e] /\ cur[e] # t
      BY <3>1 DEF NoDangling, Holds
    <3>. QED
      BY <1>0, <3>1, <3>2, <3>3 DEF NoDangling, Holds
  <2>. QED
    BY <2>1, <2>2
<1>10. ASSUME NEW e \in Executors, OnThreadExit(e) PROVE NoDangling'
  <2>1. /\ incoming' = [incoming EXCEPT ![e] = {}] /\ working' = [working EXCEPT ![e] = {}]
        /\ cur' = cur /\ live' = live
    BY <1>10 DEF OnThreadExit, taskVars
  <2>. QED
    BY <1>0, <2>1 DEF NoDangling, Holds
<1>11. ASSUME NEW e \in Executors,
              Start(e) \/ ThreadRun(e) \/ TestFinished(e) \/ Block(e) \/ SpuriousWake(e)
                \/ LeaveDrain(e) \/ Stop(e)
       PROVE NoDangling'
  BY <1>1, <1>11
  DEF Start, ThreadRun, TestFinished, Block, SpuriousWake, LeaveDrain, Stop, SetFinished,
      NotifyFinished, SetThreadExit, Join, consumerVars, taskVars
<1>12. ASSUME NEW a \in Actors, Notify(a) PROVE NoDangling'
  BY <1>1, <1>12 DEF Notify, consumerVars, taskVars
<1>13. ASSUME UNCHANGED vars PROVE NoDangling'
  BY <1>1, <1>13 DEF vars, consumerVars, threadVars, taskVars
<1>. QED
  BY <1>2, <1>3, <1>4, <1>5, <1>6, <1>8, <1>9, <1>10, <1>11, <1>12, <1>13
  DEF Next, Thread

-----------------------------------------------------------------------------
(* Every step leaves a wake-up pending for a thread that has work.         *)
LEMMA NextWakeInv == TypeInv /\ WakeInv /\ [Next]_vars => WakeInv'
<1>. SUFFICES ASSUME TypeInv, WakeInv, [Next]_vars PROVE WakeInv'
  OBVIOUS
<1>0. /\ TypeOK /\ DrainedInv /\ NoLostWakeup /\ None \notin Executors
      /\ incoming \in [Executors -> SUBSET Tasks] /\ working \in [Executors -> SUBSET Tasks]
      /\ ready \in [Executors -> BOOLEAN] /\ finished \in [Executors -> BOOLEAN]
      /\ pc \in [Executors -> PCs] /\ stop \in [Executors -> Stops]
      /\ notifying \in [Actors -> Executors \cup {None}]
  BY TaskThreadAssumption DEF TypeInv, TypeOK, WakeInv
<1>1. ASSUME NEW a \in Actors, NEW e \in Executors, NEW t \in Tasks, PostTask(a, e, t),
             notifying[a] = None, UNCHANGED <<working, finished, stop>>,
             \/ pc' = pc
             \/ a \in Executors /\ pc[a] = "handle" /\ pc' = [pc EXCEPT ![a] = "drain"]
      PROVE WakeInv'
  <2>1. DrainedInv'
    BY <1>0, <1>1 DEF DrainedInv
  <2>2. CASE UNCHANGED <<incoming, ready, notifying>>
    <3>1. NoLostWakeup'
      BY <1>0, <1>1, <2>2 DEF NoLostWakeup
    <3>. QED
      BY <2>1, <3>1 DEF WakeInv
  <2>3. CASE /\ incoming' = [incoming EXCEPT ![e] = @ \cup {t}]
             /\ ready' = [ready EXCEPT ![e] = TRUE]
             /\ notifying' = [notifying EXCEPT ![a] = e]
    <3>1. NoLostWakeup'
      BY <1>0, <1>1, <2>3 DEF NoLostWakeup
    <3>. QED
      BY <2>1, <3>1 DEF WakeInv
  <2>. QED
    BY <1>1, <2>2, <2>3 DEF PostTask
<1>2. ASSUME NEW a \in Actors, NEW e \in Executors, Add(a, e) PROVE WakeInv'
  BY <1>1, <1>2 DEF Add, MayPost, threadVars
<1>3. ASSUME NEW e \in Executors, HandledElsewhere(e) PROVE WakeInv'
  <2>1. cur[e] \in Tasks /\ home[cur[e]] \in Executors /\ e \in Actors
    BY <1>3 DEF HandledElsewhere, At, Goto, TypeInv, TypeOK, CurInv, Actors
  <2>. QED
    BY <1>1, <1>3, <2>1 DEF HandledElsewhere, At, Goto
<1>4. ASSUME NEW a \in Actors, Notify(a) PROVE WakeInv'
  <2>. DEFINE e == notifying[a]
  <2>1. /\ e \in Executors /\ notifying' = [notifying EXCEPT ![a] = None]
        /\ pc' = IF pc[e] = "blocked" THEN [pc EXCEPT ![e] = "lock"] ELSE pc
        /\ UNCHANGED <<incoming, working, ready, finished, stop>>
    BY <1>0, <1>4 DEF Notify, consumerVars
  <2>. HIDE DEF e
  <2>2. \A b \in Actors : notifying[b] # notifying'[b] => b = a
    BY <1>0, <2>1
  <2>3. e = notifying[a]
    BY DEF e
  <2>4. DrainedInv'
    BY <1>0, <2>1 DEF DrainedInv
  <2>5. NoLostWakeup'
    BY <1>0, <2>1, <2>2, <2>3 DEF NoLostWakeup
  <2>. QED
    BY <2>4, <2>5 DEF WakeInv
<1>5. ASSUME NEW e \in Executors,
             Start(e) \/ ThreadRun(e) \/ TestFinished(e) \/ Block(e) \/ SpuriousWake(e)
               \/ LeaveDrain(e) \/ Dequeue(e) \/ Finish(e) \/ HandledHere(e)
      PROVE WakeInv'
  <2>1. DrainedInv'
    BY <1>0, <1>5 DEF DrainedInv, Start, ThreadRun, TestFinished, Block, SpuriousWake,
      LeaveDrain, Dequeue, Finish, HandledHere, At, Goto, consumerVars
  <2>2. NoLostWakeup'
    BY <1>0, <1>5 DEF NoLostWakeup, Start, ThreadRun, TestFinished, Block, SpuriousWake,
      LeaveDrain, Dequeue, Finish, HandledHere, At, Goto, consumerVars
  <2>. QED
    BY <2>1, <2>2 DEF WakeInv
<1>6. ASSUME NEW e \in Executors, Reload(e) PROVE WakeInv'
  <2>1. working[e] = {}
    BY <1>0, <1>6 DEF Reload, At, Goto, DrainedInv
  <2>2. DrainedInv'
    BY <1>0, <1>6, <2>1 DEF DrainedInv, Reload, At, Goto
  <2>3. NoLostWakeup'
    BY <1>0, <1>6, <2>1 DEF NoLostWakeup, Reload, At, Goto
  <2>. QED
    BY <2>2, <2>3 DEF WakeInv
<1>7. ASSUME NEW e \in Executors, ClearWorking(e) \/ ClearIncoming(e) \/ OnThreadExit(e)
      PROVE WakeInv'
  <2>1. DrainedInv'
    BY <1>0, <1>7 DEF DrainedInv, ClearWorking, ClearIncoming, OnThreadExit, At, Goto
  <2>2. NoLostWakeup'
    BY <1>0, <1>7 DEF NoLostWakeup, ClearWorking, ClearIncoming, OnThreadExit, At, Goto
  <2>. QED
    BY <2>1, <2>2 DEF WakeInv
<1>8. ASSUME NEW e \in Executors, Stop(e) PROVE WakeInv'
  <2>1. DrainedInv'
    BY <1>0, <1>8 DEF DrainedInv, Stop, SetFinished, NotifyFinished, SetThreadExit, Join,
      consumerVars
  <2>2. NoLostWakeup'
    BY <1>0, <1>8 DEF NoLostWakeup, Stop, SetFinished, NotifyFinished, SetThreadExit, Join,
      consumerVars
  <2>. QED
    BY <2>1, <2>2 DEF WakeInv
<1>9. ASSUME UNCHANGED vars PROVE WakeInv'
  BY <1>9 DEF vars, consumerVars, threadVars, WakeInv, DrainedInv, NoLostWakeup
<1>. QED
  BY <1>2, <1>3, <1>4, <1>5, <1>6, <1>7, <1>8, <1>9 DEF Next, Thread

-----------------------------------------------------------------------------
(* The types of executors, Tasks and callers.                              *)
THEOREM TaskThreadTypeCorrect == Spec => []TypeOK
<1>1. TypeInv => TypeOK
  BY DEF TypeInv
<1>. QED
  BY <1>1, InitTypeInv, NextTypeInv, PTL DEF Spec

(* No executor ever holds a released Task, and no two hold the same one,   *)
(* whether callers keep the contract or not.                               *)
THEOREM NothingDangles == Spec => []NoDangling
<1>1. Init => NoDangling
  BY TaskThreadAssumption DEF Init, NoDangling, Holds
<1>. QED
  BY <1>1, InitTypeInv, NextTypeInv, NextNoDangling, PTL DEF Spec

(* A blocked thread that has Tasks waiting is going to be notified,        *)
(* although PostTask and SetFinished notify after they unlock.             *)
THEOREM NoWakeupIsLost == Spec => []NoLostWakeup
<1>1. Init => WakeInv
  BY DEF Init, WakeInv, DrainedInv, NoLostWakeup
<1>2. WakeInv => NoLostWakeup
  BY DEF WakeInv
<1>. QED
  BY <1>1, <1>2, InitTypeInv, NextTypeInv, NextWakeInv, PTL DEF Spec

-----------------------------------------------------------------------------
(* The executors implement TaskLifecycle.                                  *)

(* ClearTasks runs in an executor that was told to finish; a Task whose    *)
(* OnFinish runs is one that was sent back.                                *)
FinishInv ==
  \A e \in Executors :
    /\ pc[e] \in {"clearW", "clearI"} => finished[e]
    /\ pc[e] = "finish" => action[cur[e]] = "RELEASE_TASK"

(* The thread of some executor runs the function of Task t.                *)
Running(t) == \E e \in Executors : cur[e] = t /\ pc[e] = "handle"

(* The step of TaskLifecycle that takes one Task from a phase to another.  *)
LEMMA PhaseStep ==
  ASSUME NEW t \in Tasks, NEW from, NEW to,
         PhaseOf(t) = from, PhaseOf(t)' = to, finished' = finished,
         \A u \in Tasks : u # t => PhaseOf(u)' = PhaseOf(u)
  PROVE  Lifecycle!Step(t, from, to)
BY DEF Lifecycle!Step

(* A step that changes no phase and tells nobody to finish.                *)
LEMMA PhaseStutter ==
  ASSUME finished' = finished, \A u \in Tasks : PhaseOf(u)' = PhaseOf(u)
  PROVE  UNCHANGED Lifecycle!vars
BY DEF Lifecycle!vars

(* The phase of a Task follows from these three facts.                     *)
LEMMA PhaseIs ==
  ASSUME NEW t \in Tasks
  PROVE  /\ t \notin live => PhaseOf(t) = "free"
         /\ t \in live /\ Running(t) => PhaseOf(t) = "running"
         /\ t \in live /\ ~Running(t) /\ action[t] = "RELEASE_TASK" => PhaseOf(t) = "returning"
         /\ t \in live /\ ~Running(t) /\ action[t] # "RELEASE_TASK" => PhaseOf(t) = "queued"
BY DEF PhaseOf, Running

(* They and the phase stay what they are together.                         *)
LEMMA SamePhase ==
  ASSUME NEW t \in Tasks, t \in live' <=> t \in live, Running(t)' <=> Running(t),
         action'[t] = action[t]
  PROVE  PhaseOf(t)' = PhaseOf(t)
BY DEF PhaseOf, Running

(* Every step keeps FinishInv: nobody changes the Task in a thread's hands.*)
LEMMA NextFinishInv ==
  TypeInv /\ NoDangling /\ FinishInv /\ [Next]_vars => FinishInv'
<1>. SUFFICES ASSUME TypeInv, NoDangling, FinishInv, [Next]_vars PROVE FinishInv'
  OBVIOUS
<1>0. /\ TypeOK /\ CurInv /\ NoDangling /\ FinishInv
      /\ None \notin Tasks /\ None \notin Executors
      /\ finished \in [Executors -> BOOLEAN] /\ pc \in [Executors -> PCs]
      /\ cur \in [Executors -> Tasks \cup {None}] /\ action \in [Tasks -> SysActions]
      /\ notifying \in [Actors -> Executors \cup {None}]
      /\ working \in [Executors -> SUBSET Tasks] /\ incoming \in [Executors -> SUBSET Tasks]
  BY TaskThreadAssumption DEF TypeInv, TypeOK
<1>1. \A e \in Executors : pc[e] = "finish" => cur[e] \in live \cap Tasks
  BY <1>0 DEF CurInv, NoDangling, Holds
<1>2. ASSUME NEW a \in Actors, NEW e \in Executors, Add(a, e) PROVE FinishInv'
  <2>. PICK t \in Tasks \ live, act \in Garbage \cup {"WAIT_NOTIFIER"} :
          action' = [action EXCEPT ![t] = act]
    BY <1>2 DEF Add
  <2>1. pc' = pc /\ cur' = cur /\ finished' = finished
    BY <1>2 DEF Add, threadVars
  <2>. QED
    BY <1>0, <1>1, <2>1 DEF FinishInv
<1>3. ASSUME NEW a \in Actors, Notify(a) PROVE FinishInv'
  BY <1>0, <1>3 DEF Notify, consumerVars, taskVars, FinishInv
<1>4. ASSUME NEW e \in Executors,
             Start(e) \/ ThreadRun(e) \/ TestFinished(e) \/ Block(e) \/ SpuriousWake(e)
               \/ Reload(e) \/ LeaveDrain(e)
      PROVE FinishInv'
  BY <1>0, <1>4
  DEF Start, ThreadRun, TestFinished, Block, SpuriousWake, Reload, LeaveDrain, At, Goto,
      consumerVars, taskVars, FinishInv
<1>5. ASSUME NEW e \in Executors, Dequeue(e) PROVE FinishInv'
  <2>. DEFINE t == Top(working[e])
  <2>1. /\ cur' = [cur EXCEPT ![e] = t] /\ action' = action /\ finished' = finished
        /\ pc' = [pc EXCEPT ![e] = IF action[t] = "RELEASE_TASK" THEN "finish" ELSE "handle"]
    BY <1>5 DEF Dequeue, Goto, taskVars
  <2>. HIDE DEF t
  <2>. QED
    BY <1>0, <2>1 DEF FinishInv
<1>6. ASSUME NEW e \in Executors, NEW x \in Tasks, Holds(e, x),
             action' = [action EXCEPT ![x] = "NONE"], finished' = finished,
             \A f \in Executors : pc'[f] \in {"clearW", "clearI"} => pc[f] \in {"clearW", "clearI"},
             \A f \in Executors : pc'[f] = "finish" => pc[f] = "finish" /\ cur'[f] = cur[f],
             pc'[e] # "finish"
      PROVE FinishInv'
  <2>1. \A f \in Executors : f # e => cur[f] # x
    BY <1>0, <1>6 DEF NoDangling, Holds
  <2>. QED
    BY <1>0, <1>1, <1>6, <2>1 DEF FinishInv
<1>7. ASSUME NEW e \in Executors, Finish(e) \/ HandledHere(e) PROVE FinishInv'
  <2>1. /\ pc[e] \in {"handle", "finish"} /\ pc' = [pc EXCEPT ![e] = "drain"]
        /\ cur' = [cur EXCEPT ![e] = None] /\ finished' = finished
        /\ action' = [action EXCEPT ![cur[e]] = "NONE"]
    BY <1>7 DEF Finish, HandledHere, ReleaseCurrent, Release, consumerVars, Goto, At
  <2>2. cur[e] \in Tasks /\ Holds(e, cur[e])
    BY <1>0, <2>1 DEF CurInv, Holds
  <2>. QED
    BY <1>0, <1>6, <2>1, <2>2
<1>8. ASSUME NEW e \in Executors, HandledElsewhere(e) PROVE FinishInv'
  BY <1>0, <1>1, <1>8 DEF HandledElsewhere, Goto, At, CurInv, FinishInv
<1>9. ASSUME NEW e \in Executors, ClearWorking(e) PROVE FinishInv'
  <2>1. CASE working[e] = {}
    BY <1>0, <1>9, <2>1 DEF ClearWorking, Goto, At, taskVars, FinishInv
  <2>2. CASE working[e] # {}
    <3>1. Top(working[e]) \in Tasks /\ Holds(e, Top(working[e]))
      BY <1>0, <2>2, TopIsIn DEF Holds
    <3>. QED
      BY <1>0, <1>6, <1>9, <2>2, <3>1 DEF ClearWorking, Release, At
  <2>. QED
    BY <2>1, <2>2
<1>10. ASSUME NEW e \in Executors, ClearIncoming(e) PROVE FinishInv'
  <2>1. CASE incoming[e] = {}
    BY <1>0, <1>10, <2>1 DEF ClearIncoming, Goto, At, taskVars, FinishInv
  <2>2. CASE incoming[e] # {}
    <3>1. Top(incoming[e]) \in Tasks /\ Holds(e, Top(incoming[e]))
      BY <1>0, <2>2, TopIsIn DEF Holds
    <3>. QED
      BY <1>0, <1>6, <1>10, <2>2, <3>1 DEF ClearIncoming, Release, At
  <2>. QED
    BY <2>1, <2>2
<1>11. ASSUME NEW e \in Executors, OnThreadExit(e) \/ Stop(e) PROVE FinishInv'
  BY <1>0, <1>11
  DEF OnThreadExit, Stop, SetFinished, NotifyFinished, SetThreadExit, Join, At, Goto,
      consumerVars, taskVars, FinishInv
<1>12. ASSUME UNCHANGED vars PROVE FinishInv'
  BY <1>12 DEF vars, consumerVars, threadVars, taskVars, FinishInv
<1>. QED
  BY <1>2, <1>3, <1>4, <1>5, <1>7, <1>8, <1>9, <1>10, <1>11, <1>12 DEF Next, Thread

(* Every step is a step of TaskLifecycle, or changes no phase.             *)
LEMMA NextImplements ==
  ASSUME "RELEASE_TASK" \notin Garbage, TypeInv, NoDangling, FinishInv, [Next]_vars
  PROVE  [Lifecycle!Next]_(Lifecycle!vars)
<1>. DEFINE Sim == [Lifecycle!Next]_(Lifecycle!vars)
<1>0. /\ TypeOK /\ CurInv /\ NoDangling /\ FinishInv
      /\ None \notin Tasks /\ None \notin Executors
      /\ finished \in [Executors -> BOOLEAN] /\ pc \in [Executors -> PCs]
      /\ cur \in [Executors -> Tasks \cup {None}] /\ action \in [Tasks -> SysActions]
      /\ working \in [Executors -> SUBSET Tasks] /\ incoming \in [Executors -> SUBSET Tasks]
  BY TaskThreadAssumption DEF TypeInv, TypeOK
<1>1. \A t \in Tasks : Running(t) => t \in live
  BY <1>0 DEF Running, NoDangling, Holds
<1>2. ASSUME finished' = finished, live' = live, action' = action,
             \A t \in Tasks : Running(t)' <=> Running(t)
      PROVE  Sim
  <2>1. \A t \in Tasks : PhaseOf(t)' = PhaseOf(t)
    BY <1>2, SamePhase
  <2>. QED
    BY <1>2, <2>1, PhaseStutter
<1>3. ASSUME NEW a \in Actors, NEW e \in Executors, Add(a, e) PROVE Sim
  <2>. PICK t \in Tasks \ live, act \in Garbage \cup {"WAIT_NOTIFIER"} :
          live' = live \cup {t} /\ action' = [action EXCEPT ![t] = act]
    BY <1>3 DEF Add
  <2>1. pc' = pc /\ cur' = cur /\ finished' = finished
    BY <1>3 DEF Add, threadVars
  <2>2. \A u \in Tasks : Running(u)' <=> Running(u)
    BY <2>1 DEF Running
  <2>3. \A u \in Tasks : u # t => PhaseOf(u)' = PhaseOf(u)
    BY <1>0, <2>2, SamePhase
  <2>4. PhaseOf(t) = "free" /\ ~Running(t)'
    BY <1>1, <2>2, PhaseIs
  <2>5. PhaseOf(t)' = "queued"
    <3>1. t \in live' /\ action'[t] # "RELEASE_TASK"
      BY <1>0
    <3>. QED
      BY <2>4, <3>1 DEF PhaseOf, Running
  <2>6. Lifecycle!Submit(t)
    BY <2>1, <2>3, <2>4, <2>5, PhaseStep DEF Lifecycle!Submit
  <2>. QED
    BY <2>6 DEF Lifecycle!Next
<1>4. ASSUME NEW a \in Actors, Notify(a) PROVE Sim
  <2>1. \A t \in Tasks : Running(t)' <=> Running(t)
    BY <1>0, <1>4 DEF Notify, Running
  <2>. QED
    BY <1>2, <1>4, <2>1 DEF Notify, consumerVars, taskVars
<1>5. ASSUME NEW e \in Executors,
             Start(e) \/ ThreadRun(e) \/ TestFinished(e) \/ Block(e) \/ SpuriousWake(e)
               \/ Reload(e) \/ LeaveDrain(e) \/ OnThreadExit(e)
      PROVE Sim
  <2>1. /\ finished' = finished /\ live' = live /\ action' = action /\ cur' = cur
        /\ pc[e] # "handle"
        /\ \E to \in PCs \ {"handle"} : pc' = [pc EXCEPT ![e] = to]
    BY <1>5
    DEF Start, ThreadRun, TestFinished, Block, SpuriousWake, Reload, LeaveDrain, OnThreadExit,
        At, Goto, consumerVars, taskVars, PCs
  <2>2. \A t \in Tasks : Running(t)' <=> Running(t)
    BY <1>0, <2>1 DEF Running
  <2>. QED
    BY <1>2, <2>1, <2>2
<1>6. ASSUME NEW e \in Executors, Dequeue(e) PROVE Sim
  <2>1. Top(working[e]) \in Tasks /\ Top(working[e]) \in working[e]
    BY <1>0, <1>6, TopIsIn DEF Dequeue
  <2>. PICK t \in Tasks : t = Top(working[e])
    BY <2>1
  <2>2. /\ cur' = [cur EXCEPT ![e] = t] /\ pc[e] = "drain"
        /\ pc' = [pc EXCEPT ![e] = IF action[t] = "RELEASE_TASK" THEN "finish" ELSE "handle"]
        /\ action' = action /\ live' = live /\ finished' = finished
    BY <1>6 DEF Dequeue, Goto, At, taskVars
  <2>3. t \in live /\ ~Running(t)
    BY <1>0, <2>1 DEF NoDangling, Holds, Running
  <2>4. CASE action[t] = "RELEASE_TASK"
    <3>1. \A u \in Tasks : Running(u)' <=> Running(u)
      BY <1>0, <2>2, <2>4 DEF Running
    <3>. QED
      BY <1>2, <2>2, <3>1
  <2>5. CASE action[t] # "RELEASE_TASK"
    <3>1. \A u \in Tasks : u # t => (Running(u)' <=> Running(u))
      BY <1>0, <2>2, <2>5 DEF Running
    <3>2. \A u \in Tasks : u # t => PhaseOf(u)' = PhaseOf(u)
      BY <2>2, <3>1, SamePhase
    <3>3. PhaseOf(t) = "queued"
      BY <2>1, <2>3, <2>5, PhaseIs
    <3>4. t \in live' /\ Running(t)'
      BY <1>0, <2>2, <2>3, <2>5 DEF Running
    <3>5. PhaseOf(t)' = "running"
      BY <3>4 DEF PhaseOf, Running
    <3>6. Lifecycle!Run(t)
      BY <2>1, <2>2, <3>2, <3>3, <3>5, PhaseStep DEF Lifecycle!Run
    <3>. QED
      BY <2>1, <3>6 DEF Lifecycle!Next
  <2>. QED
    BY <2>4, <2>5
<1>7. ASSUME NEW t \in Tasks, t \in live, finished' = finished,
             live' = live \ {t}, action' = [action EXCEPT ![t] = "NONE"],
             \A u \in Tasks : u # t => (Running(u)' <=> Running(u))
      PROVE  Lifecycle!Step(t, PhaseOf(t), "free")
  <2>1. \A u \in Tasks : u # t => PhaseOf(u)' = PhaseOf(u)
    BY <1>0, <1>7, SamePhase
  <2>2. PhaseOf(t)' = "free"
    BY <1>7 DEF PhaseOf
  <2>. QED
    BY <1>7, <2>1, <2>2, PhaseStep
<1>8. ASSUME NEW e \in Executors, Finish(e) \/ HandledHere(e) PROVE Sim
  <2>. DEFINE t == cur[e]
  <2>1. /\ pc[e] \in {"handle", "finish"} /\ pc' = [pc EXCEPT ![e] = "drain"]
        /\ cur' = [cur EXCEPT ![e] = None] /\ finished' = finished
        /\ live' = live \ {t} /\ action' = [action EXCEPT ![t] = "NONE"]
    BY <1>8 DEF Finish, HandledHere, ReleaseCurrent, Release, consumerVars, Goto, At
  <2>2. t \in Tasks /\ t \in live
    BY <1>0, <2>1 DEF CurInv, NoDangling, Holds
  <2>3. t = cur[e]
    OBVIOUS
  <2>4. \A f \in Executors : cur[f] = t => f = e
    BY <1>0, <2>2, <2>3 DEF NoDangling, Holds
  <2>. HIDE DEF t
  <2>5. \A u \in Tasks : u # t => (Running(u)' <=> Running(u))
    BY <1>0, <2>1, <2>3 DEF Running
  <2>6. Lifecycle!Step(t, PhaseOf(t), "free")
    BY <1>7, <2>1, <2>2, <2>5
  <2>7. CASE pc[e] = "finish"
    <3>1. ~Running(t) /\ action[t] = "RELEASE_TASK"
      BY <1>0, <2>3, <2>4, <2>7 DEF Running, FinishInv
    <3>2. PhaseOf(t) = "returning"
      BY <2>2, <3>1, PhaseIs
    <3>3. Lifecycle!Recycle(t)
      BY <2>6, <3>2 DEF Lifecycle!Recycle
    <3>. QED
      BY <2>2, <3>3 DEF Lifecycle!Next
  <2>8. CASE pc[e] = "handle"
    <3>1. PhaseOf(t) = "running"
      BY <2>2, <2>3, <2>8, PhaseIs DEF Running
    <3>2. Lifecycle!Release(t)
      BY <2>6, <3>1 DEF Lifecycle!Release
    <3>. QED
      BY <2>2, <3>2 DEF Lifecycle!Next
  <2>. QED
    BY <2>1, <2>7, <2>8
<1>9. ASSUME NEW e \in Executors, HandledElsewhere(e) PROVE Sim
  <2>0. cur[e] \in Tasks
    BY <1>0, <1>9 DEF HandledElsewhere, Goto, At, CurInv
  <2>. PICK t \in Tasks : t = cur[e]
    BY <2>0
  <2>1. /\ pc[e] = "handle" /\ pc' = [pc EXCEPT ![e] = "drain"]
        /\ cur' = [cur EXCEPT ![e] = None] /\ finished' = finished
        /\ live' = live /\ action' = [action EXCEPT ![t] = "RELEASE_TASK"]
    BY <1>9 DEF HandledElsewhere, Goto, At
  <2>2. t \in Tasks /\ t \in live
    BY <1>0, <2>1 DEF CurInv, NoDangling, Holds
  <2>3. t = cur[e]
    OBVIOUS
  <2>4. \A f \in Executors : cur[f] = t => f = e
    BY <1>0, <2>2, <2>3 DEF NoDangling, Holds
  <2>5. \A u \in Tasks : u # t => (Running(u)' <=> Running(u))
    BY <1>0, <2>1, <2>3 DEF Running
  <2>6. \A u \in Tasks : u # t => PhaseOf(u)' = PhaseOf(u)
    BY <1>0, <2>1, <2>5, SamePhase
  <2>7. PhaseOf(t) = "running"
    BY <2>1, <2>2, <2>3, PhaseIs DEF Running
  <2>8. ~Running(t)' /\ t \in live' /\ action'[t] = "RELEASE_TASK"
    BY <1>0, <2>1, <2>2, <2>4 DEF Running
  <2>9. PhaseOf(t)' = "returning"
    BY <2>8 DEF PhaseOf, Running
  <2>10. Lifecycle!Return(t)
    BY <2>1, <2>2, <2>6, <2>7, <2>9, PhaseStep DEF Lifecycle!Return
  <2>. QED
    BY <2>2, <2>10 DEF Lifecycle!Next
<1>10. ASSUME NEW e \in Executors, NEW t \in Tasks, t \in working[e] \cup incoming[e],
              finished[e], pc' = pc, cur' = cur, finished' = finished,
              live' = live \ {t}, action' = [action EXCEPT ![t] = "NONE"]
       PROVE Sim
  <2>1. t \in live /\ ~Running(t)
    BY <1>0, <1>10 DEF NoDangling, Holds, Running
  <2>2. \A u \in Tasks : u # t => (Running(u)' <=> Running(u))
    BY <1>10 DEF Running
  <2>3. Lifecycle!Step(t, PhaseOf(t), "free")
    BY <1>7, <1>10, <2>1, <2>2
  <2>4. PhaseOf(t) \in {"queued", "returning"}
    BY <2>1, PhaseIs
  <2>5. Lifecycle!Drop(t)
    BY <1>10, <2>3, <2>4 DEF Lifecycle!Drop
  <2>. QED
    BY <2>5 DEF Lifecycle!Next
<1>11. ASSUME NEW e \in Executors, ClearWorking(e) PROVE Sim
  <2>1. CASE working[e] = {}
    <3>1. \A t \in Tasks : Running(t)' <=> Running(t)
      BY <1>0, <1>11, <2>1 DEF ClearWorking, Goto, At, Running
    <3>. QED
      BY <1>2, <1>11, <2>1, <3>1 DEF ClearWorking, taskVars
  <2>2. CASE working[e] # {}
    <3>1. Top(working[e]) \in working[e]
      BY <1>0, <2>2, TopIsIn
    <3>2. finished[e]
      BY <1>0, <1>11, <2>2 DEF ClearWorking, At, FinishInv
    <3>. QED
      BY <1>0, <1>10, <1>11, <2>2, <3>1, <3>2 DEF ClearWorking, Release
  <2>. QED
    BY <2>1, <2>2
<1>12. ASSUME NEW e \in Executors, ClearIncoming(e) PROVE Sim
  <2>1. CASE incoming[e] = {}
    <3>1. \A t \in Tasks : Running(t)' <=> Running(t)
      BY <1>0, <1>12, <2>1 DEF ClearIncoming, Goto, At, Running
    <3>. QED
      BY <1>2, <1>12, <2>1, <3>1 DEF ClearIncoming, taskVars
  <2>2. CASE incoming[e] # {}
    <3>1. Top(incoming[e]) \in incoming[e]
      BY <1>0, <2>2, TopIsIn
    <3>2. finished[e]
      BY <1>0, <1>12, <2>2 DEF ClearIncoming, At, FinishInv
    <3>. QED
      BY <1>0, <1>10, <1>12, <2>2, <3>1, <3>2 DEF ClearIncoming, Release
  <2>. QED
    BY <2>1, <2>2
<1>13. ASSUME NEW e \in Executors, SetFinished(e) PROVE Sim
  <2>1. /\ finished' = [finished EXCEPT ![e] = TRUE]
        /\ UNCHANGED <<live, action, pc, cur>>
    BY <1>13 DEF SetFinished, taskVars
  <2>2. \A t \in Tasks : PhaseOf(t)' = PhaseOf(t)
    BY <2>1, SamePhase DEF Running
  <2>3. \E f \in Executors : finished'[f]
    BY <1>0, <2>1
  <2>4. Lifecycle!BeginStop
    BY <2>2, <2>3 DEF Lifecycle!BeginStop
  <2>. QED
    BY <2>4 DEF Lifecycle!Next
<1>14. ASSUME NEW e \in Executors, NotifyFinished(e) \/ SetThreadExit(e) \/ Join(e) PROVE Sim
  <2>1. \A t \in Tasks : Running(t)' <=> Running(t)
    BY <1>0, <1>14 DEF NotifyFinished, SetThreadExit, Join, Running
  <2>. QED
    BY <1>2, <1>14, <2>1 DEF NotifyFinished, SetThreadExit, Join, consumerVars, taskVars
<1>15. ASSUME UNCHANGED vars PROVE Sim
  BY <1>2, <1>15 DEF vars, consumerVars, threadVars, taskVars, Running
<1>. QED
  BY <1>3, <1>4, <1>5, <1>6, <1>8, <1>9, <1>11, <1>12, <1>13, <1>14, <1>15
  DEF Next, Thread, Stop

(* What the double queues and the threads do to each Task, stopped or not  *)
(* and whether callers keep the contract or not, is what TaskLifecycle     *)
(* promises: it is handled once, sent back at most once and released once, *)
(* and dropped only while an executor is being stopped; provided the value *)
(* m_SysAction happens to have in a new Task is not SA_RELEASE_TASK.       *)
THEOREM ExecutorsImplementLifecycle ==
  "RELEASE_TASK" \notin Garbage => (Spec => ImplementsLifecycle)
<1>. SUFFICES ASSUME "RELEASE_TASK" \notin Garbage PROVE Spec => ImplementsLifecycle
  OBVIOUS
<1>1. Init => Lifecycle!Init
  BY DEF Init, Lifecycle!Init, PhaseOf
<1>2. Init => TypeInv /\ NoDangling /\ FinishInv
  BY InitTypeInv, TaskThreadAssumption DEF Init, NoDangling, Holds, FinishInv
<1>3. TypeInv /\ NoDangling /\ FinishInv /\ [Next]_vars => [Lifecycle!Next]_(Lifecycle!vars)
  BY NextImplements
<1>. QED
  BY <1>1, <1>2, <1>3, NextTypeInv, NextNoDangling, NextFinishInv, PTL
  DEF Spec, ImplementsLifecycle, Lifecycle!Spec

-----------------------------------------------------------------------------
(* For callers that keep the contract: the order in which executors are     *)
(* stopped leaves no Task behind, no Task to be sent back to a deleted      *)
(* TaskConsumer, and no thread inside one.                                  *)

(* A thread is started once and before Stop, runs until Stop has set       *)
(* m_ThreadExit, and has ended when Stop returns; m_Runnable is deleted    *)
(* as its last act.                                                        *)
ThreadInv ==
  \A e \in Executors :
    /\ pc[e] = "none" => threadExit[e] /\ stop[e] = "no"
    /\ pc[e] # "none" => (threadExit[e] <=> stop[e] \in {"join", "stopped"})
    /\ pc[e] \in {"exit", "ended"} => threadExit[e]
    /\ finished[e] <=> stop[e] # "no"
    /\ pc[e] \in {"clearW", "clearI"} => finished[e]
    /\ deleted[e] <=> pc[e] = "ended"
    /\ stop[e] = "stopped" => pc[e] = "ended"

(* An executor is stopped after those its functions post to.               *)
StopOrder ==
  \A e, f \in Executors :
    f # e /\ <<e, f>> \in Sends /\ stop[e] # "no" => stop[f] = "stopped"

(* Only its own thread is inside a PostTask to an executor that is being   *)
(* stopped, and that thread does not leave DoRun meanwhile.                *)
PostInv ==
  /\ \A e \in Executors : notifying[e] # None => pc[e] \in {"handle", "finish", "drain"}
  /\ \A e \in Executors, a \in Actors : notifying[a] = e => stop[e] = "no" \/ a = e

(* ClearTasks has emptied the queues for good when the thread leaves it.   *)
ClearedInv ==
  \A e \in Executors :
    finished[e] /\ pc[e] \in {"loop", "exit", "ended"} => incoming[e] = {}

(* A Task away from the executor that created it was posted there.         *)
HomeInv ==
  \A e \in Executors, t \in Tasks :
    Holds(e, t) /\ home[t] \in Executors \ {e} => <<home[t], e>> \in Sends

LiveIsHeld == \A t \in live : \E e \in Executors : Holds(e, t)

ContractInv ==
  ~broken /\ ThreadInv /\ StopOrder /\ PostInv /\ ClearedInv /\ HomeInv /\ LiveIsHeld

Inv == TypeInv /\ NoDangling /\ WakeInv /\ ContractInv

-----------------------------------------------------------------------------
(* No executor has started.                                                *)
LEMMA InitInv == Init => Inv
<1>. SUFFICES ASSUME Init PROVE Inv
  OBVIOUS
<1>1. TypeInv
  BY InitTypeInv
<1>2. NoDangling /\ HomeInv /\ LiveIsHeld
  BY TaskThreadAssumption DEF Init, NoDangling, HomeInv, LiveIsHeld, Holds
<1>3. WakeInv /\ ThreadInv /\ StopOrder /\ ClearedInv /\ ~broken
  BY DEF Init, WakeInv, DrainedInv, NoLostWakeup, ThreadInv, StopOrder, ClearedInv
<1>4. PostInv
  BY TaskThreadAssumption DEF Init, PostInv, Actors
<1>. QED
  BY <1>1, <1>2, <1>3, <1>4 DEF Inv, ContractInv

(* A PostTask by the thread itself while it runs a function, or to an      *)
(* executor that nobody stops, finds its TaskConsumer and its mutex.       *)
LEMMA PostTaskIsSafe ==
  ASSUME Inv, NEW a \in Actors, NEW e \in Executors, NEW t \in Tasks, PostTask(a, e, t),
         stop[e] = "no" \/ (a = e /\ pc[e] \in {"handle", "finish"})
  PROVE  /\ incoming' = [incoming EXCEPT ![e] = @ \cup {t}]
         /\ ready' = [ready EXCEPT ![e] = TRUE]
         /\ notifying' = [notifying EXCEPT ![a] = e]
         /\ ~broken'
<1>1. ~deleted[e] /\ ~(pc[e] = "clearI" /\ a # e) /\ ~broken
  BY DEF Inv, ContractInv, ThreadInv
<1>. QED
  BY <1>1 DEF PostTask

(* A Task is sent back to an executor that nobody stops yet.               *)
LEMMA HomeIsOpen ==
  ASSUME Inv, NEW e \in Executors, HandledElsewhere(e)
  PROVE  /\ cur[e] \in Tasks /\ home[cur[e]] \in Executors \ {e}
         /\ stop[home[cur[e]]] = "no"
<1>1. /\ TypeOK /\ CurInv /\ ThreadInv /\ StopOrder /\ HomeInv
      /\ pc[e] = "handle" /\ home[cur[e]] \notin {None, e}
  BY DEF Inv, TypeInv, ContractInv, HandledElsewhere, Goto, At
<1>2. cur[e] \in Tasks /\ home[cur[e]] \in Executors \ {e}
  BY <1>1 DEF TypeOK, CurInv
<1>3. <<home[cur[e]], e>> \in Sends
  BY <1>1, <1>2 DEF HomeInv, Holds
<1>4. stop[e] # "stopped"
  BY <1>1 DEF ThreadInv
<1>. QED
  BY <1>1, <1>2, <1>3, <1>4 DEF StopOrder

(* What Add and HandledElsewhere do, under the contract.                   *)
Added(a, e, t) ==
  /\ live' = live \cup {t}
  /\ home' = [home EXCEPT ![t] = IF a \in Executors THEN a ELSE None]
  /\ incoming' = [incoming EXCEPT ![e] = @ \cup {t}]
  /\ notifying' = [notifying EXCEPT ![a] = e]
  /\ ~broken' /\ notifying[a] = None
  /\ a \in Executors => pc[a] \in {"handle", "finish"} /\ (a = e \/ <<a, e>> \in Sends)
  /\ a = e \/ stop[e] = "no"
  /\ UNCHANGED <<working, finished, deleted, threadVars>>

SentBack(e, t, f) ==
  /\ t = cur[e] /\ f = home[t] /\ stop[f] = "no"
  /\ incoming' = [incoming EXCEPT ![f] = @ \cup {t}]
  /\ notifying' = [notifying EXCEPT ![e] = f]
  /\ cur' = [cur EXCEPT ![e] = None]
  /\ action' = [action EXCEPT ![t] = "RELEASE_TASK"]
  /\ ~broken' /\ notifying[e] = None
  /\ pc[e] = "handle" /\ pc' = [pc EXCEPT ![e] = "drain"]
  /\ UNCHANGED <<working, finished, deleted, threadExit, stop, live, home>>

(* Add puts a free Task into a queue that is going to be served.           *)
LEMMA AddEffect ==
  ASSUME Inv, Contract, NEW a \in Actors, NEW e \in Executors, Add(a, e)
  PROVE  \E t \in Tasks \ live : Added(a, e, t)
<1>1. PICK t \in Tasks \ live :
        /\ live' = live \cup {t}
        /\ home' = [home EXCEPT ![t] = IF a \in Executors THEN a ELSE None]
        /\ PostTask(a, e, t)
  BY DEF Add
<1>2. /\ notifying[a] = None
      /\ a \in Executors => pc[a] \in {"handle", "finish"} /\ (a = e \/ <<a, e>> \in Sends)
      /\ a = e \/ stop[e] = "no"
      /\ UNCHANGED <<working, finished, deleted, threadVars>>
  BY DEF Add, MayPost
<1>3. /\ incoming' = [incoming EXCEPT ![e] = @ \cup {t}]
      /\ notifying' = [notifying EXCEPT ![a] = e]
      /\ ~broken'
  BY <1>1, <1>2, PostTaskIsSafe
<1>. QED
  BY <1>1, <1>2, <1>3 DEF Added

(* So does HandledElsewhere, with the Task in the thread's hands.          *)
LEMMA HandledElsewhereEffect ==
  ASSUME Inv, NEW e \in Executors, HandledElsewhere(e)
  PROVE  \E t \in Tasks, f \in Executors \ {e} : SentBack(e, t, f)
<1>. DEFINE t == cur[e]
            f == home[t]
<1>1. t \in Tasks /\ f \in Executors \ {e} /\ stop[f] = "no" /\ e \in Actors
  BY HomeIsOpen DEF Actors
<1>2. /\ PostTask(e, f, t) /\ notifying[e] = None
      /\ pc[e] = "handle" /\ pc' = [pc EXCEPT ![e] = "drain"]
      /\ cur' = [cur EXCEPT ![e] = None]
      /\ action' = [action EXCEPT ![t] = "RELEASE_TASK"]
      /\ UNCHANGED <<working, finished, deleted, threadExit, stop, live, home>>
  BY DEF HandledElsewhere, Goto, At
<1>3. /\ incoming' = [incoming EXCEPT ![f] = @ \cup {t}]
      /\ notifying' = [notifying EXCEPT ![e] = f]
      /\ ~broken'
  BY <1>1, <1>2, PostTaskIsSafe
<1>. QED
  BY <1>1, <1>2, <1>3 DEF SentBack

-----------------------------------------------------------------------------
(* The types and facts that the lemmas below use.                          *)
LEMMA InvFacts ==
  ASSUME Inv
  PROVE
      /\ incoming \in [Executors -> SUBSET Tasks] /\ working \in [Executors -> SUBSET Tasks]
      /\ finished \in [Executors -> BOOLEAN] /\ deleted \in [Executors -> BOOLEAN]
      /\ threadExit \in [Executors -> BOOLEAN]
      /\ pc \in [Executors -> PCs] /\ stop \in [Executors -> Stops]
      /\ notifying \in [Actors -> Executors \cup {None}]
      /\ Executors \subseteq Actors
      /\ None \notin Executors
      /\ cur \in [Executors -> Tasks \cup {None}] /\ None \notin Tasks
      /\ live \subseteq Tasks /\ home \in [Tasks -> Executors \cup {None}]
      /\ TypeOK /\ CurInv /\ DrainedInv /\ NoDangling /\ ThreadInv /\ StopOrder /\ PostInv
      /\ ClearedInv /\ HomeInv /\ LiveIsHeld /\ ~broken
BY TaskThreadAssumption DEF Inv, TypeInv, WakeInv, ContractInv, TypeOK, Actors

(* The steps of a thread's life and of the Stop of it.                     *)
LEMMA NextThreadInv == Inv /\ Contract /\ [Next]_vars => ThreadInv' /\ StopOrder'
<1>. SUFFICES ASSUME Inv, Contract, [Next]_vars PROVE ThreadInv' /\ StopOrder'
  OBVIOUS
<1>0. /\ ThreadInv /\ StopOrder
      /\ incoming \in [Executors -> SUBSET Tasks] /\ working \in [Executors -> SUBSET Tasks]
      /\ finished \in [Executors -> BOOLEAN] /\ deleted \in [Executors -> BOOLEAN]
      /\ threadExit \in [Executors -> BOOLEAN]
      /\ pc \in [Executors -> PCs] /\ stop \in [Executors -> Stops]
      /\ notifying \in [Actors -> Executors \cup {None}]
      /\ Executors \subseteq Actors
      /\ None \notin Executors
  BY InvFacts
<1>1. ASSUME UNCHANGED <<finished, deleted, threadExit, pc, stop>> PROVE ThreadInv' /\ StopOrder'
  BY <1>0, <1>1 DEF ThreadInv, StopOrder
<1>2. ASSUME NEW a \in Actors, NEW e \in Executors, Add(a, e) PROVE ThreadInv' /\ StopOrder'
  BY <1>1, <1>2 DEF Add, threadVars
<1>3. ASSUME NEW a \in Actors, Notify(a) PROVE ThreadInv' /\ StopOrder'
  BY <1>0, <1>3 DEF Notify, consumerVars, ThreadInv, StopOrder
<1>4. ASSUME NEW e \in Executors, Start(e) PROVE ThreadInv' /\ StopOrder'
  BY <1>0, <1>4 DEF Start, consumerVars, ThreadInv, StopOrder
<1>5. ASSUME NEW e \in Executors, ThreadRun(e) PROVE ThreadInv' /\ StopOrder'
  BY <1>0, <1>5 DEF ThreadRun, Goto, At, consumerVars, ThreadInv, StopOrder
<1>6. ASSUME NEW e \in Executors,
             TestFinished(e) \/ Block(e) \/ SpuriousWake(e) \/ Reload(e) \/ LeaveDrain(e)
               \/ Dequeue(e)
      PROVE ThreadInv' /\ StopOrder'
  BY <1>0, <1>6
  DEF TestFinished, Block, SpuriousWake, Reload, LeaveDrain, Dequeue, Goto, At, consumerVars,
      ThreadInv, StopOrder
<1>7. ASSUME NEW e \in Executors, Finish(e) \/ HandledHere(e) \/ HandledElsewhere(e)
      PROVE ThreadInv' /\ StopOrder'
  BY <1>0, <1>7
  DEF Finish, HandledHere, HandledElsewhere, Goto, At, consumerVars, ThreadInv, StopOrder
<1>8. ASSUME NEW e \in Executors, ClearWorking(e) \/ ClearIncoming(e)
      PROVE ThreadInv' /\ StopOrder'
  BY <1>0, <1>8 DEF ClearWorking, ClearIncoming, Goto, At, ThreadInv, StopOrder
<1>9. ASSUME NEW e \in Executors, OnThreadExit(e) PROVE ThreadInv' /\ StopOrder'
  BY <1>0, <1>9 DEF OnThreadExit, Goto, At, ThreadInv, StopOrder
<1>10. ASSUME NEW e \in Executors, SetFinished(e) PROVE ThreadInv' /\ StopOrder'
  BY <1>0, <1>10 DEF SetFinished, MayStop, ThreadInv, StopOrder
<1>11. ASSUME NEW e \in Executors, NotifyFinished(e) \/ SetThreadExit(e) \/ Join(e)
       PROVE ThreadInv' /\ StopOrder'
  BY <1>0, <1>11
  DEF NotifyFinished, SetThreadExit, Join, consumerVars, ThreadInv, StopOrder
<1>12. ASSUME UNCHANGED vars PROVE ThreadInv' /\ StopOrder'
  BY <1>1, <1>12 DEF vars, consumerVars, threadVars
<1>. QED
  BY <1>2, <1>3, <1>4, <1>5, <1>6, <1>7, <1>8, <1>9, <1>10, <1>11, <1>12
  DEF Next, Thread, Stop

(* The steps that post, notify or move a thread, and what they find.       *)
LEMMA NextPostInv == Inv /\ Contract /\ [Next]_vars => ~broken' /\ PostInv' /\ ClearedInv'
<1>. DEFINE Safe == ~broken /\ PostInv /\ ClearedInv
<1>. SUFFICES ASSUME Inv, Contract, [Next]_vars PROVE Safe'
  OBVIOUS
<1>0. /\ ThreadInv /\ PostInv /\ ClearedInv /\ ~broken
      /\ incoming \in [Executors -> SUBSET Tasks] /\ working \in [Executors -> SUBSET Tasks]
      /\ finished \in [Executors -> BOOLEAN] /\ deleted \in [Executors -> BOOLEAN]
      /\ threadExit \in [Executors -> BOOLEAN]
      /\ pc \in [Executors -> PCs] /\ stop \in [Executors -> Stops]
      /\ notifying \in [Actors -> Executors \cup {None}]
      /\ Executors \subseteq Actors
      /\ None \notin Executors
  BY InvFacts
<1>2. ASSUME NEW a \in Actors, NEW e \in Executors, Add(a, e) PROVE Safe'
  <2>. PICK t \in Tasks \ live : Added(a, e, t)
    BY <1>2, AddEffect
  <2>0. /\ incoming' = [incoming EXCEPT ![e] = @ \cup {t}]
        /\ notifying' = [notifying EXCEPT ![a] = e]
        /\ ~broken' /\ notifying[a] = None
        /\ a \in Executors => pc[a] \in {"handle", "finish"}
        /\ a = e \/ stop[e] = "no"
        /\ finished' = finished /\ pc' = pc /\ stop' = stop
    BY DEF Added, threadVars
  <2>1. PostInv'
    BY <1>0, <2>0 DEF PostInv
  <2>2. ClearedInv'
    BY <1>0, <2>0 DEF ClearedInv, ThreadInv
  <2>. QED
    BY <2>0, <2>1, <2>2
<1>3. ASSUME NEW a \in Actors, Notify(a) PROVE Safe'
  <2>. DEFINE e == notifying[a]
  <2>1. /\ e \in Executors /\ notifying' = [notifying EXCEPT ![a] = None]
        /\ broken' = deleted[e]
        /\ pc' = IF pc[e] = "blocked" THEN [pc EXCEPT ![e] = "lock"] ELSE pc
        /\ incoming' = incoming /\ finished' = finished /\ stop' = stop
    BY <1>0, <1>3 DEF Notify, consumerVars
  <2>2. ~deleted[e]
    BY <1>0, <2>1 DEF PostInv, ThreadInv
  <2>. HIDE DEF e
  <2>. QED
    BY <1>0, <2>1, <2>2 DEF PostInv, ClearedInv
<1>4. ASSUME NEW e \in Executors, Start(e) PROVE Safe'
  BY <1>0, <1>4 DEF Start, consumerVars, PostInv, ClearedInv, ThreadInv
<1>5. ASSUME NEW e \in Executors, ThreadRun(e) PROVE Safe'
  BY <1>0, <1>5 DEF ThreadRun, Goto, At, consumerVars, PostInv, ClearedInv, ThreadInv
<1>6. ASSUME NEW e \in Executors,
             TestFinished(e) \/ Block(e) \/ SpuriousWake(e) \/ LeaveDrain(e) \/ Dequeue(e)
      PROVE Safe'
  BY <1>0, <1>6
  DEF TestFinished, Block, SpuriousWake, LeaveDrain, Dequeue, Goto, At, consumerVars,
      PostInv, ClearedInv
<1>7. ASSUME NEW e \in Executors, Reload(e) PROVE Safe'
  BY <1>0, <1>7 DEF Reload, Goto, At, PostInv, ClearedInv
<1>8. ASSUME NEW e \in Executors, Finish(e) \/ HandledHere(e) PROVE Safe'
  BY <1>0, <1>8 DEF Finish, HandledHere, Goto, At, consumerVars, PostInv, ClearedInv
<1>9. ASSUME NEW e \in Executors, HandledElsewhere(e) PROVE Safe'
  <2>. PICK t \in Tasks, f \in Executors \ {e} : SentBack(e, t, f)
    BY <1>9, HandledElsewhereEffect
  <2>0. /\ stop[f] = "no"
        /\ incoming' = [incoming EXCEPT ![f] = @ \cup {t}]
        /\ notifying' = [notifying EXCEPT ![e] = f]
        /\ ~broken' /\ notifying[e] = None
        /\ pc[e] = "handle" /\ pc' = [pc EXCEPT ![e] = "drain"]
        /\ finished' = finished /\ stop' = stop
    BY DEF SentBack
  <2>1. PostInv'
    BY <1>0, <2>0 DEF PostInv
  <2>2. ClearedInv'
    BY <1>0, <2>0 DEF ClearedInv, ThreadInv
  <2>. QED
    BY <2>0, <2>1, <2>2
<1>10. ASSUME NEW e \in Executors, ClearWorking(e) PROVE Safe'
  BY <1>0, <1>10 DEF ClearWorking, Goto, At, PostInv, ClearedInv
<1>11. ASSUME NEW e \in Executors, ClearIncoming(e) PROVE Safe'
  BY <1>0, <1>11 DEF ClearIncoming, Goto, At, PostInv, ClearedInv
<1>12. ASSUME NEW e \in Executors, OnThreadExit(e) PROVE Safe'
  BY <1>0, <1>12 DEF OnThreadExit, Goto, At, PostInv, ClearedInv
<1>13. ASSUME NEW e \in Executors, SetFinished(e) PROVE Safe'
  BY <1>0, <1>13 DEF SetFinished, MayStop, PostInv, ClearedInv, ThreadInv
<1>14. ASSUME NEW e \in Executors, NotifyFinished(e) \/ SetThreadExit(e) \/ Join(e)
       PROVE Safe'
  BY <1>0, <1>14
  DEF NotifyFinished, SetThreadExit, Join, consumerVars, PostInv, ClearedInv, ThreadInv
<1>15. ASSUME UNCHANGED vars PROVE Safe'
  BY <1>0, <1>15 DEF vars, consumerVars, threadVars, PostInv, ClearedInv
<1>. QED
  BY <1>2, <1>3, <1>4, <1>5, <1>6, <1>7, <1>8, <1>9, <1>10, <1>11, <1>12, <1>13, <1>14, <1>15
  DEF Next, Thread, Stop

(* A Task leaves the hands of all executors only when it is released.      *)
LEMMA NextHeld == Inv /\ Contract /\ [Next]_vars => HomeInv' /\ LiveIsHeld'
<1>. SUFFICES ASSUME Inv, Contract, [Next]_vars PROVE HomeInv' /\ LiveIsHeld'
  OBVIOUS
<1>0. /\ HomeInv /\ LiveIsHeld /\ NoDangling
      /\ incoming \in [Executors -> SUBSET Tasks] /\ working \in [Executors -> SUBSET Tasks]
      /\ cur \in [Executors -> Tasks \cup {None}] /\ None \notin Tasks
      /\ live \subseteq Tasks /\ home \in [Tasks -> Executors \cup {None}]
      /\ None \notin Executors
  BY InvFacts
<1>1. ASSUME \A e \in Executors, t \in Tasks : Holds(e, t)' <=> Holds(e, t),
             live' = live, home' = home
      PROVE  HomeInv' /\ LiveIsHeld'
  BY <1>0, <1>1 DEF HomeInv, LiveIsHeld
<1>2. ASSUME NEW x \in Tasks, NEW e \in Executors, Holds(e, x),
             live' = live \ {x}, home' = [home EXCEPT ![x] = None],
             \A g \in Executors, t \in Tasks : Holds(g, t)' <=> Holds(g, t) /\ t # x
      PROVE  HomeInv' /\ LiveIsHeld'
  BY <1>0, <1>2 DEF HomeInv, LiveIsHeld
<1>3. ASSUME NEW a \in Actors, NEW e \in Executors, Add(a, e) PROVE HomeInv' /\ LiveIsHeld'
  <2>. PICK t \in Tasks \ live : Added(a, e, t)
    BY <1>3, AddEffect
  <2>1. /\ live' = live \cup {t}
        /\ home' = [home EXCEPT ![t] = IF a \in Executors THEN a ELSE None]
        /\ incoming' = [incoming EXCEPT ![e] = @ \cup {t}]
        /\ a \in Executors => a = e \/ <<a, e>> \in Sends
        /\ working' = working /\ cur' = cur
    BY DEF Added, threadVars
  <2>2. \A g \in Executors : ~Holds(g, t)
    BY DEF NoDangling, Inv
  <2>3. \A g \in Executors, u \in Tasks : Holds(g, u)' <=> Holds(g, u) \/ (g = e /\ u = t)
    BY <1>0, <2>1 DEF Holds
  <2>4. HomeInv'
    BY <1>0, <2>1, <2>2, <2>3 DEF HomeInv
  <2>5. LiveIsHeld'
    BY <1>0, <2>1, <2>3 DEF LiveIsHeld
  <2>. QED
    BY <2>4, <2>5
<1>4. ASSUME NEW e \in Executors, Reload(e) PROVE HomeInv' /\ LiveIsHeld'
  <2>1. live' = live /\ home' = home /\ cur' = cur
    BY <1>4 DEF Reload, taskVars
  <2>2. \/ incoming' = incoming /\ working' = working
        \/ /\ incoming' = [incoming EXCEPT ![e] = working[e]]
           /\ working' = [working EXCEPT ![e] = incoming[e]]
    BY <1>4 DEF Reload
  <2>3. \A g \in Executors, t \in Tasks : Holds(g, t)' <=> Holds(g, t)
    BY <1>0, <2>1, <2>2 DEF Holds
  <2>. QED
    BY <1>1, <2>1, <2>3
<1>5. ASSUME NEW e \in Executors, Dequeue(e) PROVE HomeInv' /\ LiveIsHeld'
  <2>. DEFINE x == Top(working[e])
  <2>1. x \in working[e] /\ x \in Tasks
    BY <1>0, <1>5, TopIsIn DEF Dequeue
  <2>2. /\ cur' = [cur EXCEPT ![e] = x]
        /\ working' = [working EXCEPT ![e] = @ \ {x}]
        /\ incoming' = incoming /\ live' = live /\ home' = home
        /\ pc[e] = "drain"
    BY <1>5 DEF Dequeue, taskVars, Goto, At
  <2>3. cur[e] \notin Tasks
    BY <2>2, InvFacts DEF CurInv
  <2>. HIDE DEF x
  <2>4. \A g \in Executors, t \in Tasks : Holds(g, t)' <=> Holds(g, t)
    BY <1>0, <2>1, <2>2, <2>3 DEF Holds
  <2>. QED
    BY <1>1, <2>2, <2>4
<1>6. ASSUME NEW e \in Executors, Finish(e) \/ HandledHere(e) PROVE HomeInv' /\ LiveIsHeld'
  <2>. DEFINE x == cur[e]
  <2>1. /\ cur' = [cur EXCEPT ![e] = None] /\ live' = live \ {x}
        /\ home' = [home EXCEPT ![x] = None]
        /\ incoming' = incoming /\ working' = working
        /\ pc[e] \in {"handle", "finish"}
    BY <1>6 DEF Finish, HandledHere, ReleaseCurrent, Release, consumerVars, Goto, At
  <2>2. x \in Tasks
    BY <2>1, InvFacts DEF CurInv
  <2>3. Holds(e, x)
    BY DEF Holds
  <2>4. \A g \in Executors : Holds(g, x) => g = e /\ x \notin incoming[g] \cup working[g]
    BY <1>0, <2>2, <2>3 DEF NoDangling, Holds
  <2>5. x = cur[e]
    OBVIOUS
  <2>. HIDE DEF x
  <2>6. \A g \in Executors, t \in Tasks : Holds(g, t)' <=> Holds(g, t) /\ t # x
    BY <1>0, <2>1, <2>2, <2>4, <2>5 DEF Holds
  <2>. QED
    BY <1>2, <2>1, <2>2, <2>3, <2>6
<1>7. ASSUME NEW e \in Executors, HandledElsewhere(e) PROVE HomeInv' /\ LiveIsHeld'
  <2>. PICK t \in Tasks, f \in Executors \ {e} : SentBack(e, t, f)
    BY <1>7, HandledElsewhereEffect
  <2>1. /\ t = cur[e] /\ f = home[t]
        /\ incoming' = [incoming EXCEPT ![f] = @ \cup {t}]
        /\ cur' = [cur EXCEPT ![e] = None]
        /\ working' = working /\ live' = live /\ home' = home
    BY DEF SentBack
  <2>2. \A g \in Executors, u \in Tasks :
          Holds(g, u)' => Holds(g, u) \/ (g = f /\ u = t)
    BY <1>0, <2>1 DEF Holds
  <2>3. \A g \in Executors, u \in Tasks :
          Holds(g, u) => Holds(g, u)' \/ (g = e /\ u = t)
    BY <1>0, <2>1 DEF Holds
  <2>4. Holds(f, t)'
    BY <1>0, <2>1 DEF Holds
  <2>5. HomeInv'
    BY <1>0, <2>1, <2>2 DEF HomeInv
  <2>6. LiveIsHeld'
    BY <1>0, <2>1, <2>3, <2>4 DEF LiveIsHeld
  <2>. QED
    BY <2>5, <2>6
<1>8. ASSUME NEW e \in Executors, ClearWorking(e) PROVE HomeInv' /\ LiveIsHeld'
  <2>1. CASE working[e] = {}
    BY <1>1, <1>8, <2>1 DEF ClearWorking, taskVars, Holds
  <2>2. CASE working[e] # {}
    <3>. DEFINE x == Top(working[e])
    <3>1. x \in working[e] /\ x \in Tasks
      BY <1>0, <2>2, TopIsIn
    <3>2. /\ working' = [working EXCEPT ![e] = @ \ {x}] /\ live' = live \ {x}
          /\ home' = [home EXCEPT ![x] = None]
          /\ incoming' = incoming /\ cur' = cur
      BY <1>8, <2>2 DEF ClearWorking, Release
    <3>. HIDE DEF x
    <3>3. Holds(e, x)
      BY <3>1 DEF Holds
    <3>4. \A g \in Executors : Holds(g, x) => g = e /\ x \notin incoming[g] /\ cur[g] # x
      BY <1>0, <3>1, <3>3 DEF NoDangling, Holds
    <3>5. \A g \in Executors, t \in Tasks : Holds(g, t)' <=> Holds(g, t) /\ t # x
      BY <1>0, <3>1, <3>2, <3>4 DEF Holds
    <3>. QED
      BY <1>2, <3>1, <3>2, <3>3, <3>5
  <2>. QED
    BY <2>1, <2>2
<1>9. ASSUME NEW e \in Executors, ClearIncoming(e) PROVE HomeInv' /\ LiveIsHeld'
  <2>1. CASE incoming[e] = {}
    BY <1>1, <1>9, <2>1 DEF ClearIncoming, taskVars, Holds
  <2>2. CASE incoming[e] # {}
    <3>. DEFINE x == Top(incoming[e])
    <3>1. x \in incoming[e] /\ x \in Tasks
      BY <1>0, <2>2, TopIsIn
    <3>2. /\ incoming' = [incoming EXCEPT ![e] = @ \ {x}] /\ live' = live \ {x}
          /\ home' = [home EXCEPT ![x] = None]
          /\ working' = working /\ cur' = cur
      BY <1>9, <2>2 DEF ClearIncoming, Release
    <3>. HIDE DEF x
    <3>3. Holds(e, x)
      BY <3>1 DEF Holds
    <3>4. \A g \in Executors : Holds(g, x) => g = e /\ x \notin working[g] /\ cur[g] # x
      BY <1>0, <3>1, <3>3 DEF NoDangling, Holds
    <3>5. \A g \in Executors, t \in Tasks : Holds(g, t)' <=> Holds(g, t) /\ t # x
      BY <1>0, <3>1, <3>2, <3>4 DEF Holds
    <3>. QED
      BY <1>2, <3>1, <3>2, <3>3, <3>5
  <2>. QED
    BY <2>1, <2>2
<1>10. ASSUME NEW e \in Executors, OnThreadExit(e) PROVE HomeInv' /\ LiveIsHeld'
  <2>1. /\ incoming' = [incoming EXCEPT ![e] = {}] /\ working' = [working EXCEPT ![e] = {}]
        /\ cur' = cur /\ live' = live /\ home' = home /\ pc[e] = "exit"
    BY <1>10 DEF OnThreadExit, taskVars, Goto, At
  <2>2. finished[e]
    BY <2>1, InvFacts DEF ThreadInv
  <2>3. incoming[e] = {} /\ working[e] = {}
    BY <2>1, <2>2, InvFacts DEF ClearedInv, DrainedInv
  <2>4. \A g \in Executors, t \in Tasks : Holds(g, t)' <=> Holds(g, t)
    BY <1>0, <2>1, <2>3 DEF Holds
  <2>. QED
    BY <1>1, <2>1, <2>4
<1>11. ASSUME UNCHANGED <<incoming, working, cur, live, home>> PROVE HomeInv' /\ LiveIsHeld'
  BY <1>1, <1>11 DEF Holds
<1>12. ASSUME NEW e \in Executors,
              Start(e) \/ ThreadRun(e) \/ TestFinished(e) \/ Block(e) \/ SpuriousWake(e)
                \/ LeaveDrain(e) \/ Stop(e)
       PROVE HomeInv' /\ LiveIsHeld'
  BY <1>11, <1>12
  DEF Start, ThreadRun, TestFinished, Block, SpuriousWake, LeaveDrain, Stop, SetFinished,
      NotifyFinished, SetThreadExit, Join, consumerVars, taskVars
<1>13. ASSUME NEW a \in Actors, Notify(a) PROVE HomeInv' /\ LiveIsHeld'
  BY <1>11, <1>13 DEF Notify, consumerVars, taskVars
<1>14. ASSUME UNCHANGED vars PROVE HomeInv' /\ LiveIsHeld'
  BY <1>11, <1>14 DEF vars, consumerVars, threadVars, taskVars
<1>. QED
  BY <1>3, <1>4, <1>5, <1>6, <1>7, <1>8, <1>9, <1>10, <1>12, <1>13, <1>14 DEF Next, Thread

-----------------------------------------------------------------------------
(* Every step keeps the invariant, if the contract is kept.                *)
LEMMA NextInv == Inv /\ Contract /\ [Next]_vars => Inv'
BY NextTypeInv, NextNoDangling, NextWakeInv, NextThreadInv, NextPostInv, NextHeld
   DEF Inv, ContractInv

(* Nothing is left of an executor that has stopped, neither in its queues  *)
(* nor in those of the executors it posts to, which stopped before it.     *)
LEMMA InvStoppedIsClean == Inv => StoppedIsClean
<1>. SUFFICES ASSUME Inv, NEW e \in Executors, stop[e] = "stopped", NEW t \in Tasks
              PROVE  ~Holds(e, t) /\ (t \in live => home[t] # e)
  BY DEF StoppedIsClean, Inv, ContractInv, LiveIsHeld
<1>1. \A f \in Executors : stop[f] = "stopped" => ~Holds(f, t)
  BY InvFacts DEF ThreadInv, ClearedInv, DrainedInv, CurInv, Holds
<1>2. ASSUME t \in live, home[t] = e PROVE FALSE
  <2>1. PICK f \in Executors : Holds(f, t)
    BY <1>2, InvFacts DEF LiveIsHeld
  <2>2. f # e
    BY <1>1, <2>1
  <2>3. <<e, f>> \in Sends
    BY <1>2, <2>1, <2>2, InvFacts DEF HomeInv
  <2>4. stop[f] = "stopped"
    BY <2>2, <2>3, InvFacts DEF StopOrder
  <2>. QED
    BY <1>1, <2>1, <2>4
<1>. QED
  BY <1>1, <1>2

(* Whatever executors pass to each other and in whichever order their      *)
(* owner stops them within the contract: nobody touches a deleted          *)
(* TaskConsumer, and an executor whose Stop has returned leaves no Task.   *)
THEOREM StoppedExecutorsAreClean == Spec => []StoppedIsClean
<1>1. CASE Contract
  <2>1. Inv /\ [Next]_vars => Inv'
    BY <1>1, NextInv
  <2>. QED
    BY InitInv, <2>1, InvStoppedIsClean, PTL DEF Spec
<1>2. CASE ~Contract
  <2>1. StoppedIsClean
    BY <1>2 DEF StoppedIsClean
  <2>. QED
    BY <2>1, PTL
<1>. QED
  BY <1>1, <1>2, TaskThreadAssumption
=============================================================================
