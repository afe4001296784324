--------------------------- MODULE ExecutorProofs ---------------------------
(***************************************************************************)
(* Proofs about the executors' parts and the servers.                      *)
(*                                                                         *)
(* The queue of a CPU pool (LifoSemBlockingQueue): its types, and that no  *)
(* taker sleeps on work with kBehavior = BLOCK, for any number of adders,  *)
(* takers, items and any capacity.                                         *)
(*                                                                         *)
(* The I/O pools and the server's executor service: a thread that is in a  *)
(* list runs, until the owner removes it, and after StartAccpet every I/O  *)
(* thread accepts.  For any number of threads, functions and workers.  The *)
(* invariant has four layers: types, the books of the pools (lists,        *)
(* threads that end, and the count of those the owner still waits for),    *)
(* where a client's function is, and how far the hand-over of the accept   *)
(* callbacks is.                                                           *)
(*                                                                         *)
(* gRPC: of the calls, one invariant of the contexts and the thread that   *)
(* deletes them (CallsInv); of the server, where its thread is when its    *)
(* owner is in or between its calls (GrpcServerInv).                       *)
(***************************************************************************)
EXTENDS LifoSemBlockingQueue, ServerExecutorService, GrpcService,
        FiniteSetTheorems, SequenceTheorems, TLAPS

(* How many actors are at a point.                                         *)
NumAt(p) == Cardinality(AtPoint(p))

(* The types, and that an Add under way has an item.                       *)
TypeInv ==
  /\ TypeOK
  /\ \A a \in Actors : point[a] \in {"write", "blockingWrite"} => arg[a] \in Items

(* With kBehavior = BLOCK the case THROW is not entered, and all queued    *)
(* work is covered.                                                        *)
BlockInv ==
  behavior = "BLOCK" =>
    /\ \A a \in Actors : point[a] \notin {"write", "thrown"}
    /\ Covered

-----------------------------------------------------------------------------
(* There are finitely many actors at a point.                              *)
LEMMA NumAtIsNat == \A p : IsFiniteSet(AtPoint(p)) /\ NumAt(p) \in Nat
<1>1. IsFiniteSet(Actors)
  BY QueueAssumption, FS_Union DEF Actors
<1>. QED
  BY <1>1, FS_Subset, FS_CardinalityType DEF AtPoint, NumAt

(* A step of an actor from one point to another changes these two numbers  *)
(* by one, and no other.                                                   *)
LEMMA StepMoves ==
  ASSUME TypeOK, NEW a \in Actors, NEW from \in Points, NEW to \in Points,
         from # to, Step(a, from, to)
  PROVE  /\ NumAt(from)' = NumAt(from) - 1 /\ NumAt(from)' \in Nat
         /\ NumAt(to)' = NumAt(to) + 1
         /\ \A p \in Points \ {from, to} : NumAt(p)' = NumAt(p)
<1>1. point \in [Actors -> Points] /\ point[a] = from /\ point' = [point EXCEPT ![a] = to]
  BY DEF TypeOK, Step
<1>2. /\ AtPoint(from)' = AtPoint(from) \ {a}
      /\ AtPoint(to)' = AtPoint(to) \cup {a}
      /\ \A p \in Points \ {from, to} : AtPoint(p)' = AtPoint(p)
  BY <1>1 DEF AtPoint
<1>3. a \in AtPoint(from) /\ a \notin AtPoint(to)
  BY <1>1 DEF AtPoint
<1>4. NumAt(from)' = NumAt(from) - 1 /\ NumAt(from)' \in Nat
  BY <1>2, <1>3, NumAtIsNat, FS_RemoveElement, FS_CardinalityType DEF NumAt
<1>5. NumAt(to)' = NumAt(to) + 1
  BY <1>2, <1>3, NumAtIsNat, FS_AddElement DEF NumAt
<1>. QED
  BY <1>2, <1>4, <1>5 DEF NumAt

-----------------------------------------------------------------------------
(* The types hold of an empty queue that nobody uses.                      *)
LEMMA InitTypeInv == Init => TypeInv
BY QueueAssumption DEF Init, TypeInv, TypeOK, Points

(* Every step preserves the types.                                         *)
LEMMA NextTypeInv == TypeInv /\ [Next]_vars => TypeInv'
<1>. SUFFICES ASSUME TypeInv, [Next]_vars PROVE TypeInv'
  OBVIOUS
<1>. USE QueueAssumption DEF TypeInv, TypeOK, Step
<1>1. ASSUME NEW a \in Adders, NEW i \in Items, BeginAdd(a, i) PROVE TypeInv'
  BY <1>1 DEF BeginAdd, Actors, Points
<1>2. ASSUME NEW a \in Adders, Write(a) PROVE TypeInv'
  <2>1. arg[a] \in Items /\ queue' = Append(queue, arg[a]) /\ Len(queue) < Capacity
    BY <1>2 DEF Write, Full, Actors
  <2>2. queue' \in Seq(Items) /\ Len(queue') = Len(queue) + 1
    BY <2>1
  <2>. QED
    BY <1>2, <2>1, <2>2 DEF Write, Actors, Points
<1>3. ASSUME NEW a \in Adders, Throw(a) \/ Post(a) \/ Catch(a) PROVE TypeInv'
  BY <1>3 DEF Throw, Post, Catch, Actors, Points
<1>4. ASSUME NEW a \in Adders, BlockingWrite(a) PROVE TypeInv'
  <2>1. arg[a] \in Items /\ queue' = Append(queue, arg[a]) /\ Len(queue) < Capacity
    BY <1>4 DEF BlockingWrite, Full, Actors
  <2>2. queue' \in Seq(Items) /\ Len(queue') = Len(queue) + 1
    BY <2>1
  <2>. QED
    BY <1>4, <2>1, <2>2 DEF BlockingWrite, Actors, Points
<1>5. ASSUME NEW a \in Takers, BeginTake(a) \/ ReadEmpty(a) \/ Wait(a) \/ Consume(a)
      PROVE TypeInv'
  BY <1>5 DEF BeginTake, ReadEmpty, Wait, Consume, Actors, Points
<1>6. ASSUME NEW a \in Takers, Read(a) PROVE TypeInv'
  <2>1. Head(queue) \in Items /\ queue' \in Seq(Items) /\ Len(queue') = Len(queue) - 1
    BY <1>6 DEF Read
  <2>. QED
    BY <1>6, <2>1 DEF Read, Actors, Points
<1>7. ASSUME UNCHANGED vars PROVE TypeInv'
  BY <1>7 DEF vars
<1>. QED
  BY <1>1, <1>2, <1>3, <1>4, <1>5, <1>6, <1>7 DEF Next, AddStep, TakeStep

-----------------------------------------------------------------------------
(* An empty queue has no work to cover.                                    *)
LEMMA InitBlockInv == Init => BlockInv
<1>. SUFFICES ASSUME Init PROVE BlockInv
  OBVIOUS
<1>1. Len(queue) = 0 /\ sem = 0
  BY DEF Init
<1>. QED
  BY <1>1, NumAtIsNat DEF Init, BlockInv, Covered, NumAt

(* Every step preserves the cover of the queued work: a blockingWrite      *)
(* brings its post, a post raises the semaphore, a wait brings a read, and *)
(* a read that finds nothing needs no cover.                               *)
LEMMA NextBlockInv == TypeInv /\ BlockInv /\ [Next]_vars => BlockInv'
<1>. SUFFICES ASSUME TypeInv, BlockInv, [Next]_vars, behavior = "BLOCK" PROVE BlockInv'
  BY DEF BlockInv, Next, AddStep, TakeStep, BeginAdd, Write, Throw, BlockingWrite, Post,
         Catch, BeginTake, Read, ReadEmpty, Wait, Consume, Step, vars
<1>0. /\ TypeOK /\ queue \in Seq(Items) /\ sem \in Nat /\ point \in [Actors -> Points]
      /\ \A a \in Actors : point[a] \notin {"write", "thrown"}
      /\ Len(queue) \in Nat /\ Len(queue) <= sem + NumAt("post") + NumAt("read")
  BY DEF TypeInv, TypeOK, BlockInv, Covered, NumAt
<1>. DEFINE Goal == Len(queue') <= sem' + NumAt("post")' + NumAt("read")'
<1>1. ASSUME NEW a \in Adders, NEW i \in Items, BeginAdd(a, i) PROVE BlockInv'
  <2>1. Step(a, "out", "blockingWrite") /\ UNCHANGED <<queue, sem>>
    BY <1>1 DEF BeginAdd
  <2>2. Goal
    BY <1>0, <2>1, StepMoves DEF Actors, Points
  <2>. QED
    BY <1>0, <2>1, <2>2 DEF BlockInv, Covered, NumAt, Step
<1>2. ASSUME NEW a \in Adders, BlockingWrite(a) PROVE BlockInv'
  <2>1. Step(a, "blockingWrite", "post") /\ sem' = sem /\ Len(queue') = Len(queue) + 1
    BY <1>0, <1>2 DEF BlockingWrite
  <2>2. Goal
    BY <1>0, <2>1, StepMoves, NumAtIsNat DEF Actors, Points
  <2>. QED
    BY <1>0, <2>1, <2>2 DEF BlockInv, Covered, NumAt, Step
<1>3. ASSUME NEW a \in Adders, Post(a) PROVE BlockInv'
  <2>1. Step(a, "post", "out") /\ sem' = sem + 1 /\ queue' = queue
    BY <1>3 DEF Post
  <2>2. Goal
    BY <1>0, <2>1, StepMoves, NumAtIsNat DEF Actors, Points
  <2>. QED
    BY <1>0, <2>1, <2>2 DEF BlockInv, Covered, NumAt, Step
<1>4. ASSUME NEW a \in Adders, Write(a) \/ Throw(a) \/ Catch(a) PROVE FALSE
  BY <1>0, <1>4 DEF Write, Throw, Catch, Step, Actors
<1>5. ASSUME NEW a \in Takers, BeginTake(a) PROVE BlockInv'
  <2>1. Step(a, "out", "read") /\ UNCHANGED <<queue, sem>>
    BY <1>5 DEF BeginTake
  <2>2. Goal
    BY <1>0, <2>1, StepMoves, NumAtIsNat DEF Actors, Points
  <2>. QED
    BY <1>0, <2>1, <2>2 DEF BlockInv, Covered, NumAt, Step
<1>6. ASSUME NEW a \in Takers, Read(a) PROVE BlockInv'
  <2>1. Step(a, "read", "taken") /\ sem' = sem /\ Len(queue') = Len(queue) - 1
    BY <1>0, <1>6 DEF Read
  <2>2. Goal
    BY <1>0, <2>1, StepMoves, NumAtIsNat DEF Actors, Points
  <2>. QED
    BY <1>0, <2>1, <2>2 DEF BlockInv, Covered, NumAt, Step
<1>7. ASSUME NEW a \in Takers, ReadEmpty(a) PROVE BlockInv'
  <2>1. Step(a, "read", "wait") /\ sem' = sem /\ Len(queue') = 0
    BY <1>0, <1>7 DEF ReadEmpty
  <2>2. NumAt("post")' \in Nat /\ NumAt("read")' \in Nat
    BY <1>0, <2>1, StepMoves, NumAtIsNat DEF Actors, Points
  <2>3. Goal
    BY <1>0, <2>1, <2>2
  <2>. QED
    BY <1>0, <2>1, <2>3 DEF BlockInv, Covered, NumAt, Step
<1>8. ASSUME NEW a \in Takers, Wait(a) PROVE BlockInv'
  <2>1. Step(a, "wait", "read") /\ sem' = sem - 1 /\ queue' = queue
    BY <1>8 DEF Wait
  <2>2. Goal
    BY <1>0, <2>1, StepMoves, NumAtIsNat DEF Actors, Points
  <2>. QED
    BY <1>0, <2>1, <2>2 DEF BlockInv, Covered, NumAt, Step
<1>9. ASSUME NEW a \in Takers, Consume(a) PROVE BlockInv'
  <2>1. Step(a, "taken", "out") /\ UNCHANGED <<queue, sem>>
    BY <1>9 DEF Consume
  <2>2. Goal
    BY <1>0, <2>1, StepMoves, NumAtIsNat DEF Actors, Points
  <2>. QED
    BY <1>0, <2>1, <2>2 DEF BlockInv, Covered, NumAt, Step
<1>10. ASSUME UNCHANGED vars PROVE BlockInv'
  BY <1>10 DEF vars, BlockInv, Covered, AtPoint
<1>. QED
  BY <1>1, <1>2, <1>3, <1>4, <1>5, <1>6, <1>7, <1>8, <1>9, <1>10
  DEF Next, AddStep, TakeStep

-----------------------------------------------------------------------------
(* The types of the queue hold for both behaviours.                        *)
THEOREM QueueTypeCorrect == Spec => []TypeOK
<1>1. TypeInv => TypeOK
  BY DEF TypeInv
<1>. QED
  BY <1>1, InitTypeInv, NextTypeInv, PTL DEF Spec

(* With kBehavior = BLOCK every queued item has a post in the semaphore or *)
(* on its way, or a taker about to read.                                   *)
THEOREM QueuedWorkIsCovered == Spec => [](behavior = "BLOCK" => Covered)
<1>1. BlockInv => (behavior = "BLOCK" => Covered)
  BY DEF BlockInv
<1>. QED
  BY <1>1, InitTypeInv, NextTypeInv, InitBlockInv, NextBlockInv, PTL DEF Spec

(* Take never leaves a taker asleep on queued work that nobody will wake   *)
(* it for (LifoSemBlockingQueue::Take tests the queue before it waits).    *)
THEOREM NobodySleepsOnWork == Spec => []NoSleepOnWork
<1>1. TypeOK /\ (behavior = "BLOCK" => Covered) => NoSleepOnWork
  <2>. SUFFICES ASSUME TypeOK, Covered, queue # <<>>, sem = 0,
                       AtPoint("post") = {}, AtPoint("read") = {}
                PROVE FALSE
    BY DEF NoSleepOnWork, TypeOK
  <2>1. Len(queue) \in Nat /\ Len(queue) > 0
    BY DEF TypeOK
  <2>2. Cardinality(AtPoint("post")) = 0 /\ Cardinality(AtPoint("read")) = 0
    BY FS_EmptySet
  <2>. QED
    BY <2>1, <2>2 DEF Covered
<1>. QED
  BY <1>1, QueueTypeCorrect, QueuedWorkIsCovered, PTL

-----------------------------------------------------------------------------
Names == Funcs \cup {"start", "accept", "destroy"}
Functions == {Func(n) : n \in Names} \cup {CallbackFunc(j) : j \in Threads}

Mains == {"construct", "constructed", "start", "barrier", "latch", "serving",
          "destroying", "stopIO", "stopAcceptor"}

-----------------------------------------------------------------------------
(* Types.                                                                   *)
OwnerCalls == [do : {"idle", "create", "register", "exit", "join", "joining"},
          pool : Pools \cup {None}, left : Nat, id : Threads \cup {0}]

PoolTypes ==
  /\ nextUID \in Nat \ {0}
  /\ threadList \in [Pools -> Seq(Threads)]
  /\ curCount \in [Pools -> Nat]
  /\ pick \in [Pools -> Nat]
  /\ stoppedThread \in [Pools -> Seq(Threads)]
  /\ at \in [Threads -> {"none", "created", "ready", "loop", "drain", "ended"}]
  /\ events \in [Threads -> Seq(Functions)]
  /\ terminate \in [Threads -> BOOLEAN]
  /\ owner \in OwnerCalls
  /\ overlap \in BOOLEAN /\ destroyedUsed \in BOOLEAN

ServiceTypes ==
  /\ mainAt \in Mains
  /\ acceptThread \in Threads \cup {0}
  /\ callbacks \in Seq(Threads)
  /\ latch \in Int
  /\ waiting \subseteq Threads
  /\ added \subseteq Funcs
  /\ ran \in [Funcs -> Threads \cup {0}]

Types == PoolTypes /\ ServiceTypes

-----------------------------------------------------------------------------
(* The books of the pools.                                                  *)
Once(s) == \A k, l \in DOMAIN s : s[k] = s[l] => k = l
Listed(p) == ToSet(threadList[p])
Doomed(p) == {i \in Listed(p) : terminate[i]}
InHand == owner.do = "register"

(* A list has a thread once, and no other list has it.                      *)
ListsInv ==
  /\ \A p \in Pools : Once(threadList[p])
  /\ \A p, q \in Pools : p # q => Listed(p) \cap Listed(q) = {}
  /\ \A p \in Pools : \A i \in Listed(p) : at[i] \notin {"none", "created"}

(* A thread that runs is listed or in the owner's hands; only listed        *)
(* threads are told to end, and only such leave their loop.                 *)
ThreadsInv ==
  /\ \A i \in Threads : at[i] # "none" => i < nextUID
  /\ \A i \in Threads :
       at[i] \notin {"none", "ended"} => (InHand /\ owner.id = i) \/ (\E p \in Pools : i \in Listed(p))
  /\ \A i \in Threads : at[i] \in {"drain", "ended"} => terminate[i]
  /\ \A i \in Threads : terminate[i] => at[i] \notin {"none", "created"}

(* A stopped thread is in its pool's list until it is joined.               *)
StoppedInv ==
  \A p \in Pools :
    /\ Once(stoppedThread[p])
    /\ \A i \in ToSet(stoppedThread[p]) : i \in Listed(p) /\ at[i] \in {"drain", "ended"}

(* The owner's call: what it holds, and what it has still to do.            *)
OwnerInv ==
  /\ owner.do = "idle" => owner = Idle
  /\ owner.do # "idle" => owner.pool \in Pools
  /\ owner.do \notin {"register", "joining"} => owner.id = 0
  /\ owner.do = "register" =>
       /\ owner.left > 0 /\ owner.id \in Threads
       /\ at[owner.id] \in {"created", "ready", "loop"} /\ ~terminate[owner.id]
       /\ \A p \in Pools : owner.id \notin Listed(p)
  /\ owner.do = "exit" => owner.left <= Len(threadList[owner.pool])
  /\ owner.do = "joining" =>
       /\ owner.left > 0 /\ owner.id \in Listed(owner.pool)
       /\ at[owner.id] \in {"drain", "ended"}
       /\ owner.id \notin ToSet(stoppedThread[owner.pool])
  /\ \A p \in Pools :
       owner.do \in {"idle", "exit"} \/ owner.pool # p => curCount[p] = Len(threadList[p])

(* The threads of the list that were told to end are those the owner has    *)
(* still to join.                                                           *)
DoomedInv ==
  \A p \in Pools : IF Removing(p) THEN Cardinality(Doomed(p)) = owner.left ELSE Doomed(p) = {}

PoolInv == ListsInv /\ ThreadsInv /\ StoppedInv /\ OwnerInv /\ DoomedInv
             /\ (~overlap => ~destroyedUsed)

-----------------------------------------------------------------------------
(* Where functions are.                                                     *)
In(s, e) == \E k \in DOMAIN s : s[k] = e
InOnce(s, e) == \A k, l \in DOMAIN s : s[k] = e /\ s[l] = e => k = l

(* An event is in the queues once at most.                                  *)
Single(e) ==
  /\ \A i \in Threads : InOnce(events[i], e)
  /\ \A i, j \in Threads : In(events[i], e) /\ In(events[j], e) => i = j

FuncsInv ==
  \A f \in Funcs :
    /\ Single(Func(f))
    /\ \A i \in Threads : In(events[i], Func(f)) => f \in added /\ ran[f] = 0 /\ Func(f) \notin lost
    /\ ran[f] # 0 => f \in added /\ Func(f) \notin lost
    /\ Func(f) \in lost => f \in added
    /\ f \in added /\ ~destroyedUsed =>
         ran[f] # 0 \/ Func(f) \in lost \/ \E i \in Threads : In(events[i], Func(f))

-----------------------------------------------------------------------------
(* The hand-over, until OnDestroy.                                          *)
Early == mainAt \in {"construct", "constructed", "start", "barrier", "latch", "serving"}
HandingOver == mainAt \in {"latch", "serving"}

(* How many threads a pool is to have.                                      *)
Goal(p) ==
  IF p = IO THEN IF mainAt = "construct" THEN 0 ELSE IO_WORKER_COUNT
  ELSE IF mainAt \in {"construct", "constructed"} THEN 0 ELSE 1

SizesInv ==
  /\ owner.do \in {"idle", "create", "register"}
  /\ mainAt = "construct" \/ mainAt = "barrier" \/ HandingOver => owner = Idle
  /\ \A p \in Pools :
       Len(threadList[p]) + (IF owner.pool = p THEN owner.left ELSE 0) = Goal(p)

SocketInv ==
  /\ "start" \in posted => acceptThread \in Listed(Acceptor)
  /\ HandingOver => "start" \in posted
  /\ \A i \in Threads :
       /\ In(events[i], Func("start")) => i \in Listed(Acceptor)
       /\ ~In(events[i], Func("destroy"))

(* An I/O thread has the function of addAll queued, or waits for the        *)
(* acceptor's thread, or has its callback.                                  *)
CallbacksInv ==
  /\ \A i \in Threads : In(events[i], Func("accept")) =>
       /\ HandingOver /\ i \in Listed(IO) /\ i \notin waiting /\ i \notin ToSet(callbacks)
       /\ InOnce(events[i], Func("accept"))
       /\ \A k \in Threads : ~In(events[k], CallbackFunc(i))
  /\ \A j \in Threads :
       /\ Single(CallbackFunc(j))
       /\ \A i \in Threads : In(events[i], CallbackFunc(j)) =>
            HandingOver /\ j \in Listed(IO) /\ j \in waiting /\ j \notin ToSet(callbacks)
  /\ waiting # {} \/ callbacks # <<>> => HandingOver
  /\ Once(callbacks) /\ ToSet(callbacks) \subseteq Listed(IO)
  /\ latch + Len(callbacks) = IO_WORKER_COUNT
  /\ mainAt = "serving" => latch = 0

HandshakeInv == Early => SizesInv /\ SocketInv /\ CallbacksInv

ServerInv == Types /\ PoolInv /\ FuncsInv /\ HandshakeInv

-----------------------------------------------------------------------------
(* A sequence with one element more, with its head taken, and with one      *)
(* element erased.                                                          *)
LEMMA AppendElement ==
  ASSUME NEW S, NEW s \in Seq(S), NEW e \in S
  PROVE  /\ Append(s, e) \in Seq(S) /\ Len(Append(s, e)) = Len(s) + 1
         /\ ToSet(Append(s, e)) = ToSet(s) \cup {e}
         /\ Once(s) /\ e \notin ToSet(s) => Once(Append(s, e))
         /\ \A x : In(Append(s, e), x) <=> In(s, x) \/ x = e
         /\ \A x : InOnce(s, x) /\ (x = e => ~In(s, x)) => InOnce(Append(s, e), x)
<1>. DEFINE n == Len(s)
            u == Append(s, e)
<1>1. /\ n \in Nat /\ Len(u) = n + 1 /\ u \in Seq(S)
      /\ DOMAIN s = 1..n /\ DOMAIN u = 1..(n + 1)
      /\ \A i \in 1..n : u[i] = s[i]
      /\ u[n + 1] = e
  OBVIOUS
<1>2. \A i \in 1..(n + 1) : i \in 1..n \/ i = n + 1
  BY <1>1
<1>3. 1..n \subseteq 1..(n + 1) /\ n + 1 \in 1..(n + 1) /\ n + 1 \notin 1..n
  BY <1>1
<1>. HIDE DEF n, u
<1>4. ToSet(s) = {s[i] : i \in 1..n} /\ ToSet(u) = {u[i] : i \in 1..(n + 1)}
  BY <1>1 DEF ToSet
<1>5. ToSet(u) = ToSet(s) \cup {e}
  <2>1. \A x \in ToSet(u) : x \in ToSet(s) \cup {e}
    BY <1>1, <1>2, <1>4
  <2>2. \A x \in ToSet(s) \cup {e} : x \in ToSet(u)
    BY <1>1, <1>3, <1>4
  <2>. QED
    BY <2>1, <2>2
<1>6. Once(s) /\ e \notin ToSet(s) => Once(u)
  BY <1>1, <1>2, <1>4 DEF Once
<1>7. \A x : In(u, x) <=> In(s, x) \/ x = e
  BY <1>1, <1>2, <1>3 DEF In
<1>8. \A x : InOnce(s, x) /\ (x = e => ~In(s, x)) => InOnce(u, x)
  BY <1>1, <1>2 DEF In, InOnce
<1>. QED
  BY <1>1, <1>5, <1>6, <1>7, <1>8 DEF n, u

LEMMA TakeHead ==
  ASSUME NEW S, NEW s \in Seq(S), s # <<>>
  PROVE  /\ Tail(s) \in Seq(S) /\ Head(s) \in S
         /\ Head(s) \in ToSet(s) /\ ToSet(Tail(s)) \subseteq ToSet(s)
         /\ Once(s) => Once(Tail(s)) /\ Head(s) \notin ToSet(Tail(s))
         /\ \A x : In(s, x) <=> x = Head(s) \/ In(Tail(s), x)
         /\ \A x : InOnce(s, x) => InOnce(Tail(s), x) /\ (x = Head(s) => ~In(Tail(s), x))
<1>. DEFINE n == Len(s)
            u == Tail(s)
<1>1. /\ n \in Nat /\ n > 0 /\ Len(u) = n - 1 /\ u \in Seq(S)
      /\ \A i \in 1..(n - 1) : u[i] = s[i + 1]
      /\ Head(s) = s[1] /\ Head(s) \in S
      /\ DOMAIN s = 1..n /\ DOMAIN u = 1..(n - 1)
  BY EmptySeq, HeadTailProperties, LenProperties
<1>. HIDE DEF n, u
<1>2. \A i \in 1..(n - 1) : i + 1 \in 1..n /\ i + 1 # 1
  BY <1>1
<1>3. 1 \in 1..n /\ \A i \in 1..n : i = 1 \/ (i - 1 \in 1..(n - 1) /\ (i - 1) + 1 = i)
  BY <1>1
<1>4. ToSet(s) = {s[i] : i \in 1..n} /\ ToSet(u) = {u[i] : i \in 1..(n - 1)}
  BY <1>1 DEF ToSet
<1>5. ToSet(u) \subseteq ToSet(s) /\ s[1] \in ToSet(s)
  BY <1>1, <1>2, <1>3, <1>4
<1>6. ASSUME NEW k \in 1..(n - 1), NEW l \in 1..(n - 1), k + 1 = l + 1 PROVE k = l
  BY <1>6
<1>7. Once(s) => Once(u) /\ s[1] \notin ToSet(u)
  <2>. SUFFICES ASSUME Once(s) PROVE Once(u) /\ s[1] \notin ToSet(u)
    OBVIOUS
  <2>1. \A k, l \in 1..n : s[k] = s[l] => k = l
    BY <1>1 DEF Once
  <2>2. \A k, l \in 1..(n - 1) : u[k] = u[l] => k = l
    BY <1>1, <1>2, <1>6, <2>1
  <2>3. \A k \in 1..(n - 1) : u[k] # s[1]
    BY <1>1, <1>2, <1>3, <2>1
  <2>. QED
    BY <1>1, <1>4, <2>2, <2>3 DEF Once
<1>8. \A x : In(s, x) <=> x = s[1] \/ In(u, x)
  <2>. SUFFICES ASSUME NEW x
       PROVE (\E k \in 1..n : s[k] = x) <=> x = s[1] \/ (\E k \in 1..(n - 1) : u[k] = x)
    BY <1>1 DEF In
  <2>1. ASSUME NEW k \in 1..n, s[k] = x, x # s[1] PROVE \E j \in 1..(n - 1) : u[j] = x
    BY <1>1, <1>3, <2>1
  <2>2. ASSUME NEW k \in 1..(n - 1), u[k] = x PROVE \E j \in 1..n : s[j] = x
    BY <1>1, <1>2, <2>2
  <2>. QED
    BY <1>3, <2>1, <2>2
<1>9. \A x : InOnce(s, x) => InOnce(u, x) /\ (x = s[1] => ~In(u, x))
  <2>. SUFFICES ASSUME NEW x, \A k, l \in 1..n : s[k] = x /\ s[l] = x => k = l
       PROVE  /\ \A k, l \in 1..(n - 1) : u[k] = x /\ u[l] = x => k = l
              /\ x = s[1] => \A k \in 1..(n - 1) : u[k] # x
    BY <1>1 DEF In, InOnce
  <2>1. \A k, l \in 1..(n - 1) : u[k] = x /\ u[l] = x => k = l
    BY <1>1, <1>2, <1>6
  <2>2. x = s[1] => \A k \in 1..(n - 1) : u[k] # x
    BY <1>1, <1>2, <1>3
  <2>. QED
    BY <2>1, <2>2
<1>. QED
  BY <1>1, <1>5, <1>7, <1>8, <1>9 DEF u

(* The elements behind position k.                                          *)
LEMMA AfterPosition ==
  ASSUME NEW S, NEW s \in Seq(S), NEW k \in 1..Len(s)
  PROVE  /\ SubSeq(s, k + 1, Len(s)) \in Seq(S)
         /\ Len(SubSeq(s, k + 1, Len(s))) = Len(s) - k
         /\ \A j \in 1..(Len(s) - k) : SubSeq(s, k + 1, Len(s))[j] = s[j + k]
<1>. DEFINE m == k + 1
            n == Len(s)
            v == SubSeq(s, m, n)
<1>1. m \in Int /\ n \in Nat /\ k \in 1..n /\ m = k + 1 /\ \A i \in m..n : s[i] \in S
  OBVIOUS
<1>2. v = SubSeq(s, k + 1, Len(s)) /\ n = Len(s)
  OBVIOUS
<1>. HIDE DEF m, n
<1>3. /\ v \in Seq(S) /\ Len(v) = IF m <= n THEN n - m + 1 ELSE 0
      /\ \A j \in 1..(n - m + 1) : v[j] = s[m + j - 1]
  BY <1>1, SubSeqProperties
<1>. HIDE DEF v
<1>4. Len(v) = n - k
  BY <1>1, <1>3
<1>5. ASSUME NEW j \in 1..(n - k) PROVE v[j] = s[j + k]
  <2>1. j \in 1..(n - m + 1) /\ m + j - 1 = j + k
    BY <1>1
  <2>. QED
    BY <1>3, <2>1
<1>. QED
  BY <1>2, <1>3, <1>4, <1>5

(* A list after an element that is in it once is erased.                   *)
LEMMA WithoutOnce ==
  ASSUME NEW S, NEW s \in Seq(S), NEW k \in 1..Len(s), Once(s)
  PROVE  /\ Without(s, s[k]) \in Seq(S) /\ Len(Without(s, s[k])) = Len(s) - 1
         /\ \A j \in 1..(Len(s) - 1) : Without(s, s[k])[j] = IF j < k THEN s[j] ELSE s[j + 1]
         /\ ToSet(Without(s, s[k])) = ToSet(s) \ {s[k]}
         /\ Once(Without(s, s[k]))
<1>. DEFINE t == SubSeq(s, 1, k - 1) \o SubSeq(s, k + 1, Len(s))
<1>1. Len(s) \in Nat /\ k \in Nat /\ 1 <= k /\ k <= Len(s) /\ DOMAIN s = 1..Len(s)
  OBVIOUS
<1>2. (CHOOSE i \in DOMAIN s : s[i] = s[k]) = k
  BY <1>1 DEF Once
<1>3. s[k] \in ToSet(s)
  BY <1>1 DEF ToSet
<1>4. Without(s, s[k]) = t
  BY <1>2, <1>3 DEF Without, RemoveAt
<1>5. /\ t \in Seq(S) /\ Len(t) = Len(s) - 1 /\ DOMAIN t = 1..(Len(s) - 1)
      /\ \A j \in 1..(Len(s) - 1) : t[j] = IF j < k THEN s[j] ELSE s[j + 1]
  <2>. DEFINE u == SubSeq(s, 1, k - 1)
              v == SubSeq(s, k + 1, Len(s))
  <2>1. /\ u \in Seq(S) /\ Len(u) = k - 1 /\ \A j \in 1..(k - 1) : u[j] = s[j]
    BY <1>1
  <2>2. /\ v \in Seq(S) /\ Len(v) = Len(s) - k
        /\ \A j \in 1..(Len(s) - k) : v[j] = s[j + k]
    BY AfterPosition
  <2>. HIDE DEF u, v
  <2>3. /\ u \o v \in Seq(S) /\ Len(u \o v) = Len(s) - 1 /\ DOMAIN (u \o v) = 1..(Len(s) - 1)
        /\ \A j \in 1..(Len(s) - 1) : (u \o v)[j] = IF j <= k - 1 THEN u[j] ELSE v[j - (k - 1)]
    <3>1. /\ u \o v \in Seq(S) /\ Len(u \o v) = Len(u) + Len(v)
          /\ \A j \in 1..(Len(u) + Len(v)) :
               (u \o v)[j] = IF j <= Len(u) THEN u[j] ELSE v[j - Len(u)]
      BY <2>1, <2>2, ConcatProperties
    <3>2. Len(u) + Len(v) = Len(s) - 1
      BY <1>1, <2>1, <2>2
    <3>. QED
      BY <2>1, <3>1, <3>2, LenProperties
  <2>4. \A j \in 1..(Len(s) - 1) : (u \o v)[j] = IF j < k THEN s[j] ELSE s[j + 1]
    <3>. TAKE j \in 1..(Len(s) - 1)
    <3>1. CASE j < k
      <4>1. j \in 1..(k - 1) /\ j <= k - 1
        BY <1>1, <3>1
      <4>. QED
        BY <2>1, <2>3, <3>1, <4>1
    <3>2. CASE ~(j < k)
      <4>1. j - (k - 1) \in 1..(Len(s) - k) /\ (j - (k - 1)) + k = j + 1 /\ ~(j <= k - 1)
        BY <1>1, <3>2
      <4>. QED
        BY <2>2, <2>3, <3>2, <4>1
    <3>. QED
      BY <3>1, <3>2
  <2>. QED
    BY <2>3, <2>4 DEF u, v
<1>. HIDE DEF t
<1>6. Once(t)
  <2>. SUFFICES ASSUME NEW i \in 1..(Len(s) - 1), NEW j \in 1..(Len(s) - 1), t[i] = t[j]
                PROVE  i = j
    BY <1>5 DEF Once
  <2>1. \A a, b \in 1..Len(s) : s[a] = s[b] => a = b
    BY <1>1 DEF Once
  <2>. DEFINE from(m) == IF m < k THEN m ELSE m + 1
  <2>2. ASSUME NEW m \in 1..(Len(s) - 1) PROVE from(m) \in 1..Len(s) /\ t[m] = s[from(m)]
    BY <1>1, <1>5, <2>2
  <2>3. from(i) = from(j)
    <3>. HIDE DEF from
    <3>. QED
      BY <2>1, <2>2
  <2>4. i \in Int /\ j \in Int
    OBVIOUS
  <2>. QED
    BY <1>1, <2>3, <2>4
<1>7. \A j \in 1..(Len(s) - 1) : t[j] \in ToSet(s) \ {s[k]}
  <2>. TAKE j \in 1..(Len(s) - 1)
  <2>1. \A a, b \in 1..Len(s) : s[a] = s[b] => a = b
    BY <1>1 DEF Once
  <2>2. CASE j < k
    <3>1. j \in 1..Len(s) /\ j # k /\ t[j] = s[j]
      BY <1>1, <1>5, <2>2
    <3>. QED
      BY <1>1, <2>1, <3>1 DEF ToSet
  <2>3. CASE ~(j < k)
    <3>1. j + 1 \in 1..Len(s) /\ j + 1 # k /\ t[j] = s[j + 1]
      BY <1>1, <1>5, <2>3
    <3>. QED
      BY <1>1, <2>1, <3>1 DEF ToSet
  <2>. QED
    BY <2>2, <2>3
<1>8. \A i \in 1..Len(s) : i # k => \E j \in 1..(Len(s) - 1) : t[j] = s[i]
  <2>. SUFFICES ASSUME NEW i \in 1..Len(s), i # k PROVE \E j \in 1..(Len(s) - 1) : t[j] = s[i]
    OBVIOUS
  <2>1. CASE i < k
    BY <1>1, <1>5, <2>1
  <2>2. CASE i > k
    <3>1. i - 1 \in 1..(Len(s) - 1) /\ ~(i - 1 < k) /\ (i - 1) + 1 = i
      BY <1>1, <2>2
    <3>. QED
      BY <1>5, <3>1
  <2>. QED
    BY <1>1, <2>1, <2>2
<1>9. ToSet(t) = ToSet(s) \ {s[k]}
  <2>1. ToSet(t) = {t[j] : j \in 1..(Len(s) - 1)} /\ ToSet(s) = {s[i] : i \in 1..Len(s)}
    BY <1>1, <1>5 DEF ToSet
  <2>2. \A x \in ToSet(t) : x \in ToSet(s) \ {s[k]}
    BY <1>7, <2>1
  <2>3. \A x \in ToSet(s) \ {s[k]} : x \in ToSet(t)
    BY <1>8, <2>1
  <2>. QED
    BY <2>2, <2>3
<1>. QED
  BY <1>4, <1>5, <1>6, <1>9

(* The same, by the element.                                                *)
LEMMA WithoutListed ==
  ASSUME NEW S, NEW s \in Seq(S), Once(s), NEW i \in ToSet(s)
  PROVE  /\ Without(s, i) \in Seq(S) /\ Len(Without(s, i)) = Len(s) - 1
         /\ ToSet(Without(s, i)) = ToSet(s) \ {i} /\ Once(Without(s, i))
<1>1. PICK k \in 1..Len(s) : i = s[k]
  BY LenProperties DEF ToSet
<1>. QED
  BY <1>1, WithoutOnce

(* As many elements as positions, also in a prefix.                         *)
LEMMA PrefixCount ==
  ASSUME NEW S, NEW s \in Seq(S), Once(s), NEW n \in Nat, n <= Len(s)
  PROVE  /\ IsFiniteSet({s[k] : k \in 1..n})
         /\ Cardinality({s[k] : k \in 1..n}) = n
<1>. DEFINE D == 1..n
            f == [k \in D |-> s[k]]
            R == {s[k] : k \in D}
<1>1. D \subseteq DOMAIN s /\ \A k \in D : s[k] \in S
  BY LenProperties
<1>2. f \in Injection(D, R)
  BY <1>1 DEF Injection, IsInjective, Once
<1>3. f \in Surjection(D, R)
  BY DEF Surjection
<1>4. ExistsBijection(D, R)
  BY <1>2, <1>3 DEF Bijection, ExistsBijection
<1>5. IsFiniteSet(D) /\ Cardinality(D) = n
  BY FS_Interval
<1>. QED
  BY <1>4, <1>5, FS_Bijection, FS_CountingElements

LEMMA ListCount ==
  ASSUME NEW S, NEW s \in Seq(S), Once(s)
  PROVE  IsFiniteSet(ToSet(s)) /\ Cardinality(ToSet(s)) = Len(s)
<1>1. Len(s) \in Nat /\ ToSet(s) = {s[k] : k \in 1..Len(s)}
  BY LenProperties DEF ToSet
<1>2. Len(s) <= Len(s)
  BY <1>1
<1>. QED
  BY <1>1, <1>2, PrefixCount

-----------------------------------------------------------------------------
(* What the names of functions tell apart.                                  *)
LEMMA FunctionFacts ==
  /\ \A n \in Names : Func(n) \in Functions
  /\ \A j \in Threads : CallbackFunc(j) \in Functions
  /\ \A n, m \in Names : Func(n) = Func(m) => n = m
  /\ \A j, k \in Threads : CallbackFunc(j) = CallbackFunc(k) => j = k
  /\ \A n \in Names, j \in Threads : Func(n) # CallbackFunc(j)
  /\ Funcs \subseteq Names /\ {"start", "accept", "destroy"} \subseteq Names
  /\ Funcs \cap {"start", "accept", "destroy"} = {}
BY ServerAssumption, IOAssumption DEF Functions, Names, Func, CallbackFunc

(* One function more in the queue of thread t.                              *)
LEMMA Enqueued ==
  ASSUME events \in [Threads -> Seq(Functions)], NEW t \in Threads, NEW e \in Functions,
         events' = [events EXCEPT ![t] = Append(@, e)]
  PROVE  /\ events' \in [Threads -> Seq(Functions)]
         /\ \A i \in Threads : \A x : In(events[i], x)' <=> In(events[i], x) \/ (i = t /\ x = e)
         /\ \A i \in Threads : \A x : InOnce(events[i], x) /\ (i = t /\ x = e => ~In(events[i], x))
                                    => InOnce(events[i], x)'
<1>1. events[t] \in Seq(Functions) /\ events'[t] = Append(events[t], e)
  OBVIOUS
<1>2. \A i \in Threads : i # t => events'[i] = events[i]
  OBVIOUS
<1>3. /\ Append(events[t], e) \in Seq(Functions)
      /\ \A x : In(events[t], x)' <=> In(events[t], x) \/ x = e
      /\ \A x : InOnce(events[t], x) /\ (x = e => ~In(events[t], x)) => InOnce(events[t], x)'
  BY <1>1, AppendElement
<1>. QED
  BY <1>1, <1>2, <1>3

(* Thread t takes the head of its queue.                                    *)
LEMMA Dequeued ==
  ASSUME events \in [Threads -> Seq(Functions)], NEW t \in Threads, events[t] # <<>>,
         events' = [events EXCEPT ![t] = Tail(@)]
  PROVE  /\ events' \in [Threads -> Seq(Functions)]
         /\ \A i \in Threads : \A x : In(events[i], x) <=> In(events[i], x)' \/ (i = t /\ x = Head(events[t]))
         /\ \A i \in Threads : \A x : InOnce(events[i], x) => InOnce(events[i], x)'
         /\ InOnce(events[t], Head(events[t])) => ~In(events'[t], Head(events[t]))
<1>1. events[t] \in Seq(Functions) /\ events'[t] = Tail(events[t])
  OBVIOUS
<1>2. \A i \in Threads : i # t => events'[i] = events[i]
  OBVIOUS
<1>. DEFINE h == Head(events[t])
<1>3. /\ Tail(events[t]) \in Seq(Functions)
      /\ \A x : In(events[t], x) <=> x = h \/ In(events[t], x)'
      /\ \A x : InOnce(events[t], x) => InOnce(events[t], x)' /\ (x = h => ~In(events[t], x)')
  BY <1>1, TakeHead
<1>. HIDE DEF h
<1>4. \A i \in Threads : \A x : In(events[i], x) <=> In(events[i], x)' \/ (i = t /\ x = h)
  BY <1>2, <1>3
<1>5. \A i \in Threads : \A x : InOnce(events[i], x) => InOnce(events[i], x)'
  BY <1>2, <1>3
<1>6. InOnce(events[t], h) => ~In(events'[t], h)
  BY <1>3
<1>7. events' \in [Threads -> Seq(Functions)]
  BY <1>1, <1>3
<1>. QED
  BY <1>4, <1>5, <1>6, <1>7 DEF h

(* The thread that add picks is in the list.                                *)
LEMMA PickedIsListed ==
  ASSUME PoolTypes, NEW p \in Pools, threadList[p] # <<>>
  PROVE  Picked(p) \in Threads /\ Picked(p) \in Listed(p)
<1>1. /\ threadList[p] \in Seq(Threads) /\ Len(threadList[p]) \in Nat /\ Len(threadList[p]) > 0
      /\ DOMAIN threadList[p] = 1..Len(threadList[p]) /\ pick[p] \in Nat
  BY EmptySeq, LenProperties DEF PoolTypes
<1>2. (pick[p] % Len(threadList[p])) + 1 \in 1..Len(threadList[p])
  BY <1>1
<1>3. \A k \in 1..Len(threadList[p]) : threadList[p][k] \in Threads
  BY <1>1
<1>. QED
  BY <1>1, <1>2, <1>3 DEF Picked, Listed, ToSet

-----------------------------------------------------------------------------
(* Every step preserves the types.                                          *)
LEMMA EnqueueTypes ==
  ASSUME PoolTypes, NEW t \in Threads, NEW e \in Functions, Enqueue(t, e)
  PROVE  events' \in [Threads -> Seq(Functions)] /\ destroyedUsed' \in BOOLEAN
BY Enqueued DEF Enqueue, PoolTypes

LEMMA AddFromTypes ==
  ASSUME PoolTypes, NEW p \in Pools, NEW e \in Functions, AddFrom(p, e), UNCHANGED addVars
  PROVE  PoolTypes'
<1>1. overlap' \in BOOLEAN
  BY DEF AddFrom, PoolTypes
<1>2. ASSUME threadList[p] # <<>> PROVE events' \in [Threads -> Seq(Functions)] /\ destroyedUsed' \in BOOLEAN
  <2>1. Picked(p) \in Threads /\ Enqueue(Picked(p), e)
    BY <1>2, PickedIsListed DEF AddFrom
  <2>. QED
    BY <2>1, EnqueueTypes
<1>3. pick' \in [Pools -> Nat]
  BY IOAssumption DEF AddFrom, PoolTypes
<1>4. events' \in [Threads -> Seq(Functions)] /\ destroyedUsed' \in BOOLEAN
  BY <1>2 DEF AddFrom, PoolTypes
<1>. QED
  BY <1>1, <1>3, <1>4 DEF PoolTypes, addVars

LEMMA OwnerCallTypes ==
  ASSUME PoolTypes, NEW p \in Pools, NEW n \in Nat, UNCHANGED callVars,
         SetMaxThread(p, n) \/ StopAllThread(p)
  PROVE  PoolTypes'
<1>1. owner' \in OwnerCalls
  BY DEF SetMaxThread, StopAllThread, Call, Idle, OwnerCalls, PoolTypes
<1>. QED
  BY <1>1 DEF callVars, poolVars, loopVars, PoolTypes

(* What types the owner's call has, given what it holds.                    *)
LEMMA OwnerTypes ==
  ASSUME NEW d \in {"create", "register", "exit", "join", "joining"}, NEW p \in Pools,
         NEW n \in Nat, NEW i \in Threads \cup {0}
  PROVE  /\ Idle \in OwnerCalls /\ Call(d, p, n) \in OwnerCalls
         /\ [do |-> d, pool |-> p, left |-> n, id |-> i] \in OwnerCalls
BY DEF Idle, Call, OwnerCalls

LEMMA PoolCallTypes == PoolTypes /\ ListsInv /\ OwnerInv /\ PoolCall => PoolTypes'
<1>. SUFFICES ASSUME PoolTypes, ListsInv, OwnerInv, PoolCall PROVE PoolTypes'
  OBVIOUS
<1>. DEFINE p == owner.pool
<1>0. /\ owner \in OwnerCalls /\ owner.left \in Nat /\ owner.id \in Threads \cup {0}
      /\ owner.do # "idle" => p \in Pools
  BY DEF OwnerInv, OwnerCalls, PoolTypes
<1>1. CASE CreateThread
  <2>1. /\ p \in Pools /\ nextUID \in Threads
        /\ owner' = [do |-> "register", pool |-> p, left |-> owner.left, id |-> nextUID]
    BY <1>0, <1>1 DEF CreateThread, OwnerCalls
  <2>2. owner' \in OwnerCalls
    BY <1>0, <2>1, OwnerTypes
  <2>. QED
    BY <1>1, <2>1, <2>2 DEF CreateThread, PoolTypes
<1>2. CASE SetThread
  <2>1. p \in Pools /\ owner.id \in Threads /\ owner.left - 1 \in Nat
    BY <1>0, <1>2 DEF SetThread, OwnerInv
  <2>2. owner' \in OwnerCalls
    BY <1>2, <2>1, OwnerTypes DEF SetThread
  <2>3. threadList' \in [Pools -> Seq(Threads)]
    BY <1>2, <2>1, AppendElement DEF SetThread, PoolTypes
  <2>. QED
    BY <1>2, <2>2, <2>3 DEF SetThread, PoolTypes, loopVars
<1>3. CASE Exit
  <2>1. p \in Pools
    BY <1>0, <1>3 DEF Exit
  <2>2. owner' \in OwnerCalls
    BY <1>0, <1>3, <2>1, OwnerTypes DEF Exit
  <2>3. terminate' \in [Threads -> BOOLEAN]
    BY <1>3 DEF Exit, PoolTypes
  <2>. QED
    BY <1>3, <2>2, <2>3 DEF Exit, PoolTypes, poolVars
<1>4. CASE TakeStopped
  <2>1. p \in Pools /\ stoppedThread[p] \in Seq(Threads) /\ stoppedThread[p] # <<>>
    BY <1>0, <1>4 DEF TakeStopped, PoolTypes
  <2>2. Head(stoppedThread[p]) \in Threads /\ Tail(stoppedThread[p]) \in Seq(Threads)
    BY <2>1, TakeHead
  <2>3. owner' = [do |-> "joining", pool |-> p, left |-> owner.left, id |-> Head(stoppedThread[p])]
    BY <1>0, <1>4 DEF TakeStopped, OwnerCalls
  <2>4. owner' \in OwnerCalls
    BY <1>0, <2>1, <2>2, <2>3, OwnerTypes
  <2>5. stoppedThread' \in [Pools -> Seq(Threads)]
    BY <1>4, <2>1, <2>2 DEF TakeStopped, PoolTypes
  <2>. QED
    BY <1>4, <2>4, <2>5 DEF TakeStopped, PoolTypes, loopVars
<1>5. CASE Join
  <2>1. /\ p \in Pools /\ owner.id \in Listed(p) /\ owner.left - 1 \in Nat
        /\ threadList[p] \in Seq(Threads) /\ Once(threadList[p])
    BY <1>0, <1>5 DEF Join, OwnerInv, ListsInv, PoolTypes
  <2>2. owner' \in OwnerCalls
    BY <1>5, <2>1, OwnerTypes DEF Join
  <2>3. Without(threadList[p], owner.id) \in Seq(Threads)
    BY <2>1, WithoutListed DEF Listed
  <2>4. threadList' \in [Pools -> Seq(Threads)]
    BY <1>5, <2>1, <2>3 DEF Join, PoolTypes
  <2>. QED
    BY <1>5, <2>2, <2>4 DEF Join, PoolTypes, loopVars
<1>6. CASE CallReturns
  <2>1. p \in Pools
    BY <1>0, <1>6 DEF CallReturns
  <2>2. owner' \in OwnerCalls
    BY <1>6, <2>1, OwnerTypes DEF CallReturns
  <2>3. curCount' \in [Pools -> Nat]
    BY <1>6, <2>1, LenProperties DEF CallReturns, PoolTypes
  <2>. QED
    BY <1>6, <2>2, <2>3 DEF CallReturns, PoolTypes, loopVars
<1>. QED
  BY <1>1, <1>2, <1>3, <1>4, <1>5, <1>6 DEF PoolCall

LEMMA ThreadTypes ==
  ASSUME PoolTypes, NEW i \in Threads, IOThread(i)
  PROVE  PoolTypes'
<1>. USE DEF PoolTypes
<1>1. CASE PostBarrier(i)
  BY <1>1 DEF PostBarrier, Goes, poolVars
<1>2. CASE LoopForever(i)
  BY <1>2 DEF LoopForever, Goes, poolVars
<1>3. CASE LeaveLoop(i)
  <2>1. ASSUME NEW p \in Pools PROVE Append(stoppedThread[p], i) \in Seq(Threads)
    BY AppendElement
  <2>2. stoppedThread' \in [Pools -> Seq(Threads)]
    BY <1>3, <2>1 DEF LeaveLoop
  <2>. QED
    BY <1>3, <2>2 DEF LeaveLoop, Goes
<1>4. CASE ThreadEnds(i)
  BY <1>4 DEF ThreadEnds, Goes, poolVars
<1>. QED
  BY <1>1, <1>2, <1>3, <1>4 DEF IOThread

(* A function runs on a thread that has it at the head of its queue.        *)
LEMMA RunsHead ==
  ASSUME PoolTypes, NEW i \in Threads, NEW e, Runs(i, e)
  PROVE  /\ events[i] \in Seq(Functions) /\ events[i] # <<>> /\ Head(events[i]) = e
         /\ e \in Functions /\ In(events[i], e) /\ at[i] \in {"loop", "drain"}
<1>1. events[i] \in Seq(Functions) /\ events[i] # <<>> /\ Head(events[i]) = e
  BY DEF Runs, PoolTypes
<1>. QED
  BY <1>1, TakeHead DEF Runs

(* HandOver moves an event from one queue to another.                       *)
LEMMA HandedOver ==
  ASSUME PoolTypes, NEW i \in Threads, HandOver(i), acceptThread \in Threads \cup {0}
  PROVE  /\ events' \in [Threads -> Seq(Functions)]
         /\ \A k \in Threads : \A x :
              In(events[k], x)' <=>
                \/ In(IF k = i THEN Tail(events[i]) ELSE events[k], x)
                \/ k = acceptThread /\ x = CallbackFunc(i)
         /\ \A k \in Threads : \A x :
              /\ InOnce(events[k], x)
              /\ k = acceptThread /\ x = CallbackFunc(i) => ~In(events[k], x)
              => InOnce(events[k], x)'
<1>1. /\ events[i] \in Seq(Functions) /\ events[i] # <<>> /\ CallbackFunc(i) \in Functions
      /\ events \in [Threads -> Seq(Functions)]
  BY RunsHead, FunctionFacts DEF HandOver, PoolTypes
<1>. DEFINE a == acceptThread
            c == CallbackFunc(i)
            mid == [events EXCEPT ![i] = Tail(@)]
<1>2. /\ Tail(events[i]) \in Seq(Functions)
      /\ \A x : In(Tail(events[i]), x) => In(events[i], x)
      /\ \A x : InOnce(events[i], x) => InOnce(Tail(events[i]), x)
  BY <1>1, TakeHead
<1>3. /\ mid \in [Threads -> Seq(Functions)]
      /\ \A k \in Threads : mid[k] = IF k = i THEN Tail(events[i]) ELSE events[k]
  BY <1>1, <1>2
<1>4. ASSUME NEW k \in Threads, NEW x
      PROVE  /\ In(mid[k], x) => In(events[k], x)
             /\ InOnce(events[k], x) => InOnce(mid[k], x)
  BY <1>2, <1>3
<1>5. events' = [mid EXCEPT ![a] = Append(mid[a], c)]
  BY DEF HandOver, ToSocket
<1>. HIDE DEF mid, c
<1>6. \A k \in Threads : /\ mid[k] \in Seq(Functions) /\ c \in Functions
                         /\ Append(mid[k], c) \in Seq(Functions)
  BY <1>1, <1>3, AppendElement DEF c
<1>7. /\ events' \in [Threads -> Seq(Functions)]
      /\ \A k \in Threads : events'[k] = IF k = a THEN Append(mid[k], c) ELSE mid[k]
  BY <1>3, <1>5, <1>6
<1>8. ASSUME NEW k \in Threads
      PROVE  /\ \A x : In(events'[k], x) <=> In(mid[k], x) \/ (k = a /\ x = c)
             /\ \A x : InOnce(mid[k], x) /\ (k = a /\ x = c => ~In(mid[k], x)) => InOnce(events'[k], x)
  <2>1. CASE k = a
    <3>1. events'[k] = Append(mid[k], c)
      BY <1>7, <2>1
    <3>. QED
      BY <1>6, <2>1, <3>1, AppendElement
  <2>2. CASE k # a
    BY <1>7, <2>2
  <2>. QED
    BY <2>1, <2>2
<1>9. \A k \in Threads : \A x :
        In(events'[k], x) <=>
          \/ In(IF k = i THEN Tail(events[i]) ELSE events[k], x)
          \/ k = a /\ x = c
  BY <1>3, <1>8
<1>10. ASSUME NEW k \in Threads, NEW x, InOnce(events[k], x), k = a /\ x = c => ~In(events[k], x)
       PROVE  InOnce(events'[k], x)
  <2>1. InOnce(mid[k], x) /\ (In(mid[k], x) => In(events[k], x))
    BY <1>4, <1>10
  <2>2. InOnce(mid[k], x) /\ (k = a /\ x = c => ~In(mid[k], x)) => InOnce(events'[k], x)
    BY <1>8
  <2>. QED
    BY <1>10, <2>1, <2>2
<1>. QED
  BY <1>7, <1>9, <1>10 DEF c

(* The functions that threads run.                                          *)
RunVars == <<poolVars, at, terminate, owner, overlap, destroyedUsed>>

LEMMA RunTypes ==
  ASSUME Types, NEW i \in Threads, RunFunc(i)
  PROVE  Types'
<1>1. /\ PoolTypes /\ ServiceTypes /\ UNCHANGED <<RunVars, mainAt, added>>
  BY DEF Types, RunFunc, RunVars
<1>2. events' \in [Threads -> Seq(Functions)] => PoolTypes'
  BY <1>1 DEF PoolTypes, RunVars, poolVars
<1>3. ASSUME NEW e, Runs(i, e), Consumed(i) PROVE PoolTypes'
  <2>1. events[i] # <<>> /\ events \in [Threads -> Seq(Functions)]
    BY <1>1, <1>3 DEF Runs, PoolTypes
  <2>. QED
    BY <1>2, <1>3, <2>1, Dequeued DEF Consumed
<1>4. CASE StartFunc(i)
  BY <1>1, <1>3, <1>4 DEF StartFunc, Types, ServiceTypes
<1>5. CASE HandOver(i)
  <2>1. PoolTypes'
    BY <1>1, <1>2, <1>5, HandedOver DEF ServiceTypes
  <2>. QED
    BY <1>1, <1>5, <2>1 DEF HandOver, Types, ServiceTypes
<1>6. ASSUME NEW j \in Threads, AddAcceptCallback(i, j) PROVE Types'
  <2>1. callbacks' \in Seq(Threads)
    BY <1>1, <1>6, AppendElement DEF AddAcceptCallback, ServiceTypes
  <2>. QED
    BY <1>1, <1>3, <1>6, <2>1 DEF AddAcceptCallback, Types, ServiceTypes
<1>7. CASE DestroyFunc(i)
  BY <1>1, <1>3, <1>7 DEF DestroyFunc, Types, ServiceTypes
<1>8. CASE ClientFunc(i)
  BY <1>1, <1>3, <1>8 DEF ClientFunc, Types, ServiceTypes
<1>. QED
  BY <1>4, <1>5, <1>6, <1>7, <1>8 DEF RunFunc

LEMMA AddAllTypes ==
  ASSUME PoolTypes, NEW p \in Pools, NEW e \in Functions, AddAll(p, e), UNCHANGED addVars
  PROVE  PoolTypes'
<1>1. ASSUME NEW i \in Threads PROVE Append(events[i], e) \in Seq(Functions)
  BY AppendElement DEF PoolTypes
<1>2. events' \in [Threads -> Seq(Functions)]
  BY <1>1 DEF AddAll, PoolTypes
<1>. QED
  BY <1>2 DEF AddAll, addVars, PoolTypes

LEMMA MainTypes == Types /\ MainThread => Types'
<1>. SUFFICES ASSUME Types, MainThread PROVE Types'
  OBVIOUS
<1>0. /\ PoolTypes /\ ServiceTypes /\ IO \in Pools /\ Acceptor \in Pools /\ IO_WORKER_COUNT \in Nat
      /\ \A n \in {"start", "accept", "destroy"} : Func(n) \in Functions
  BY ServerAssumption, FunctionFacts DEF Types
<1>1. ASSUME UNCHANGED handshakeVars, mainAt' \in Mains PROVE ServiceTypes'
  BY <1>0, <1>1 DEF ServiceTypes, handshakeVars
<1>2. CASE Construct
  BY <1>0, <1>1, <1>2, OwnerCallTypes DEF Construct, MainGoes, Mains, Types
<1>3. CASE StartAccpet
  BY <1>0, <1>1, <1>3, OwnerCallTypes DEF StartAccpet, MainGoes, Mains, Types
<1>4. CASE AddStartFunc
  BY <1>0, <1>1, <1>4, AddFromTypes DEF AddStartFunc, MainGoes, Mains, Types
<1>5. CASE AddAccept
  BY <1>0, <1>1, <1>5, AddAllTypes DEF AddAccept, MainGoes, Mains, Types
<1>6. CASE LatchWait
  <2>1. PoolTypes'
    BY <1>0, <1>6 DEF LatchWait, ioVars, poolVars, loopVars, PoolTypes
  <2>. QED
    BY <1>0, <1>1, <1>6, <2>1 DEF LatchWait, MainGoes, Mains, Types
<1>7. CASE AddDestroyFunc
  BY <1>0, <1>1, <1>7, AddFromTypes DEF AddDestroyFunc, MainGoes, Mains, Types
<1>8. CASE StopIO
  BY <1>0, <1>1, <1>8, OwnerCallTypes DEF StopIO, MainGoes, Mains, Types
<1>9. CASE StopAcceptor
  BY <1>0, <1>1, <1>9, OwnerCallTypes DEF StopAcceptor, MainGoes, Mains, Types
<1>. QED
  BY <1>2, <1>3, <1>4, <1>5, <1>6, <1>7, <1>8, <1>9 DEF MainThread

LEMMA ClientTypes ==
  ASSUME Types, NEW f \in Funcs, ClientAdd(f)
  PROVE  Types'
<1>0. /\ PoolTypes /\ ServiceTypes /\ IO \in Pools /\ Func(f) \in Functions
  BY ServerAssumption, FunctionFacts DEF Types
<1>1. ServiceTypes'
  BY <1>0 DEF ClientAdd, ServiceTypes
<1>2. PoolTypes'
  <2>1. CASE AddFrom(IO, Func(f))
    BY <1>0, <2>1, AddFromTypes DEF ClientAdd
  <2>2. ASSUME NEW i \in ToSet(threadList[IO]), AddHere(i, Func(f)) PROVE PoolTypes'
    <3>1. i \in Threads
      BY <1>0 DEF ToSet, PoolTypes
    <3>2. events' \in [Threads -> Seq(Functions)] /\ destroyedUsed' \in BOOLEAN
      BY <1>0, <2>2, <3>1, EnqueueTypes DEF AddHere
    <3>. QED
      BY <1>0, <2>2, <3>2 DEF AddHere, ClientAdd, addVars, PoolTypes
  <2>. QED
    BY <2>1, <2>2 DEF ClientAdd
<1>. QED
  BY <1>1, <1>2 DEF Types

LEMMA InitTypes == ServerInit => Types
<1>. SUFFICES ASSUME ServerInit PROVE Types
  OBVIOUS
<1>. USE DEF ServerInit, NoServer, IOInit
<1>1. \A S : <<>> \in Seq(S)
  BY EmptySeq
<1>2. PoolTypes
  <2>1. threadList \in [Pools -> Seq(Threads)] /\ stoppedThread \in [Pools -> Seq(Threads)]
    BY <1>1
  <2>2. events \in [Threads -> Seq(Functions)]
    BY <1>1
  <2>3. owner \in OwnerCalls
    BY DEF Idle, Call, OwnerCalls
  <2>4. nextUID \in Nat \ {0}
    <3>1. nextUID = 1
      OBVIOUS
    <3>. QED
      BY <3>1
  <2>7. overlap \in BOOLEAN /\ destroyedUsed \in BOOLEAN
    OBVIOUS
  <2>5. curCount \in [Pools -> Nat] /\ pick \in [Pools -> Nat]
    OBVIOUS
  <2>6. /\ at \in [Threads -> {"none", "created", "ready", "loop", "drain", "ended"}]
        /\ terminate \in [Threads -> BOOLEAN]
    OBVIOUS
  <2>. QED
    BY <2>1, <2>2, <2>3, <2>4, <2>5, <2>6, <2>7 DEF PoolTypes
<1>3. ServiceTypes
  BY <1>1, ServerAssumption DEF ServiceTypes, Mains
<1>. QED
  BY <1>2, <1>3 DEF Types

LEMMA NextTypes == Types /\ PoolInv /\ [ServerNext]_serverVars => Types'
<1>. SUFFICES ASSUME Types, PoolInv, [ServerNext]_serverVars PROVE Types'
  OBVIOUS
<1>1. CASE MainThread
  BY <1>1, MainTypes
<1>2. ASSUME PoolTypes', UNCHANGED serviceVars PROVE Types'
  BY <1>2 DEF Types, ServiceTypes, serviceVars, handshakeVars
<1>3. CASE PoolCall /\ UNCHANGED serviceVars
  BY <1>2, <1>3, PoolCallTypes DEF Types, PoolInv
<1>4. ASSUME NEW i \in Threads, IOThread(i), UNCHANGED serviceVars PROVE Types'
  BY <1>2, <1>4, ThreadTypes DEF Types
<1>5. ASSUME NEW i \in Threads, RunFunc(i) PROVE Types'
  BY <1>5, RunTypes
<1>6. ASSUME NEW f \in Funcs, ClientAdd(f) PROVE Types'
  BY <1>6, ClientTypes
<1>7. CASE UNCHANGED serverVars
  BY <1>7 DEF serverVars, ioVars, poolVars, loopVars, serviceVars, handshakeVars,
              Types, PoolTypes, ServiceTypes
<1>. QED
  BY <1>1, <1>3, <1>4, <1>5, <1>6, <1>7 DEF ServerNext

-----------------------------------------------------------------------------
(* The books of the pools.                                                  *)
Books == ListsInv /\ ThreadsInv /\ StoppedInv /\ OwnerInv /\ DoomedInv

LEMMA BooksStay ==
  ASSUME Books, UNCHANGED addVars
  PROVE  Books'
<1>1. /\ \A p : Listed(p)' = Listed(p) /\ Doomed(p)' = Doomed(p) /\ (Removing(p)' <=> Removing(p))
      /\ (InHand' <=> InHand) /\ owner' = owner /\ Idle' = Idle
  BY DEF addVars, Listed, Doomed, Removing, InHand, Idle, Call
<1>2. ListsInv'
  BY <1>1 DEF Books, ListsInv, addVars
<1>3. ThreadsInv'
  BY <1>1 DEF Books, ThreadsInv, addVars
<1>4. StoppedInv'
  BY <1>1 DEF Books, StoppedInv, addVars
<1>5. OwnerInv'
  BY <1>1 DEF Books, OwnerInv, addVars
<1>6. DoomedInv'
  BY <1>1 DEF Books, DoomedInv, addVars
<1>. QED
  BY <1>2, <1>3, <1>4, <1>5, <1>6 DEF Books

(* add uses the event base of an ended thread only while threads are        *)
(* removed.                                                                 *)
LEMMA AddFromBooks ==
  ASSUME PoolTypes, PoolInv, NEW p \in Pools, NEW e, AddFrom(p, e), UNCHANGED addVars
  PROVE  PoolInv'
<1>1. Books'
  BY BooksStay DEF Books, PoolInv
<1>2. ASSUME ~overlap' PROVE ~destroyedUsed'
  <2>1. ~overlap /\ ~Removing(p) /\ ~destroyedUsed
    BY <1>2 DEF AddFrom, PoolInv, PoolTypes
  <2>2. CASE threadList[p] = <<>>
    BY <2>1, <2>2 DEF AddFrom
  <2>3. CASE threadList[p] # <<>>
    <3>1. Picked(p) \in Threads /\ Picked(p) \in Listed(p) /\ Enqueue(Picked(p), e)
      BY <2>3, PickedIsListed DEF AddFrom
    <3>2. ~terminate[Picked(p)]
      BY <2>1, <3>1 DEF PoolInv, DoomedInv, Doomed
    <3>3. at[Picked(p)] # "ended"
      BY <3>1, <3>2 DEF PoolInv, ThreadsInv
    <3>. QED
      BY <2>1, <3>1, <3>3 DEF Enqueue
  <2>. QED
    BY <2>2, <2>3
<1>. QED
  BY <1>1, <1>2 DEF Books, PoolInv

(* SetMaxThread and StopAllThread begin.                                    *)
LEMMA OwnerCallBooks ==
  ASSUME PoolTypes, PoolInv, NEW p \in Pools, NEW n \in Nat, UNCHANGED callVars,
         SetMaxThread(p, n) \/ StopAllThread(p)
  PROVE  PoolInv'
<1>1. /\ owner = Idle /\ owner.do = "idle" /\ owner.pool = None /\ owner.left = 0 /\ owner.id = 0
      /\ p # None /\ None \notin Pools /\ curCount \in [Pools -> Nat]
  BY IOAssumption DEF SetMaxThread, StopAllThread, Idle, Call, PoolTypes
<1>2. \/ owner' = Idle
      \/ owner' = Call("create", p, n - curCount[p]) /\ n > curCount[p]
      \/ \E k \in Nat : owner' = Call("exit", p, k) /\ k <= curCount[p]
  BY <1>1 DEF SetMaxThread, StopAllThread
<1>3. owner'.do \in {"idle", "create", "exit"} /\ owner'.id = 0
  BY <1>2 DEF Idle, Call
<1>4. /\ UNCHANGED <<nextUID, threadList, curCount, stoppedThread, at, terminate, overlap, destroyedUsed>>
      /\ \A q : Listed(q)' = Listed(q) /\ Doomed(q)' = Doomed(q) /\ ~Removing(q)'
      /\ ~InHand /\ ~InHand'
  BY <1>1, <1>3 DEF callVars, poolVars, loopVars, Listed, Doomed, Removing, InHand
<1>5. ListsInv' /\ ThreadsInv' /\ StoppedInv'
  BY <1>4 DEF PoolInv, ListsInv, ThreadsInv, StoppedInv
<1>6. \A q \in Pools : curCount[q] = Len(threadList[q])
  BY <1>1 DEF PoolInv, OwnerInv
<1>7. OwnerInv'
  <2>1. owner'.do = "idle" => owner' = Idle
    BY <1>2 DEF Idle, Call
  <2>2. owner'.do # "idle" => owner'.pool = p
    BY <1>2 DEF Idle, Call
  <2>3. owner'.do = "exit" => owner'.left <= Len(threadList[p])
    BY <1>2, <1>6 DEF Idle, Call
  <2>. QED
    BY <1>3, <1>4, <1>6, <2>1, <2>2, <2>3 DEF OwnerInv, Idle
<1>8. DoomedInv'
  BY <1>1, <1>4 DEF PoolInv, DoomedInv, Removing
<1>. QED
  BY <1>4, <1>5, <1>7, <1>8 DEF PoolInv

(* What is in a list is a thread.                                           *)
LEMMA ListFacts ==
  ASSUME PoolTypes, NEW p \in Pools
  PROVE  /\ threadList[p] \in Seq(Threads) /\ Listed(p) \subseteq Threads
         /\ stoppedThread[p] \in Seq(Threads) /\ ToSet(stoppedThread[p]) \subseteq Threads
         /\ Len(threadList[p]) \in Nat
         /\ IsFiniteSet(Listed(p)) /\ IsFiniteSet(Doomed(p)) /\ Doomed(p) \subseteq Threads
<1>1. threadList[p] \in Seq(Threads) /\ stoppedThread[p] \in Seq(Threads)
  BY DEF PoolTypes
<1>2. Listed(p) \subseteq Threads /\ ToSet(stoppedThread[p]) \subseteq Threads
  BY <1>1 DEF Listed, ToSet
<1>3. Doomed(p) \subseteq Listed(p)
  BY DEF Doomed
<1>. QED
  BY <1>1, <1>2, <1>3, IOAssumption, FS_Subset

LEMMA CreateBooks == PoolTypes /\ PoolInv /\ CreateThread => PoolInv'
<1>. SUFFICES ASSUME PoolTypes, PoolInv, CreateThread PROVE PoolInv'
  OBVIOUS
<1>. DEFINE j == nextUID
<1>1. /\ owner.do = "create" /\ owner.left > 0 /\ j \in Threads /\ nextUID' = j + 1
      /\ owner.left \in Nat /\ j \in Nat
      /\ owner' = [owner EXCEPT !.do = "register", !.id = j] /\ owner \in OwnerCalls
      /\ owner'.do = "register" /\ owner'.id = j /\ owner'.pool = owner.pool /\ owner'.left = owner.left
      /\ UNCHANGED <<threadList, curCount, stoppedThread, terminate, overlap, destroyedUsed>>
  BY DEF CreateThread, PoolTypes, OwnerCalls
<1>2. /\ at' = [at EXCEPT ![j] = "created"] /\ at[j] = "none" /\ ~terminate[j]
      /\ \A i \in Threads : i # j => at'[i] = at[i]
      /\ at'[j] = "created"
  BY <1>1 DEF CreateThread, PoolTypes, PoolInv, ThreadsInv
<1>3. \A p \in Pools : j \notin Listed(p) /\ j \notin ToSet(stoppedThread[p])
  BY <1>1, <1>2 DEF PoolInv, ListsInv, StoppedInv
<1>4. /\ \A p : Listed(p)' = Listed(p) /\ Doomed(p)' = Doomed(p) /\ ~Removing(p) /\ ~Removing(p)'
      /\ ~InHand /\ InHand'
  BY <1>1 DEF Listed, Doomed, Removing, InHand
<1>5. \A p \in Pools : Listed(p) \subseteq Threads /\ ToSet(stoppedThread[p]) \subseteq Threads
  BY ListFacts
<1>6. ListsInv'
  BY <1>1, <1>2, <1>3, <1>4, <1>5 DEF PoolInv, ListsInv
<1>7. ThreadsInv'
  <2>1. \A i \in Threads : at'[i] # "none" => i < nextUID'
    BY <1>1, <1>2, IOAssumption DEF PoolInv, ThreadsInv
  <2>. QED
    BY <1>1, <1>2, <1>4, <2>1 DEF PoolInv, ThreadsInv
<1>8. StoppedInv'
  BY <1>1, <1>2, <1>3, <1>4, <1>5 DEF PoolInv, StoppedInv
<1>9. OwnerInv'
  BY <1>1, <1>2, <1>3, <1>4 DEF PoolInv, OwnerInv
<1>10. DoomedInv'
  BY <1>4 DEF PoolInv, DoomedInv
<1>. QED
  BY <1>1, <1>6, <1>7, <1>8, <1>9, <1>10 DEF PoolInv

LEMMA SetThreadBooks == PoolTypes /\ PoolInv /\ SetThread => PoolInv'
<1>. SUFFICES ASSUME PoolTypes, PoolInv, SetThread PROVE PoolInv'
  OBVIOUS
<1>0. PICK p \in Pools, j \in Threads : p = owner.pool /\ j = owner.id
  BY DEF SetThread, PoolInv, OwnerInv
<1>1. /\ owner.do = "register" /\ owner.left > 0 /\ owner.left \in Nat /\ j \in Threads /\ p \in Pools
      /\ at[j] \in {"ready", "loop"} /\ ~terminate[j] /\ \A q \in Pools : j \notin Listed(q)
      /\ owner' = Call("create", p, owner.left - 1)
      /\ UNCHANGED <<nextUID, curCount, stoppedThread, at, terminate, overlap, destroyedUsed>>
  BY <1>0 DEF SetThread, PoolTypes, OwnerCalls, loopVars, PoolInv, OwnerInv
<1>2. threadList[p] \in Seq(Threads) /\ threadList'[p] = Append(threadList[p], j)
      /\ \A q \in Pools : q # p => threadList'[q] = threadList[q]
  BY <1>0, <1>1 DEF SetThread, PoolTypes
<1>3. Once(threadList[p])' /\ Listed(p)' = Listed(p) \cup {j}
  BY <1>1, <1>2, AppendElement DEF PoolInv, ListsInv, Listed
<1>4. \A q \in Pools : q # p => Listed(q)' = Listed(q) /\ (Once(threadList[q])' <=> Once(threadList[q]))
  BY <1>2 DEF Listed
<1>5. \A q \in Pools : Doomed(q)' = Doomed(q)
  BY <1>1, <1>3, <1>4 DEF Doomed
<1>6. /\ owner'.do = "create" /\ owner'.pool = p /\ owner'.id = 0
      /\ \A q : ~Removing(q) /\ ~Removing(q)'
      /\ InHand /\ ~InHand'
  BY <1>1 DEF Removing, InHand, Call
<1>7. ListsInv'
  <2>1. \A q \in Pools : Once(threadList[q])'
    BY <1>3, <1>4 DEF PoolInv, ListsInv
  <2>2. \A q, r \in Pools : q # r => Listed(q)' \cap Listed(r)' = {}
    BY <1>1, <1>3, <1>4 DEF PoolInv, ListsInv
  <2>3. \A q \in Pools : \A i \in Listed(q)' : at'[i] \notin {"none", "created"}
    BY <1>1, <1>3, <1>4 DEF PoolInv, ListsInv
  <2>. QED
    BY <2>1, <2>2, <2>3 DEF ListsInv
<1>8. ThreadsInv'
  BY <1>1, <1>3, <1>4, <1>6 DEF PoolInv, ThreadsInv
<1>9. StoppedInv'
  BY <1>1, <1>3, <1>4 DEF PoolInv, StoppedInv
<1>10. OwnerInv'
  BY <1>0, <1>1, <1>2, <1>6 DEF PoolInv, OwnerInv
<1>11. DoomedInv'
  BY <1>5, <1>6 DEF PoolInv, DoomedInv
<1>. QED
  BY <1>1, <1>7, <1>8, <1>9, <1>10, <1>11 DEF PoolInv

LEMMA ExitBooks == PoolTypes /\ PoolInv /\ Exit => PoolInv'
<1>. SUFFICES ASSUME PoolTypes, PoolInv, Exit PROVE PoolInv'
  OBVIOUS
<1>0. PICK p \in Pools, n \in Nat : p = owner.pool /\ n = owner.left
  BY DEF Exit, PoolInv, OwnerInv, PoolTypes, OwnerCalls
<1>. DEFINE E == {threadList[p][k] : k \in 1..n}
<1>1. /\ owner.do = "exit" /\ owner' = Call("join", p, n) /\ n <= Len(threadList[p])
      /\ curCount[p] = Len(threadList[p])
      /\ UNCHANGED <<nextUID, threadList, curCount, stoppedThread, at, overlap, destroyedUsed>>
      /\ threadList[p] \in Seq(Threads) /\ Once(threadList[p])
  BY <1>0 DEF Exit, poolVars, PoolInv, OwnerInv, ListsInv, PoolTypes
<1>2. E \subseteq Listed(p) /\ IsFiniteSet(E) /\ Cardinality(E) = n
  <2>1. 1..n \subseteq DOMAIN threadList[p]
    BY <1>1, LenProperties
  <2>. QED
    BY <1>1, <2>1, PrefixCount DEF Listed, ToSet
<1>3. \A i \in Threads : terminate'[i] = (terminate[i] \/ i \in E)
  <2>1. {k \in DOMAIN threadList[p] : k <= n} = 1..n
    BY <1>1, LenProperties
  <2>2. \A i \in Threads : terminate'[i] = (terminate[i] \/ \E k \in DOMAIN threadList[p] : k <= n /\ i = threadList[p][k])
    BY <1>0 DEF Exit
  <2>3. \A i \in Threads : (\E k \in DOMAIN threadList[p] : k <= n /\ i = threadList[p][k]) <=> i \in E
    BY <2>1
  <2>. QED
    BY <2>2, <2>3
<1>4. \A q \in Pools : Listed(q)' = Listed(q) /\ Listed(q) \subseteq Threads /\ Doomed(q) = {}
  BY <1>1, ListFacts DEF PoolInv, DoomedInv, Removing, Listed
<1>5. Doomed(p)' = E
  <2>1. \A i \in Listed(p) : ~terminate[i]
    BY <1>4 DEF Doomed
  <2>2. \A i \in Listed(p) : terminate'[i] <=> i \in E
    BY <1>3, <1>4, <2>1
  <2>. QED
    BY <1>2, <1>4, <2>2 DEF Doomed
<1>6. ASSUME NEW q \in Pools, q # p PROVE Doomed(q)' = {}
  <2>1. \A i \in Listed(q) : i \in Threads /\ ~terminate[i] /\ i \notin E
    BY <1>2, <1>4, <1>6 DEF Doomed, PoolInv, ListsInv
  <2>2. \A i \in Listed(q) : ~terminate'[i]
    BY <1>3, <2>1
  <2>. QED
    BY <1>4, <2>2 DEF Doomed
<1>7. /\ owner'.do = "join" /\ owner'.pool = p /\ owner'.left = n /\ owner'.id = 0
      /\ \A q : Removing(q)' <=> q = p
      /\ ~InHand /\ ~InHand'
  BY <1>1 DEF Call, Removing, InHand
<1>8. ListsInv' /\ StoppedInv'
  BY <1>1, <1>4 DEF PoolInv, ListsInv, StoppedInv
<1>9. ThreadsInv'
  <2>1. \A i \in Threads : terminate'[i] => at'[i] \notin {"none", "created"}
    BY <1>1, <1>2, <1>3 DEF PoolInv, ListsInv, ThreadsInv
  <2>2. \A i \in Threads : at'[i] \in {"drain", "ended"} => terminate'[i]
    BY <1>1, <1>3 DEF PoolInv, ThreadsInv
  <2>. QED
    BY <1>1, <1>4, <1>7, <2>1, <2>2 DEF PoolInv, ThreadsInv
<1>10. OwnerInv'
  BY <1>0, <1>1, <1>7 DEF PoolInv, OwnerInv
<1>11. DoomedInv'
  BY <1>2, <1>5, <1>6, <1>7 DEF DoomedInv
<1>. QED
  BY <1>1, <1>8, <1>9, <1>10, <1>11 DEF PoolInv

LEMMA TakeBooks == PoolTypes /\ PoolInv /\ TakeStopped => PoolInv'
<1>. SUFFICES ASSUME PoolTypes, PoolInv, TakeStopped PROVE PoolInv'
  OBVIOUS
<1>0. PICK p \in Pools : p = owner.pool
  BY DEF TakeStopped, PoolInv, OwnerInv
<1>1. /\ owner.do = "join" /\ owner.left > 0 /\ stoppedThread[p] # <<>>
      /\ owner' = [owner EXCEPT !.do = "joining", !.id = Head(stoppedThread[p])] /\ owner \in OwnerCalls
      /\ stoppedThread' = [stoppedThread EXCEPT ![p] = Tail(@)]
      /\ UNCHANGED <<nextUID, threadList, curCount, at, terminate, overlap, destroyedUsed>>
      /\ stoppedThread[p] \in Seq(Threads) /\ Once(stoppedThread[p])
  BY <1>0 DEF TakeStopped, loopVars, PoolTypes, PoolInv, StoppedInv
<1>2. PICK j \in Threads : j = Head(stoppedThread[p])
  BY <1>1, TakeHead
<1>3. /\ j \in ToSet(stoppedThread[p])
      /\ ToSet(Tail(stoppedThread[p])) \subseteq ToSet(stoppedThread[p])
      /\ Once(Tail(stoppedThread[p])) /\ j \notin ToSet(Tail(stoppedThread[p]))
  BY <1>1, <1>2, TakeHead
<1>4. /\ stoppedThread'[p] = Tail(stoppedThread[p])
      /\ \A q \in Pools : q # p => stoppedThread'[q] = stoppedThread[q]
  BY <1>1 DEF PoolTypes
<1>5. /\ owner'.do = "joining" /\ owner'.pool = p /\ owner'.left = owner.left /\ owner'.id = j
      /\ \A q : (Removing(q)' <=> Removing(q)) /\ Listed(q)' = Listed(q) /\ Doomed(q)' = Doomed(q)
      /\ ~InHand /\ ~InHand'
  BY <1>0, <1>1, <1>2 DEF OwnerCalls, Removing, InHand, Listed, Doomed
<1>6. ListsInv' /\ ThreadsInv'
  BY <1>1, <1>5 DEF PoolInv, ListsInv, ThreadsInv
<1>7. StoppedInv'
  <2>1. ASSUME NEW q \in Pools
        PROVE  Once(stoppedThread'[q]) /\ ToSet(stoppedThread'[q]) \subseteq ToSet(stoppedThread[q])
    BY <1>3, <1>4 DEF PoolInv, StoppedInv
  <2>2. \A q \in Pools : Once(stoppedThread[q])'
    BY <2>1
  <2>3. \A q \in Pools : \A i \in ToSet(stoppedThread'[q]) : i \in Listed(q)' /\ at'[i] \in {"drain", "ended"}
    BY <1>1, <1>5, <2>1 DEF PoolInv, StoppedInv
  <2>. QED
    BY <2>2, <2>3 DEF StoppedInv
<1>8. OwnerInv'
  <2>1. j \in Listed(p) /\ at[j] \in {"drain", "ended"}
    BY <1>3 DEF PoolInv, StoppedInv
  <2>. QED
    BY <1>0, <1>1, <1>3, <1>4, <1>5, <2>1 DEF PoolInv, OwnerInv
<1>9. DoomedInv'
  BY <1>5 DEF PoolInv, DoomedInv
<1>. QED
  BY <1>1, <1>6, <1>7, <1>8, <1>9 DEF PoolInv

LEMMA JoinBooks == PoolTypes /\ PoolInv /\ Join => PoolInv'
<1>. SUFFICES ASSUME PoolTypes, PoolInv, Join PROVE PoolInv'
  OBVIOUS
<1>0. PICK p \in Pools, j \in Threads, n \in Nat : p = owner.pool /\ j = owner.id /\ n = owner.left
  BY ListFacts DEF Join, PoolInv, OwnerInv, PoolTypes, OwnerCalls
<1>1. /\ owner.do = "joining" /\ n > 0 /\ at[j] = "ended" /\ j \in Listed(p)
      /\ j \notin ToSet(stoppedThread[p])
      /\ threadList' = [threadList EXCEPT ![p] = Without(@, j)]
      /\ owner' = Call("join", p, n - 1)
      /\ UNCHANGED <<nextUID, curCount, stoppedThread, at, terminate, overlap, destroyedUsed>>
      /\ threadList[p] \in Seq(Threads) /\ Once(threadList[p])
  BY <1>0 DEF Join, loopVars, PoolInv, OwnerInv, ListsInv, PoolTypes
<1>2. threadList'[p] = Without(threadList[p], j) /\ \A q \in Pools : q # p => threadList'[q] = threadList[q]
  BY <1>1 DEF PoolTypes
<1>3. Listed(p)' = Listed(p) \ {j} /\ Once(threadList'[p])
  BY <1>1, <1>2, WithoutListed DEF Listed
<1>4. \A q \in Pools : q # p => Listed(q)' = Listed(q)
  BY <1>2 DEF Listed
<1>5. /\ owner'.do = "join" /\ owner'.pool = p /\ owner'.left = n - 1 /\ owner'.id = 0
      /\ \A q : (Removing(q)' <=> q = p) /\ (Removing(q) <=> q = p)
      /\ ~InHand /\ ~InHand'
  BY <1>0, <1>1 DEF Call, Removing, InHand
<1>6. /\ \A q \in Pools : Listed(q)' \subseteq Listed(q)
      /\ \A q \in Pools : Once(threadList'[q])
  BY <1>2, <1>3, <1>4 DEF PoolInv, ListsInv
<1>7. ListsInv'
  <2>1. \A q \in Pools : Once(threadList[q])'
    BY <1>6
  <2>2. \A q, r \in Pools : q # r => Listed(q)' \cap Listed(r)' = {}
    BY <1>6 DEF PoolInv, ListsInv
  <2>3. \A q \in Pools : \A i \in Listed(q)' : at'[i] \notin {"none", "created"}
    BY <1>1, <1>6 DEF PoolInv, ListsInv
  <2>. QED
    BY <2>1, <2>2, <2>3 DEF ListsInv
<1>8. ThreadsInv'
  <2>1. \A i \in Threads : at'[i] \notin {"none", "ended"} => \E q \in Pools : i \in Listed(q)'
    BY <1>1, <1>3, <1>4, <1>5 DEF PoolInv, ThreadsInv
  <2>. QED
    BY <1>1, <2>1 DEF PoolInv, ThreadsInv
<1>9. StoppedInv'
  BY <1>1, <1>3, <1>4 DEF PoolInv, StoppedInv
<1>10. OwnerInv'
  <2>1. \A q \in Pools : q # p => curCount'[q] = Len(threadList'[q])
    BY <1>0, <1>1, <1>2 DEF PoolInv, OwnerInv
  <2>. QED
    BY <1>5, <2>1 DEF OwnerInv
<1>11. DoomedInv'
  <2>1. terminate[j] /\ j \in Doomed(p)
    BY <1>1 DEF PoolInv, ThreadsInv, Doomed
  <2>2. Doomed(p)' = Doomed(p) \ {j}
    BY <1>1, <1>3 DEF Doomed
  <2>3. IsFiniteSet(Doomed(p)) /\ Cardinality(Doomed(p)) = n
    BY <1>0, <1>5, ListFacts DEF PoolInv, DoomedInv
  <2>4. Cardinality(Doomed(p)') = n - 1
    BY <2>1, <2>2, <2>3, FS_RemoveElement
  <2>5. \A q \in Pools : q # p => Doomed(q)' = Doomed(q) /\ Doomed(q) = {}
    BY <1>1, <1>4, <1>5 DEF PoolInv, DoomedInv, Doomed
  <2>6. Cardinality(Doomed(p))' = n - 1
    BY <2>4
  <2>. QED
    BY <1>5, <2>5, <2>6 DEF DoomedInv
<1>. QED
  BY <1>1, <1>7, <1>8, <1>9, <1>10, <1>11 DEF PoolInv

LEMMA ReturnBooks == PoolTypes /\ PoolInv /\ CallReturns => PoolInv'
<1>. SUFFICES ASSUME PoolTypes, PoolInv, CallReturns PROVE PoolInv'
  OBVIOUS
<1>0. PICK p \in Pools : p = owner.pool
  BY DEF CallReturns, PoolInv, OwnerInv
<1>1. /\ owner.do \in {"create", "join"} /\ owner.left = 0
      /\ owner' = Idle /\ owner'.do = "idle" /\ owner'.id = 0
      /\ curCount' = [curCount EXCEPT ![p] = Len(threadList[p])]
      /\ UNCHANGED <<nextUID, threadList, stoppedThread, at, terminate, overlap, destroyedUsed>>
  BY <1>0 DEF CallReturns, loopVars, Idle, Call
<1>2. /\ \A q : Listed(q)' = Listed(q) /\ Doomed(q)' = Doomed(q) /\ ~Removing(q)'
      /\ ~InHand /\ ~InHand'
  BY <1>1 DEF Listed, Doomed, Removing, InHand
<1>3. \A q \in Pools : Doomed(q) = {}
  <2>1. ASSUME NEW q \in Pools, Removing(q) PROVE Doomed(q) = {}
    <3>1. Cardinality(Doomed(q)) = 0
      BY <1>1, <2>1 DEF PoolInv, DoomedInv
    <3>. QED
      BY <3>1, ListFacts, FS_EmptySet
  <2>. QED
    BY <2>1 DEF PoolInv, DoomedInv
<1>4. ListsInv' /\ ThreadsInv' /\ StoppedInv'
  BY <1>1, <1>2 DEF PoolInv, ListsInv, ThreadsInv, StoppedInv
<1>5. \A q \in Pools : curCount'[q] = Len(threadList'[q])
  BY <1>0, <1>1 DEF PoolTypes, PoolInv, OwnerInv
<1>6. OwnerInv'
  BY <1>1, <1>5 DEF OwnerInv, Idle, Call
<1>7. DoomedInv'
  BY <1>2, <1>3 DEF DoomedInv
<1>. QED
  BY <1>1, <1>4, <1>6, <1>7 DEF PoolInv

LEMMA ThreadBooks ==
  ASSUME PoolTypes, PoolInv, NEW i \in Threads, IOThread(i)
  PROVE  PoolInv'
<1>1. /\ UNCHANGED <<nextUID, threadList, curCount, terminate, owner, overlap, destroyedUsed>>
      /\ \A k \in Threads : k # i => at'[k] = at[k]
  BY DEF IOThread, PostBarrier, LoopForever, LeaveLoop, ThreadEnds, Goes, poolVars, PoolTypes
<1>2. /\ \A q : (Removing(q)' <=> Removing(q)) /\ Listed(q)' = Listed(q) /\ Doomed(q)' = Doomed(q)
      /\ (InHand' <=> InHand)
  BY <1>1 DEF Removing, InHand, Listed, Doomed
<1>3. \A q \in Pools : Listed(q) \subseteq Threads /\ ToSet(stoppedThread[q]) \subseteq Threads
  BY ListFacts
<1>4. /\ at'[i] \notin {"none", "created"} /\ at[i] # "none"
      /\ at[i] = "created" => at'[i] = "ready" /\ ~terminate[i]
      /\ at[i] \in {"drain", "ended"} => at'[i] = "ended"
      /\ at'[i] \in {"drain", "ended"} => terminate[i]
      /\ at'[i] # "ended" => at[i] # "ended"
  BY DEF IOThread, PostBarrier, LoopForever, LeaveLoop, ThreadEnds, Goes, PoolTypes,
         PoolInv, ThreadsInv
<1>5. ListsInv'
  BY <1>1, <1>2, <1>3, <1>4 DEF PoolInv, ListsInv
<1>6. ThreadsInv'
  BY <1>1, <1>2, <1>4 DEF PoolInv, ThreadsInv
<1>7. DoomedInv'
  BY <1>1, <1>2 DEF PoolInv, DoomedInv
<1>8. ASSUME UNCHANGED stoppedThread PROVE StoppedInv' /\ OwnerInv'
  <2>1. StoppedInv'
    BY <1>1, <1>2, <1>3, <1>4, <1>8 DEF PoolInv, StoppedInv
  <2>2. \A q \in Pools : ToSet(stoppedThread'[q]) = ToSet(stoppedThread[q])
    BY <1>8
  <2>3. Idle' = Idle
    BY DEF Idle, Call
  <2>4. owner.id \in Threads => at'[owner.id] = at[owner.id] \/ i = owner.id
    BY <1>1
  <2>5. owner.do = "register" => at'[owner.id] \in {"created", "ready", "loop"}
    BY <1>4, <2>4 DEF PoolInv, OwnerInv, IOThread, PostBarrier, LoopForever, LeaveLoop, ThreadEnds, Goes, PoolTypes
  <2>6. owner.do = "joining" => at'[owner.id] \in {"drain", "ended"}
    BY <1>3, <1>4, <2>4 DEF PoolInv, OwnerInv
  <2>. QED
    BY <1>1, <1>2, <1>8, <2>1, <2>2, <2>3, <2>5, <2>6 DEF PoolInv, OwnerInv
<1>9. ASSUME LeaveLoop(i) PROVE StoppedInv' /\ OwnerInv'
  <2>1. terminate[i] /\ at[i] = "loop" /\ at'[i] = "drain"
        /\ stoppedThread' = [stoppedThread EXCEPT ![PoolOf(i)] = Append(@, i)]
    BY <1>9 DEF LeaveLoop, Goes, PoolTypes
  <2>2. ~(InHand /\ owner.id = i)
    BY <2>1 DEF PoolInv, OwnerInv, InHand
  <2>3. PICK p \in Pools : i \in Listed(p)
    BY <2>1, <2>2 DEF PoolInv, ThreadsInv
  <2>4. \A q \in Pools : i \in Listed(q) => q = p
    BY <2>3 DEF PoolInv, ListsInv
  <2>5. owner.do = "joining" => owner.id # i
    BY <2>1 DEF PoolInv, OwnerInv
  <2>6. owner.id # i
    BY <2>2, <2>5, IOAssumption DEF PoolInv, OwnerInv, InHand
  <2>7. PoolOf(i) = p
    BY <2>3, <2>4, <2>6 DEF PoolOf, Listed
  <2>8. /\ stoppedThread'[p] = Append(stoppedThread[p], i) /\ stoppedThread[p] \in Seq(Threads)
        /\ \A q \in Pools : q # p => stoppedThread'[q] = stoppedThread[q]
    BY <2>1, <2>7 DEF PoolTypes
  <2>9. i \notin ToSet(stoppedThread[p]) /\ Once(stoppedThread[p])
    BY <2>1 DEF PoolInv, StoppedInv
  <2>10. ToSet(stoppedThread'[p]) = ToSet(stoppedThread[p]) \cup {i} /\ Once(stoppedThread'[p])
    BY <2>8, <2>9, AppendElement
  <2>11. StoppedInv'
    <3>1. \A q \in Pools : Once(stoppedThread[q])'
      BY <2>8, <2>10 DEF PoolInv, StoppedInv
    <3>2. \A q \in Pools : \A k \in ToSet(stoppedThread'[q]) : k \in Listed(q)
      BY <2>3, <2>8, <2>10 DEF PoolInv, StoppedInv
    <3>3. \A q \in Pools : \A k \in ToSet(stoppedThread'[q]) : k = i \/ k \in ToSet(stoppedThread[q])
      BY <2>8, <2>10
    <3>4. \A q \in Pools : \A k \in ToSet(stoppedThread'[q]) : at'[k] \in {"drain", "ended"}
      BY <1>1, <1>3, <2>1, <3>3 DEF PoolInv, StoppedInv
    <3>. QED
      BY <1>2, <3>1, <3>2, <3>4 DEF StoppedInv
  <2>12. OwnerInv'
    <3>1. owner.do = "register" => at'[owner.id] = at[owner.id]
      BY <1>1, <2>6 DEF PoolInv, OwnerInv
    <3>2. owner.do = "joining" => at'[owner.id] = at[owner.id]
      BY <1>1, <1>3, <2>6 DEF PoolInv, OwnerInv
    <3>3. owner.do = "joining" => owner.id \notin ToSet(stoppedThread'[owner.pool])
      BY <2>6, <2>8, <2>10 DEF PoolInv, OwnerInv
    <3>4. Idle' = Idle
      BY DEF Idle, Call
    <3>. QED
      BY <1>1, <1>2, <3>1, <3>2, <3>3, <3>4 DEF PoolInv, OwnerInv
  <2>. QED
    BY <2>11, <2>12
<1>10. StoppedInv' /\ OwnerInv'
  BY <1>8, <1>9 DEF IOThread, PostBarrier, LoopForever, ThreadEnds, poolVars
<1>. QED
  BY <1>1, <1>5, <1>6, <1>7, <1>10 DEF PoolInv

(* The functions do nothing to the books; a client's function is added to   *)
(* a thread that runs.                                                      *)
LEMMA InitBooks == ServerInit => PoolInv
<1>. SUFFICES ASSUME ServerInit PROVE PoolInv
  OBVIOUS
<1>1. /\ nextUID = 1 /\ owner = Idle /\ owner.do = "idle" /\ owner.id = 0 /\ ~overlap /\ ~destroyedUsed
      /\ \A p \in Pools : threadList[p] = <<>> /\ stoppedThread[p] = <<>> /\ curCount[p] = 0
      /\ \A i \in Threads : at[i] = "none" /\ ~terminate[i]
      /\ \A p : ~Removing(p)
  BY DEF ServerInit, NoServer, IOInit, Idle, Call, Removing
<1>2. Len(<<>>) = 0 /\ DOMAIN <<>> = {}
  BY EmptySeq
<1>3. \A p \in Pools : /\ Listed(p) = {} /\ Doomed(p) = {} /\ ToSet(stoppedThread[p]) = {}
                       /\ Once(threadList[p]) /\ Once(stoppedThread[p])
  BY <1>1, <1>2 DEF Listed, Doomed, ToSet, Once
<1>. QED
  BY <1>1, <1>2, <1>3 DEF PoolInv, ListsInv, ThreadsInv, StoppedInv, OwnerInv, DoomedInv

LEMMA MainBooks == Types /\ PoolInv /\ MainThread => PoolInv'
<1>. SUFFICES ASSUME Types, PoolInv, MainThread PROVE PoolInv'
  OBVIOUS
<1>0. PoolTypes /\ IO \in Pools /\ Acceptor \in Pools /\ IO_WORKER_COUNT \in Nat /\ 1 \in Nat
  BY ServerAssumption DEF Types
<1>1. CASE Construct \/ StopIO
  BY <1>0, <1>1, OwnerCallBooks DEF Construct, StopIO
<1>2. CASE StartAccpet \/ StopAcceptor
  BY <1>0, <1>2, OwnerCallBooks DEF StartAccpet, StopAcceptor
<1>3. CASE AddStartFunc \/ AddDestroyFunc
  BY <1>0, <1>3, AddFromBooks DEF AddStartFunc, AddDestroyFunc
<1>4. CASE AddAccept
  BY <1>4, BooksStay DEF AddAccept, AddAll, Books, PoolInv
<1>5. CASE LatchWait
  BY <1>5, BooksStay DEF LatchWait, ioVars, poolVars, loopVars, addVars, Books, PoolInv
<1>. QED
  BY <1>1, <1>2, <1>3, <1>4, <1>5 DEF MainThread

LEMMA ClientBooks ==
  ASSUME Types, PoolInv, NEW f \in Funcs, ClientAdd(f)
  PROVE  PoolInv'
<1>0. PoolTypes /\ IO \in Pools
  BY ServerAssumption DEF Types
<1>1. CASE AddFrom(IO, Func(f))
  BY <1>0, <1>1, AddFromBooks DEF ClientAdd
<1>2. ASSUME NEW i \in ToSet(threadList[IO]), at[i] = "loop", AddHere(i, Func(f)) PROVE PoolInv'
  BY <1>2, BooksStay DEF ClientAdd, AddHere, Enqueue, Books, PoolInv
<1>. QED
  BY <1>1, <1>2 DEF ClientAdd

LEMMA NextBooks == Types /\ PoolInv /\ [ServerNext]_serverVars => PoolInv'
<1>. SUFFICES ASSUME Types, PoolInv, [ServerNext]_serverVars PROVE PoolInv'
  OBVIOUS
<1>0. PoolTypes
  BY DEF Types
<1>1. CASE MainThread
  BY <1>1, MainBooks
<1>2. CASE PoolCall
  BY <1>0, <1>2, CreateBooks, SetThreadBooks, ExitBooks, TakeBooks, JoinBooks, ReturnBooks DEF PoolCall
<1>3. ASSUME NEW i \in Threads, IOThread(i) PROVE PoolInv'
  BY <1>0, <1>3, ThreadBooks
<1>4. ASSUME NEW i \in Threads, RunFunc(i) PROVE PoolInv'
  BY <1>4, BooksStay DEF RunFunc, poolVars, addVars, Books, PoolInv
<1>5. ASSUME NEW f \in Funcs, ClientAdd(f) PROVE PoolInv'
  BY <1>5, ClientBooks
<1>6. CASE UNCHANGED serverVars
  BY <1>6, BooksStay DEF serverVars, ioVars, poolVars, loopVars, addVars, Books, PoolInv
<1>. QED
  BY <1>1, <1>2, <1>3, <1>4, <1>5, <1>6 DEF ServerNext

(* The I/O pools of the server: add finds a thread that runs, whatever      *)
(* clients add, until the owner removes threads, and SetMaxThread and       *)
(* StopAllThread leave a list that is the pool's threads.                   *)
THEOREM PoolsAreSound == ServerSpec => []ListedThreadsRun
<1>1. ServerInit => Types /\ PoolInv
  BY InitTypes, InitBooks
<1>2. Types /\ PoolInv /\ [ServerNext]_serverVars => (Types /\ PoolInv)'
  BY NextTypes, NextBooks
<1>3. Types /\ PoolInv => ListedThreadsRun
  <2>. SUFFICES ASSUME Types, PoolInv PROVE ListedThreadsRun
    OBVIOUS
  <2>1. ASSUME NEW p \in Pools, NEW i \in ToSet(threadList[p])
        PROVE  at[i] # "created" /\ (at[i] = "ended" => Removing(p))
    <3>1. i \in Listed(p) /\ i \in Threads /\ at[i] \notin {"none", "created"}
      BY <2>1, ListFacts DEF Types, PoolInv, ListsInv, Listed
    <3>2. at[i] = "ended" => i \in Doomed(p)
      BY <3>1 DEF PoolInv, ThreadsInv, Doomed
    <3>. QED
      BY <3>1, <3>2 DEF PoolInv, DoomedInv
  <2>2. \A i \in Threads : at[i] \notin {"none", "ended"} =>
          owner.id = i \/ \E p \in Pools : i \in ToSet(threadList[p])
    BY DEF PoolInv, ThreadsInv, Listed
  <2>3. owner = Idle => \A p \in Pools : curCount[p] = Len(threadList[p])
    BY DEF PoolInv, OwnerInv, Idle, Call
  <2>. QED
    BY <2>1, <2>2, <2>3 DEF PoolInv, ListedThreadsRun
<1>. QED
  BY <1>1, <1>2, <1>3, PTL DEF ServerSpec

-----------------------------------------------------------------------------
(* Where the functions of clients are.                                      *)
LEMMA OthersMove ==
  ASSUME FuncsInv, UNCHANGED <<added, ran>>, destroyedUsed => destroyedUsed',
         \A f \in Funcs :
           /\ Func(f) \in lost' <=> Func(f) \in lost
           /\ \A i \in Threads :
                /\ In(events[i], Func(f))' <=> In(events[i], Func(f))
                /\ InOnce(events[i], Func(f)) => InOnce(events[i], Func(f))'
  PROVE  FuncsInv'
<1>1. \A f \in Funcs : Func(f)' = Func(f)
  BY DEF Func
<1>2. \A f \in Funcs : Single(Func(f)) => Single(Func(f))'
  BY <1>1 DEF Single
<1>. QED
  BY <1>1, <1>2 DEF FuncsInv

LEMMA AddFromOthers ==
  ASSUME PoolTypes, NEW p \in Pools, NEW e \in Functions, AddFrom(p, e)
  PROVE  /\ destroyedUsed => destroyedUsed'
         /\ \A x : x # e =>
              /\ x \in lost' <=> x \in lost
              /\ \A i \in Threads : /\ In(events[i], x)' <=> In(events[i], x)
                                    /\ InOnce(events[i], x) => InOnce(events[i], x)'
<1>1. CASE threadList[p] = <<>>
  BY <1>1 DEF AddFrom
<1>2. CASE threadList[p] # <<>>
  <2>1. Picked(p) \in Threads /\ Enqueue(Picked(p), e) /\ lost' = lost
    BY <1>2, PickedIsListed DEF AddFrom
  <2>2. CASE at[Picked(p)] = "ended"
    BY <2>1, <2>2 DEF Enqueue
  <2>3. CASE at[Picked(p)] # "ended"
    <3>1. /\ events' = [events EXCEPT ![Picked(p)] = Append(@, e)] /\ destroyedUsed' = destroyedUsed
          /\ events \in [Threads -> Seq(Functions)]
      BY <2>1, <2>3 DEF Enqueue, PoolTypes
    <3>2. /\ \A i \in Threads : \A x : In(events[i], x)' <=> In(events[i], x) \/ (i = Picked(p) /\ x = e)
          /\ \A i \in Threads : \A x :
               InOnce(events[i], x) /\ (i = Picked(p) /\ x = e => ~In(events[i], x)) => InOnce(events[i], x)'
      BY <2>1, <3>1, Enqueued
    <3>. QED
      BY <2>1, <3>1, <3>2
  <2>. QED
    BY <2>2, <2>3
<1>. QED
  BY <1>1, <1>2

LEMMA AddAllOthers ==
  ASSUME PoolTypes, NEW p \in Pools, NEW e \in Functions, AddAll(p, e)
  PROVE  \A i \in Threads : \A x :
           /\ In(events[i], x)' <=> In(events[i], x) \/ (i \in Listed(p) /\ x = e)
           /\ InOnce(events[i], x) /\ (x = e => ~In(events[i], x)) => InOnce(events[i], x)'
<1>. TAKE i \in Threads
<1>1. events[i] \in Seq(Functions) /\ events'[i] = IF i \in Listed(p) THEN Append(events[i], e) ELSE events[i]
  BY DEF AddAll, PoolTypes, Listed
<1>2. CASE i \in Listed(p)
  <2>1. events'[i] = Append(events[i], e)
    BY <1>1, <1>2
  <2>. QED
    BY <1>1, <1>2, <2>1, AppendElement
<1>3. CASE i \notin Listed(p)
  BY <1>1, <1>3
<1>. QED
  BY <1>2, <1>3

LEMMA MainFuncs == Types /\ FuncsInv /\ MainThread => FuncsInv'
<1>. SUFFICES ASSUME Types, FuncsInv, MainThread PROVE FuncsInv'
  OBVIOUS
<1>0. /\ PoolTypes /\ IO \in Pools /\ Acceptor \in Pools
      /\ \A n \in {"start", "accept", "destroy"} : /\ Func(n) \in Functions
                                                   /\ \A f \in Funcs : Func(f) # Func(n)
  BY ServerAssumption, FunctionFacts DEF Types
<1>1. ASSUME UNCHANGED <<callVars, handshakeVars>> PROVE FuncsInv'
  BY <1>1, OthersMove DEF callVars, loopVars, handshakeVars
<1>2. CASE Construct \/ StartAccpet \/ StopIO \/ StopAcceptor
  BY <1>1, <1>2 DEF Construct, StartAccpet, StopIO, StopAcceptor
<1>3. CASE AddStartFunc
  <2>1. AddFrom(Acceptor, Func("start")) /\ UNCHANGED <<added, ran>>
    BY <1>3 DEF AddStartFunc, handshakeVars
  <2>. QED
    BY <1>0, <2>1, AddFromOthers, OthersMove
<1>4. CASE AddDestroyFunc
  <2>1. AddFrom(Acceptor, Func("destroy")) /\ UNCHANGED <<added, ran>>
    BY <1>4 DEF AddDestroyFunc, handshakeVars
  <2>. QED
    BY <1>0, <2>1, AddFromOthers, OthersMove
<1>5. CASE AddAccept
  <2>1. AddAll(IO, Func("accept")) /\ UNCHANGED <<added, ran, lost, destroyedUsed>>
    BY <1>5 DEF AddAccept, AddAll, handshakeVars
  <2>. QED
    BY <1>0, <2>1, AddAllOthers, OthersMove
<1>6. CASE LatchWait
  BY <1>1, <1>6 DEF LatchWait, ioVars, callVars
<1>. QED
  BY <1>2, <1>3, <1>4, <1>5, <1>6 DEF MainThread

LEMMA RunFuncs ==
  ASSUME Types, FuncsInv, ~destroyedUsed, NEW i \in Threads, RunFunc(i)
  PROVE  FuncsInv'
<1>0. /\ PoolTypes /\ acceptThread \in Threads \cup {0} /\ UNCHANGED <<lost, destroyedUsed, added>>
      /\ events \in [Threads -> Seq(Functions)] /\ ran \in [Funcs -> Threads \cup {0}] /\ i # 0
  BY IOAssumption DEF Types, PoolTypes, ServiceTypes, RunFunc
<1>1. ASSUME NEW e, Runs(i, e), Consumed(i)
      PROVE  /\ e = Head(events[i])
             /\ \A k \in Threads : \A x : In(events[k], x) <=> In(events[k], x)' \/ (k = i /\ x = e)
             /\ \A k \in Threads : \A x : InOnce(events[k], x) => InOnce(events[k], x)'
             /\ InOnce(events[i], e) => ~In(events'[i], e)
  <2>1. events[i] # <<>> /\ Head(events[i]) = e /\ events' = [events EXCEPT ![i] = Tail(@)]
    BY <1>1 DEF Runs, Consumed
  <2>. QED
    BY <1>0, <2>1, Dequeued
<1>2. ASSUME NEW e, Runs(i, e), Consumed(i), \A f \in Funcs : Func(f) # e, UNCHANGED ran PROVE FuncsInv'
  <2>1. /\ \A k \in Threads : \A x : In(events[k], x) <=> In(events[k], x)' \/ (k = i /\ x = e)
        /\ \A k \in Threads : \A x : InOnce(events[k], x) => InOnce(events[k], x)'
    BY <1>1, <1>2
  <2>. QED
    BY <1>0, <1>2, <2>1, OthersMove
<1>3. CASE StartFunc(i)
  BY <1>2, <1>3, FunctionFacts DEF StartFunc
<1>4. CASE DestroyFunc(i)
  BY <1>2, <1>4, FunctionFacts DEF DestroyFunc
<1>5. ASSUME NEW j \in Threads, AddAcceptCallback(i, j) PROVE FuncsInv'
  BY <1>2, <1>5, FunctionFacts DEF AddAcceptCallback
<1>6. CASE HandOver(i)
  <2>1. /\ events[i] \in Seq(Functions) /\ events[i] # <<>> /\ Head(events[i]) = Func("accept")
        /\ \A f \in Funcs : Func(f) # Func("accept") /\ Func(f) # CallbackFunc(i)
    BY <1>0, <1>6, RunsHead, FunctionFacts DEF HandOver
  <2>2. \A x : In(events[i], x) <=> x = Func("accept") \/ In(Tail(events[i]), x)
    BY <2>1, TakeHead
  <2>3. \A k \in Threads : \A x :
          x # Func("accept") /\ x # CallbackFunc(i) =>
            /\ In(events[k], x)' <=> In(events[k], x)
            /\ InOnce(events[k], x) => InOnce(events[k], x)'
    BY <1>0, <1>6, <2>2, HandedOver
  <2>. QED
    BY <1>0, <1>6, <2>1, <2>3, OthersMove DEF HandOver
<1>7. CASE ClientFunc(i)
  <2>1. PICK f \in Funcs : Runs(i, Func(f)) /\ Consumed(i) /\ ran' = [ran EXCEPT ![f] = i]
    BY <1>7 DEF ClientFunc
  <2>2. /\ In(events[i], Func(f)) /\ Single(Func(f)) /\ f \in added /\ ran[f] = 0 /\ Func(f) \notin lost
        /\ \A g \in Funcs : g # f => Func(g) # Func(f)
    BY <1>0, <2>1, RunsHead, FunctionFacts DEF FuncsInv
  <2>3. /\ \A k \in Threads : \A x : In(events[k], x) <=> In(events[k], x)' \/ (k = i /\ x = Func(f))
        /\ \A k \in Threads : \A x : InOnce(events[k], x) => InOnce(events[k], x)'
        /\ ~In(events'[i], Func(f))
    BY <1>1, <2>1, <2>2 DEF Single
  <2>4. \A k \in Threads : ~In(events'[k], Func(f))
    BY <2>2, <2>3 DEF Single
  <2>5. ran'[f] = i /\ \A g \in Funcs : g # f => ran'[g] = ran[g]
    BY <1>0, <2>1
  <2>6. \A g \in Funcs : Func(g)' = Func(g)
    BY DEF Func
  <2>7. \A g \in Funcs : Single(Func(g))'
    BY <2>3, <2>6 DEF FuncsInv, Single
  <2>8. \A g \in Funcs, k \in Threads : In(events'[k], Func(g)) =>
          g # f /\ In(events[k], Func(g))
    BY <2>3, <2>4
  <2>9. \A g \in Funcs : g # f => \A k \in Threads : In(events[k], Func(g)) => In(events'[k], Func(g))
    BY <2>2, <2>3
  <2>. QED
    BY <1>0, <2>2, <2>4, <2>5, <2>6, <2>7, <2>8, <2>9 DEF FuncsInv
<1>. QED
  BY <1>3, <1>4, <1>5, <1>6, <1>7 DEF RunFunc

LEMMA ClientFuncs ==
  ASSUME Types, FuncsInv, ~destroyedUsed, NEW f \in Funcs, ClientAdd(f)
  PROVE  FuncsInv'
<1>0. /\ PoolTypes /\ IO \in Pools /\ Func(f) \in Functions /\ f \notin added /\ added' = added \cup {f}
      /\ events \in [Threads -> Seq(Functions)] /\ UNCHANGED ran
      /\ \A g \in Funcs : g # f => Func(g) # Func(f)
      /\ \A g \in Funcs : Func(g)' = Func(g)
  BY ServerAssumption, FunctionFacts DEF Types, PoolTypes, ClientAdd, Func
<1>1. ran[f] = 0 /\ Func(f) \notin lost /\ \A i \in Threads : ~In(events[i], Func(f))
  BY <1>0 DEF FuncsInv
<1>2. ASSUME NEW t \in Threads, Enqueue(t, Func(f)), UNCHANGED lost
      PROVE  FuncsInv'
  <2>1. CASE at[t] = "ended"
    <3>1. UNCHANGED <<events, ran, lost>> /\ destroyedUsed'
      BY <1>0, <1>2, <2>1 DEF Enqueue
    <3>2. \A g \in Funcs : Single(Func(g))'
      BY <1>0, <3>1 DEF FuncsInv, Single
    <3>. QED
      BY <1>0, <1>1, <3>1, <3>2 DEF FuncsInv
  <2>2. CASE at[t] # "ended"
    <3>1. events' = [events EXCEPT ![t] = Append(@, Func(f))] /\ destroyedUsed' = destroyedUsed
      BY <1>2, <2>2 DEF Enqueue
    <3>2. /\ \A i \in Threads : \A x : In(events[i], x)' <=> In(events[i], x) \/ (i = t /\ x = Func(f))
          /\ \A i \in Threads : \A x :
               InOnce(events[i], x) /\ (i = t /\ x = Func(f) => ~In(events[i], x)) => InOnce(events[i], x)'
      BY <1>0, <3>1, Enqueued
    <3>3. ASSUME NEW g \in Funcs PROVE Single(Func(g))'
      <4>1. Single(Func(g))
        BY DEF FuncsInv
      <4>2. \A i \in Threads : InOnce(events'[i], Func(g))
        BY <1>1, <3>2, <4>1 DEF Single
      <4>3. \A i, j \in Threads : In(events'[i], Func(g)) /\ In(events'[j], Func(g)) => i = j
        BY <1>0, <1>1, <3>2, <4>1 DEF Single
      <4>. QED
        BY <1>0, <4>2, <4>3 DEF Single
    <3>4. \A g \in Funcs, i \in Threads : In(events'[i], Func(g)) => g = f \/ In(events[i], Func(g))
      BY <1>0, <3>2
    <3>5. \A g \in Funcs, i \in Threads : In(events[i], Func(g)) => In(events'[i], Func(g))
      BY <3>2
    <3>6. In(events'[t], Func(f))
      BY <3>2
    <3>. QED
      BY <1>0, <1>1, <1>2, <3>1, <3>3, <3>4, <3>5, <3>6 DEF FuncsInv
  <2>. QED
    BY <2>1, <2>2
<1>3. CASE AddFrom(IO, Func(f)) /\ threadList[IO] # <<>>
  BY <1>0, <1>2, <1>3, PickedIsListed DEF AddFrom
<1>4. CASE AddFrom(IO, Func(f)) /\ threadList[IO] = <<>>
  <2>1. lost' = lost \cup {Func(f)} /\ UNCHANGED <<events, destroyedUsed>>
    BY <1>4 DEF AddFrom
  <2>2. \A g \in Funcs : Single(Func(g))'
    BY <1>0, <2>1 DEF FuncsInv, Single
  <2>. QED
    BY <1>0, <1>1, <2>1, <2>2 DEF FuncsInv
<1>5. ASSUME NEW i \in ToSet(threadList[IO]), AddHere(i, Func(f)) PROVE FuncsInv'
  <2>1. i \in Threads
    BY <1>0, ListFacts DEF Listed
  <2>. QED
    BY <1>2, <1>5, <2>1 DEF AddHere
<1>. QED
  BY <1>3, <1>4, <1>5 DEF ClientAdd

(* Nothing is queued at the start.                                          *)
LEMMA NothingQueued ==
  ASSUME ServerInit
  PROVE  \A i \in Threads : \A x : ~In(events[i], x) /\ InOnce(events[i], x)
<1>1. DOMAIN <<>> = {}
  BY EmptySeq
<1>. QED
  BY <1>1 DEF ServerInit, NoServer, IOInit, In, InOnce

LEMMA InitFuncs == ServerInit => FuncsInv
<1>. SUFFICES ASSUME ServerInit PROVE FuncsInv
  OBVIOUS
<1>1. lost = {} /\ added = {} /\ \A f \in Funcs : ran[f] = 0
  BY DEF ServerInit, NoServer, IOInit
<1>. QED
  BY <1>1, NothingQueued DEF FuncsInv, Single

LEMMA NextFuncs == Types /\ FuncsInv /\ [ServerNext]_serverVars => FuncsInv'
<1>. SUFFICES ASSUME Types, FuncsInv, [ServerNext]_serverVars PROVE FuncsInv'
  OBVIOUS
<1>1. CASE MainThread
  BY <1>1, MainFuncs
<1>2. ASSUME UNCHANGED <<added, ran, events, lost, destroyedUsed>> PROVE FuncsInv'
  BY <1>2, OthersMove
<1>3. CASE PoolCall /\ UNCHANGED serviceVars
  BY <1>2, <1>3 DEF PoolCall, CreateThread, SetThread, Exit, TakeStopped, Join, CallReturns,
                    loopVars, serviceVars, handshakeVars
<1>4. ASSUME NEW i \in Threads, IOThread(i), UNCHANGED serviceVars PROVE FuncsInv'
  BY <1>2, <1>4 DEF IOThread, PostBarrier, LoopForever, LeaveLoop, ThreadEnds, serviceVars, handshakeVars
<1>5. CASE UNCHANGED serverVars
  BY <1>2, <1>5 DEF serverVars, ioVars, loopVars, serviceVars, handshakeVars
<1>6. ASSUME NEW i \in Threads, RunFunc(i), ~destroyedUsed PROVE FuncsInv'
  BY <1>6, RunFuncs
<1>7. ASSUME NEW f \in Funcs, ClientAdd(f), ~destroyedUsed PROVE FuncsInv'
  BY <1>7, ClientFuncs
<1>. QED
  BY <1>1, <1>3, <1>4, <1>5, <1>6, <1>7 DEF ServerNext

-----------------------------------------------------------------------------
(* The hand-over of the accept callbacks.                                   *)
Handshakes == {Func("start"), Func("accept"), Func("destroy")} \cup {CallbackFunc(j) : j \in Threads}

LEMMA HandshakeFacts ==
  /\ Func("start")' = Func("start") /\ Func("accept")' = Func("accept")
  /\ Func("destroy")' = Func("destroy")
  /\ \A j \in Threads : CallbackFunc(j)' = CallbackFunc(j)
  /\ Func("start") # Func("accept") /\ Func("start") # Func("destroy")
  /\ Func("accept") # Func("destroy")
  /\ \A j \in Threads : CallbackFunc(j) \notin {Func("start"), Func("accept"), Func("destroy")}
  /\ \A j, k \in Threads : CallbackFunc(j) = CallbackFunc(k) => j = k
  /\ \A f \in Funcs : Func(f) \notin Handshakes
  /\ Handshakes \subseteq Functions
BY FunctionFacts DEF Func, CallbackFunc, Handshakes, Functions

LEMMA SizesStay ==
  ASSUME SizesInv, UNCHANGED <<threadList, owner, mainAt>>
  PROVE  SizesInv'
<1>1. /\ \A p : Goal(p)' = Goal(p)
      /\ HandingOver' = HandingOver /\ Idle' = Idle
  BY DEF Goal, HandingOver, Idle, Call
<1>. QED
  BY <1>1 DEF SizesInv

(* Of the functions of the handshake none is queued anew.                   *)
LEMMA EventsStay ==
  ASSUME SocketInv, CallbacksInv, HandingOver => HandingOver',
         mainAt' = "serving" => latch = 0, HandingOver' => "start" \in posted,
         UNCHANGED <<posted, acceptThread, callbacks, latch, waiting>>,
         \A p \in Pools : Listed(p) \subseteq Listed(p)',
         \A i \in Threads : \A x \in Handshakes :
           (In(events[i], x)' => In(events[i], x)) /\ (InOnce(events[i], x) => InOnce(events[i], x)')
  PROVE  SocketInv' /\ CallbacksInv'
<1>1. /\ Handshakes = {Func("start"), Func("accept"), Func("destroy")} \cup {CallbackFunc(j) : j \in Threads}
      /\ IO \in Pools /\ Acceptor \in Pools
  BY ServerAssumption DEF Handshakes
<1>2. SocketInv'
  BY <1>1, HandshakeFacts DEF SocketInv
<1>3. \A j \in Threads : Single(CallbackFunc(j)) => Single(CallbackFunc(j))'
  BY <1>1, HandshakeFacts DEF Single
<1>4. ASSUME NEW i \in Threads, In(events'[i], Func("accept"))
      PROVE  /\ HandingOver' /\ i \in Listed(IO)' /\ i \notin waiting' /\ i \notin ToSet(callbacks)'
             /\ InOnce(events'[i], Func("accept"))
             /\ \A k \in Threads : ~In(events'[k], CallbackFunc(i))
  <2>1. In(events[i], Func("accept"))
    BY <1>1, <1>4
  <2>. QED
    BY <1>1, <2>1 DEF CallbacksInv
<1>5. ASSUME NEW i \in Threads, NEW j \in Threads, In(events'[i], CallbackFunc(j))
      PROVE  HandingOver' /\ j \in Listed(IO)' /\ j \in waiting' /\ j \notin ToSet(callbacks)'
  <2>1. In(events[i], CallbackFunc(j))
    BY <1>1, <1>5
  <2>. QED
    BY <1>1, <2>1 DEF CallbacksInv
<1>6. CallbacksInv'
  BY <1>1, <1>3, <1>4, <1>5, HandshakeFacts DEF CallbacksInv
<1>. QED
  BY <1>2, <1>6

(* A function that is no function of the handshake is added.                *)
LEMMA AddStays ==
  ASSUME PoolTypes, NEW e \in Functions, e \notin Handshakes,
         (\E p \in Pools : AddFrom(p, e)) \/ (\E t \in Threads : AddHere(t, e))
  PROVE  \A i \in Threads : \A x \in Handshakes :
           (In(events[i], x)' => In(events[i], x)) /\ (InOnce(events[i], x) => InOnce(events[i], x)')
<1>1. ASSUME NEW t \in Threads, Enqueue(t, e)
      PROVE  \A i \in Threads : \A x \in Handshakes :
               (In(events[i], x)' => In(events[i], x)) /\ (InOnce(events[i], x) => InOnce(events[i], x)')
  <2>1. CASE at[t] = "ended"
    BY <1>1, <2>1 DEF Enqueue
  <2>2. CASE at[t] # "ended"
    <3>1. events' = [events EXCEPT ![t] = Append(@, e)] /\ events \in [Threads -> Seq(Functions)]
      BY <1>1, <2>2 DEF Enqueue, PoolTypes
    <3>2. /\ \A i \in Threads : \A x : In(events[i], x)' <=> In(events[i], x) \/ (i = t /\ x = e)
          /\ \A i \in Threads : \A x :
               InOnce(events[i], x) /\ (i = t /\ x = e => ~In(events[i], x)) => InOnce(events[i], x)'
      BY <3>1, Enqueued
    <3>. QED
      BY <3>2
  <2>. QED
    BY <2>1, <2>2
<1>2. ASSUME NEW p \in Pools, AddFrom(p, e)
      PROVE  \A i \in Threads : \A x \in Handshakes :
               (In(events[i], x)' => In(events[i], x)) /\ (InOnce(events[i], x) => InOnce(events[i], x)')
  BY <1>2, AddFromOthers
<1>. QED
  BY <1>1, <1>2 DEF AddHere

LEMMA InitHandshake == ServerInit => HandshakeInv
<1>. SUFFICES ASSUME ServerInit PROVE HandshakeInv
  OBVIOUS
<1>1. /\ mainAt = "construct" /\ owner.do = "idle" /\ owner = Idle /\ Idle.pool \notin Pools
      /\ posted = {} /\ callbacks = <<>> /\ latch = IO_WORKER_COUNT /\ waiting = {}
      /\ \A p \in Pools : threadList[p] = <<>>
      /\ IO_WORKER_COUNT \in Nat
  BY IOAssumption, ServerAssumption DEF ServerInit, NoServer, IOInit, Idle, Call
<1>2. Len(<<>>) = 0 /\ DOMAIN <<>> = {}
  BY EmptySeq
<1>3. /\ ToSet(callbacks) = {} /\ Once(callbacks) /\ Len(callbacks) = 0
      /\ \A p \in Pools : Len(threadList[p]) = 0
  BY <1>1, <1>2 DEF ToSet, Once
<1>4. SizesInv
  BY <1>1, <1>3 DEF SizesInv, Goal, HandingOver
<1>5. SocketInv
  BY <1>1, NothingQueued DEF SocketInv, HandingOver
<1>6. CallbacksInv
  <2>1. \A i \in Threads : \A x : ~In(events[i], x) /\ InOnce(events[i], x)
    BY NothingQueued
  <2>2. \A x : Single(x)
    BY <2>1 DEF Single
  <2>3. mainAt # "serving" /\ latch + Len(callbacks) = IO_WORKER_COUNT
    BY <1>1, <1>3
  <2>. QED
    BY <1>1, <1>3, <2>1, <2>2, <2>3 DEF CallbacksInv
<1>. QED
  BY <1>4, <1>5, <1>6 DEF HandshakeInv

(* When the latch is down, every I/O thread has its callback.               *)
LEMMA AllAccept ==
  ASSUME Types, PoolInv, SizesInv, CallbacksInv, HandingOver, latch = 0
  PROVE  Len(callbacks) = IO_WORKER_COUNT /\ ToSet(callbacks) = Listed(IO)
<1>1. /\ IO \in Pools /\ IO_WORKER_COUNT \in Nat /\ None \notin Pools
      /\ callbacks \in Seq(Threads) /\ Once(callbacks) /\ ToSet(callbacks) \subseteq Listed(IO)
      /\ latch + Len(callbacks) = IO_WORKER_COUNT
  BY ServerAssumption, IOAssumption DEF Types, ServiceTypes, CallbacksInv
<1>2. Len(callbacks) = IO_WORKER_COUNT
  BY <1>1, LenProperties
<1>3. owner = Idle /\ owner.pool # IO /\ Goal(IO) = IO_WORKER_COUNT
  BY <1>1 DEF SizesInv, HandingOver, Goal, Idle, Call
<1>4. threadList[IO] \in Seq(Threads) /\ Len(threadList[IO]) = IO_WORKER_COUNT /\ Once(threadList[IO])
  BY <1>1, <1>3, ListFacts DEF SizesInv, Types, PoolInv, ListsInv
<1>5. IsFiniteSet(Listed(IO)) /\ Cardinality(Listed(IO)) = Cardinality(ToSet(callbacks))
  BY <1>1, <1>2, <1>4, ListCount DEF Listed
<1>. QED
  BY <1>1, <1>2, <1>5, FS_Subset

LEMMA MainHandshake == Types /\ PoolInv /\ HandshakeInv /\ MainThread => HandshakeInv'
<1>. SUFFICES ASSUME Types, PoolInv, HandshakeInv, MainThread, Early' PROVE (SizesInv /\ SocketInv /\ CallbacksInv)'
  BY DEF HandshakeInv
<1>0. /\ PoolTypes /\ Pools = {IO, Acceptor} /\ IO # Acceptor /\ IO_WORKER_COUNT \in Nat
      /\ None \notin Pools /\ \A p \in Pools : Len(threadList[p]) \in Nat
      /\ \A n \in {"start", "accept", "destroy"} : Func(n) \in Functions
  BY ServerAssumption, IOAssumption, FunctionFacts, ListFacts DEF Types
<1>1. /\ owner = Idle /\ owner.do = "idle" /\ owner.pool \notin Pools
      /\ \A p \in Pools : curCount[p] = Len(threadList[p])
  BY <1>0 DEF MainThread, Construct, StartAccpet, AddStartFunc, AddAccept, LatchWait, AddDestroyFunc,
              StopIO, StopAcceptor, MainGoes, PoolInv, OwnerInv, Idle, Call
<1>2. SizesInv /\ SocketInv /\ CallbacksInv
  BY DEF HandshakeInv, Early, MainThread, Construct, StartAccpet, AddStartFunc, AddAccept, LatchWait,
         AddDestroyFunc, StopIO, StopAcceptor, MainGoes
<1>3. \A p \in Pools : Len(threadList[p]) = Goal(p)
  BY <1>1, <1>2 DEF SizesInv
<1>4. ASSUME UNCHANGED <<callVars, handshakeVars>>, HandingOver => HandingOver',
             mainAt' = "serving" => latch = 0, HandingOver' => "start" \in posted
      PROVE  (SocketInv /\ CallbacksInv)'
  <2>1. UNCHANGED <<threadList, events, posted, acceptThread, callbacks, latch, waiting>>
    BY <1>4 DEF callVars, poolVars, loopVars, handshakeVars
  <2>2. \A p : Listed(p)' = Listed(p)
    BY <2>1 DEF Listed
  <2>. QED
    BY <1>2, <1>4, <2>1, <2>2, EventsStay
<1>5. ASSUME UNCHANGED threadList, NEW p \in Pools, NEW n \in Nat, SetMaxThread(p, n),
             Len(threadList[p]) = 0, Goal(p)' = n,
             \A q \in Pools : q # p => Goal(q)' = Goal(q), mainAt' \in {"constructed", "start"}
      PROVE  SizesInv'
  <2>1. /\ curCount[p] = 0
        /\ \/ n = 0 /\ owner' = Idle
           \/ n > 0 /\ owner' = Call("create", p, n)
    BY <1>1, <1>5 DEF SetMaxThread
  <2>2. owner'.do \in {"idle", "create"} /\ ~(mainAt = "construct" \/ mainAt = "barrier" \/ HandingOver)'
    BY <1>5, <2>1 DEF Idle, Call, HandingOver
  <2>3. Len(threadList'[p]) + (IF owner'.pool = p THEN owner'.left ELSE 0) = n
    BY <1>0, <1>5, <2>1 DEF Idle, Call
  <2>4. \A q \in Pools : q # p => owner'.pool # q
    BY <1>0, <2>1 DEF Idle, Call
  <2>5. \A q \in Pools : q # p => Len(threadList'[q]) + (IF owner'.pool = q THEN owner'.left ELSE 0) = Goal(q)'
    BY <1>0, <1>3, <1>5, <2>4
  <2>. QED
    BY <1>5, <2>2, <2>3, <2>5 DEF SizesInv
<1>6. CASE Construct
  <2>1. mainAt = "construct" /\ mainAt' = "constructed" /\ UNCHANGED <<callVars, handshakeVars>>
    BY <1>6 DEF Construct, MainGoes
  <2>2. /\ Goal(IO) = 0 /\ Goal(IO)' = IO_WORKER_COUNT /\ Goal(Acceptor)' = Goal(Acceptor)
        /\ ~HandingOver /\ ~HandingOver'
    BY <1>0, <2>1 DEF Goal, HandingOver
  <2>3. SizesInv'
    BY <1>0, <1>3, <1>5, <1>6, <2>1, <2>2 DEF Construct, callVars, poolVars
  <2>. QED
    BY <1>4, <2>1, <2>2, <2>3
<1>7. CASE StartAccpet
  <2>1. mainAt = "constructed" /\ mainAt' = "start" /\ UNCHANGED <<callVars, handshakeVars>>
    BY <1>7 DEF StartAccpet, MainGoes
  <2>2. /\ Goal(Acceptor) = 0 /\ Goal(Acceptor)' = 1 /\ Goal(IO)' = Goal(IO)
        /\ ~HandingOver /\ ~HandingOver'
    BY <1>0, <2>1 DEF Goal, HandingOver
  <2>3. SizesInv'
    BY <1>0, <1>3, <1>5, <1>7, <2>1, <2>2 DEF StartAccpet, callVars, poolVars
  <2>. QED
    BY <1>4, <2>1, <2>2, <2>3
<1>8. ASSUME UNCHANGED <<threadList, owner>>, \A p \in Pools : Goal(p)' = Goal(p) PROVE SizesInv'
  BY <1>1, <1>3, <1>8 DEF SizesInv, Idle, Call
<1>9. CASE AddStartFunc
  <2>1. /\ mainAt = "start" /\ mainAt' = "barrier" /\ AddFrom(Acceptor, Func("start"))
        /\ UNCHANGED <<addVars, handshakeVars>>
        /\ UNCHANGED <<threadList, owner, posted, acceptThread, callbacks, latch, waiting>>
    BY <1>9 DEF AddStartFunc, MainGoes, addVars, handshakeVars
  <2>2. /\ \A p : Goal(p)' = Goal(p) /\ Listed(p)' = Listed(p)
        /\ ~HandingOver /\ ~HandingOver'
    BY <2>1 DEF Goal, HandingOver, Listed
  <2>3. \A i \in Threads : \A x :
          /\ In(events[i], x)' => In(events[i], x) \/ (x = Func("start") /\ i \in Listed(Acceptor))
          /\ InOnce(events[i], x) /\ x # Func("start") => InOnce(events[i], x)'
    <3>1. CASE threadList[Acceptor] = <<>>
      BY <2>1, <3>1 DEF AddFrom
    <3>2. CASE threadList[Acceptor] # <<>>
      <4>1. /\ Picked(Acceptor) \in Threads /\ Picked(Acceptor) \in Listed(Acceptor)
            /\ Enqueue(Picked(Acceptor), Func("start"))
        BY <1>0, <2>1, <3>2, PickedIsListed DEF AddFrom
      <4>2. CASE at[Picked(Acceptor)] = "ended"
        BY <4>1, <4>2 DEF Enqueue
      <4>3. CASE at[Picked(Acceptor)] # "ended"
        <5>1. /\ events' = [events EXCEPT ![Picked(Acceptor)] = Append(@, Func("start"))]
              /\ events \in [Threads -> Seq(Functions)] /\ Func("start") \in Functions
          BY <1>0, <4>1, <4>3 DEF Enqueue, PoolTypes
        <5>2. /\ \A i \in Threads : \A x :
                   In(events[i], x)' <=> In(events[i], x) \/ (i = Picked(Acceptor) /\ x = Func("start"))
              /\ \A i \in Threads : \A x :
                   InOnce(events[i], x) /\ (i = Picked(Acceptor) /\ x = Func("start") => ~In(events[i], x))
                     => InOnce(events[i], x)'
          BY <4>1, <5>1, Enqueued
        <5>. QED
          BY <4>1, <5>2
      <4>. QED
        BY <4>2, <4>3
    <3>. QED
      BY <3>1, <3>2
  <2>4. SizesInv'
    BY <1>8, <2>1, <2>2
  <2>5. SocketInv'
    BY <1>2, <2>1, <2>2, <2>3, HandshakeFacts DEF SocketInv
  <2>6. \A i \in Threads : ~In(events'[i], Func("accept"))
    BY <1>2, <2>2, <2>3, HandshakeFacts DEF CallbacksInv
  <2>7. \A i, j \in Threads : ~In(events'[i], CallbackFunc(j))
    BY <1>2, <2>2, <2>3, HandshakeFacts DEF CallbacksInv
  <2>8. \A j \in Threads : Single(CallbackFunc(j))'
    BY <1>2, <2>3, <2>7, HandshakeFacts DEF CallbacksInv, Single
  <2>9. CallbacksInv'
    BY <1>2, <2>1, <2>2, <2>6, <2>7, <2>8, HandshakeFacts DEF CallbacksInv
  <2>. QED
    BY <2>4, <2>5, <2>9
<1>10. CASE AddAccept
  <2>1. /\ mainAt = "barrier" /\ mainAt' = "latch" /\ "start" \in posted /\ AddAll(IO, Func("accept"))
        /\ UNCHANGED <<threadList, owner, posted, acceptThread, callbacks, latch, waiting>>
    BY <1>10 DEF AddAccept, MainGoes, addVars, handshakeVars
  <2>2. /\ \A p : Goal(p)' = Goal(p) /\ Listed(p)' = Listed(p)
        /\ ~HandingOver /\ HandingOver'
    BY <2>1 DEF Goal, HandingOver, Listed
  <2>3. \A i \in Threads : \A x :
          /\ In(events[i], x)' <=> In(events[i], x) \/ (i \in Listed(IO) /\ x = Func("accept"))
          /\ InOnce(events[i], x) /\ (x = Func("accept") => ~In(events[i], x)) => InOnce(events[i], x)'
    BY <1>0, <2>1, AddAllOthers
  <2>4. /\ waiting = {} /\ callbacks = <<>>
        /\ \A i \in Threads : ~In(events[i], Func("accept"))
        /\ \A i, j \in Threads : ~In(events[i], CallbackFunc(j))
    BY <1>2, <2>2 DEF CallbacksInv
  <2>5. SizesInv'
    BY <1>8, <2>1, <2>2
  <2>6. SocketInv'
    BY <1>2, <2>1, <2>2, <2>3, HandshakeFacts DEF SocketInv
  <2>7. ToSet(callbacks) = {}
    BY <2>4, EmptySeq DEF ToSet
  <2>8. \A i \in Threads : InOnce(events'[i], Func("accept"))
    <3>1. \A i \in Threads : InOnce(events[i], Func("accept"))
      BY <2>4 DEF In, InOnce
    <3>. QED
      BY <2>3, <2>4, <3>1
  <2>9. \A i \in Threads : In(events'[i], Func("accept")) => i \in Listed(IO)
    BY <2>3, <2>4
  <2>10. \A i, j \in Threads : ~In(events'[i], CallbackFunc(j))
    BY <2>3, <2>4, HandshakeFacts
  <2>11. \A j \in Threads : Single(CallbackFunc(j))'
    BY <1>2, <2>3, <2>10, HandshakeFacts DEF CallbacksInv, Single
  <2>12. CallbacksInv'
    BY <1>2, <2>1, <2>2, <2>4, <2>7, <2>8, <2>9, <2>10, <2>11, HandshakeFacts DEF CallbacksInv
  <2>. QED
    BY <2>5, <2>6, <2>12
<1>11. CASE LatchWait
  <2>1. mainAt = "latch" /\ mainAt' = "serving" /\ latch = 0 /\ UNCHANGED <<ioVars, handshakeVars>>
    BY <1>11 DEF LatchWait, MainGoes
  <2>2. UNCHANGED <<callVars, handshakeVars, threadList, owner>>
    BY <2>1 DEF ioVars, callVars, poolVars
  <2>3. /\ \A p : Goal(p)' = Goal(p)
        /\ HandingOver /\ HandingOver'
    BY <2>1 DEF Goal, HandingOver
  <2>4. "start" \in posted
    BY <1>2, <2>3 DEF SocketInv
  <2>. QED
    BY <1>4, <1>8, <2>1, <2>2, <2>3, <2>4
<1>12. CASE AddDestroyFunc \/ StopIO \/ StopAcceptor
  BY <1>12 DEF AddDestroyFunc, StopIO, StopAcceptor, MainGoes, Early
<1>. QED
  BY <1>6, <1>7, <1>9, <1>10, <1>11, <1>12 DEF MainThread

LEMMA PoolHandshake ==
  Types /\ PoolInv /\ HandshakeInv /\ PoolCall /\ UNCHANGED serviceVars => HandshakeInv'
<1>. SUFFICES ASSUME Types, PoolInv, HandshakeInv, PoolCall, UNCHANGED serviceVars, Early'
              PROVE  (SizesInv /\ SocketInv /\ CallbacksInv)'
  BY DEF HandshakeInv
<1>1. UNCHANGED <<mainAt, posted, acceptThread, callbacks, latch, waiting>>
  BY DEF serviceVars, handshakeVars
<1>2. SizesInv /\ SocketInv /\ CallbacksInv
  BY <1>1 DEF HandshakeInv, Early
<1>3. UNCHANGED events /\ HandingOver' = HandingOver /\ \A p : Goal(p)' = Goal(p)
  BY <1>1 DEF PoolCall, CreateThread, SetThread, Exit, TakeStopped, Join, CallReturns, loopVars,
              HandingOver, Goal
<1>4. /\ PoolTypes /\ Pools = {IO, Acceptor} /\ None \notin Pools /\ owner \in OwnerCalls
      /\ \A p \in Pools : threadList[p] \in Seq(Threads) /\ Len(threadList[p]) \in Nat
  BY ServerAssumption, IOAssumption, ListFacts DEF Types, PoolTypes
<1>5. owner.do \in {"create", "register"} /\ ~(mainAt = "construct" \/ mainAt = "barrier" \/ HandingOver)
  BY <1>2 DEF PoolCall, CreateThread, SetThread, Exit, TakeStopped, Join, CallReturns, SizesInv,
              Idle, Call
<1>6. CASE CreateThread
  <2>1. owner'.do = "register" /\ owner'.pool = owner.pool /\ owner'.left = owner.left /\ UNCHANGED threadList
    BY <1>4, <1>6 DEF CreateThread, OwnerCalls
  <2>2. SizesInv'
    BY <1>1, <1>2, <1>3, <1>5, <2>1 DEF SizesInv
  <2>3. \A p \in Pools : Listed(p) \subseteq Listed(p)'
    BY <2>1 DEF Listed
  <2>. QED
    BY <1>1, <1>2, <1>3, <1>5, <2>2, <2>3, EventsStay DEF HandingOver
<1>7. CASE SetThread
  <2>1. PICK p \in Pools : p = owner.pool
    BY <1>5 DEF PoolInv, OwnerInv
  <2>2. /\ threadList' = [threadList EXCEPT ![p] = Append(@, owner.id)] /\ owner.id \in Threads
        /\ owner' = Call("create", p, owner.left - 1) /\ owner.left \in Nat
    BY <1>4, <1>7, <2>1 DEF SetThread, PoolInv, OwnerInv, OwnerCalls
  <2>3. /\ Len(threadList'[p]) = Len(threadList[p]) + 1
        /\ ToSet(threadList'[p]) = ToSet(threadList[p]) \cup {owner.id}
        /\ \A q \in Pools : q # p => threadList'[q] = threadList[q]
    <3>1. threadList'[p] = Append(threadList[p], owner.id)
      BY <2>2 DEF Types, PoolTypes
    <3>2. /\ Len(threadList'[p]) = Len(threadList[p]) + 1
          /\ ToSet(threadList'[p]) = ToSet(threadList[p]) \cup {owner.id}
      BY <1>4, <2>2, <3>1, AppendElement
    <3>. QED
      BY <2>2, <3>2
  <2>4. owner'.do = "create" /\ owner'.pool = p /\ owner'.left = owner.left - 1
    BY <2>2 DEF Call
  <2>5. \A q \in Pools : Len(threadList'[q]) + (IF owner'.pool = q THEN owner'.left ELSE 0) = Goal(q)
    <3>1. Len(threadList[p]) + owner.left = Goal(p)
      BY <1>2, <2>1 DEF SizesInv
    <3>2. Len(threadList'[p]) + owner'.left = Goal(p)
      BY <1>4, <2>2, <2>3, <2>4, <3>1
    <3>. QED
      BY <1>2, <2>1, <2>3, <2>4, <3>2 DEF SizesInv
  <2>6. SizesInv'
    BY <1>1, <1>3, <1>5, <2>4, <2>5 DEF SizesInv
  <2>7. \A q \in Pools : Listed(q) \subseteq Listed(q)'
    BY <2>3 DEF Listed
  <2>. QED
    BY <1>1, <1>2, <1>3, <1>5, <2>6, <2>7, EventsStay DEF HandingOver
<1>8. CASE CallReturns
  <2>1. owner' = Idle /\ owner'.do = "idle" /\ owner'.pool \notin Pools /\ owner.left = 0 /\ UNCHANGED threadList
    BY <1>4, <1>8 DEF CallReturns, Idle, Call
  <2>2. \A q \in Pools : Len(threadList'[q]) + (IF owner'.pool = q THEN owner'.left ELSE 0) = Goal(q)
    BY <1>2, <1>4, <2>1 DEF SizesInv
  <2>3. SizesInv'
    BY <1>1, <1>3, <1>5, <2>1, <2>2 DEF SizesInv
  <2>4. \A p \in Pools : Listed(p) \subseteq Listed(p)'
    BY <2>1 DEF Listed
  <2>. QED
    BY <1>1, <1>2, <1>3, <1>5, <2>3, <2>4, EventsStay DEF HandingOver
<1>. QED
  BY <1>5, <1>6, <1>7, <1>8 DEF PoolCall, Exit, TakeStopped, Join

LEMMA RunHandshake ==
  ASSUME Types, PoolInv, HandshakeInv, NEW i \in Threads, RunFunc(i), Early'
  PROVE  (SizesInv /\ SocketInv /\ CallbacksInv)'
<1>0. /\ PoolTypes /\ Pools = {IO, Acceptor} /\ events \in [Threads -> Seq(Functions)]
      /\ callbacks \in Seq(Threads) /\ acceptThread \in Threads \cup {0}
      /\ UNCHANGED <<threadList, owner, mainAt>>
  BY ServerAssumption DEF Types, PoolTypes, ServiceTypes, RunFunc, poolVars
<1>1. /\ SizesInv /\ SocketInv /\ CallbacksInv /\ HandingOver' = HandingOver
      /\ \A p : Listed(p)' = Listed(p)
  BY <1>0 DEF HandshakeInv, Early, HandingOver, Listed
<1>2. SizesInv'
  BY <1>0, <1>1, SizesStay
<1>3. ASSUME NEW e, Runs(i, e), Consumed(i)
      PROVE  /\ In(events[i], e)
             /\ \A k \in Threads : \A x : In(events[k], x)' => In(events[k], x)
             /\ \A k \in Threads : \A x : InOnce(events[k], x) => InOnce(events[k], x)'
             /\ InOnce(events[i], e) => ~In(events'[i], e)
  <2>1. events[i] # <<>> /\ Head(events[i]) = e /\ events' = [events EXCEPT ![i] = Tail(@)]
    BY <1>3 DEF Runs, Consumed
  <2>. QED
    BY <1>0, <2>1, Dequeued
<1>4. ASSUME NEW e, Runs(i, e), Consumed(i), UNCHANGED <<posted, acceptThread, callbacks, latch, waiting>>
      PROVE  (SocketInv /\ CallbacksInv)'
  <2>1. /\ \A k \in Threads : \A x : In(events[k], x)' => In(events[k], x)
        /\ \A k \in Threads : \A x : InOnce(events[k], x) => InOnce(events[k], x)'
    BY <1>3, <1>4
  <2>2. (mainAt' = "serving" => latch = 0) /\ (HandingOver' => "start" \in posted)
    BY <1>0, <1>1 DEF SocketInv, CallbacksInv
  <2>. QED
    BY <1>0, <1>1, <1>4, <2>1, <2>2, EventsStay
<1>5. CASE StartFunc(i)
  <2>1. /\ Runs(i, Func("start")) /\ Consumed(i) /\ acceptThread' = i /\ posted' = posted \cup {"start"}
        /\ UNCHANGED <<callbacks, latch, waiting>>
    BY <1>5 DEF StartFunc
  <2>2. /\ In(events[i], Func("start"))
        /\ \A k \in Threads : \A x : In(events[k], x)' => In(events[k], x)
        /\ \A k \in Threads : \A x : InOnce(events[k], x) => InOnce(events[k], x)'
    BY <1>3, <2>1
  <2>3. i \in Listed(Acceptor)
    BY <1>1, <2>2 DEF SocketInv
  <2>4. SocketInv'
    BY <1>0, <1>1, <2>1, <2>2, <2>3, HandshakeFacts DEF SocketInv
  <2>5. \A j \in Threads : Single(CallbackFunc(j))'
    BY <1>1, <2>2, HandshakeFacts DEF CallbacksInv, Single
  <2>6. CallbacksInv'
    BY <1>0, <1>1, <2>1, <2>2, <2>5, HandshakeFacts DEF CallbacksInv
  <2>. QED
    BY <1>2, <2>4, <2>6
<1>6. CASE HandOver(i)
  <2>1. /\ Runs(i, Func("accept")) /\ waiting' = waiting \cup {i}
        /\ UNCHANGED <<posted, acceptThread, callbacks, latch>>
    BY <1>6 DEF HandOver
  <2>2. /\ events[i] \in Seq(Functions) /\ events[i] # <<>> /\ Head(events[i]) = Func("accept")
        /\ In(events[i], Func("accept"))
    BY <1>0, <2>1, RunsHead
  <2>3. /\ HandingOver /\ i \in Listed(IO) /\ i \notin waiting /\ i \notin ToSet(callbacks)
        /\ InOnce(events[i], Func("accept"))
        /\ \A k \in Threads : ~In(events[k], CallbackFunc(i))
    BY <1>1, <2>2 DEF CallbacksInv
  <2>4. ~In(Tail(events[i]), Func("accept")) /\ \A x : In(Tail(events[i]), x) => In(events[i], x)
    BY <2>2, <2>3, TakeHead
  <2>5. /\ \A k \in Threads : \A x :
             In(events[k], x)' <=>
               \/ In(IF k = i THEN Tail(events[i]) ELSE events[k], x)
               \/ k = acceptThread /\ x = CallbackFunc(i)
        /\ \A k \in Threads : \A x :
             /\ InOnce(events[k], x)
             /\ k = acceptThread /\ x = CallbackFunc(i) => ~In(events[k], x)
             => InOnce(events[k], x)'
    BY <1>0, <1>6, HandedOver
  <2>6. \A k \in Threads : \A x : x # CallbackFunc(i) =>
          /\ In(events[k], x)' => In(events[k], x)
          /\ InOnce(events[k], x) => InOnce(events[k], x)'
    BY <2>4, <2>5
  <2>7. ~In(events'[i], Func("accept"))
    BY <2>4, <2>5, HandshakeFacts
  <2>8. SocketInv'
    BY <1>0, <1>1, <2>1, <2>6, HandshakeFacts DEF SocketInv
  <2>9. \A k \in Threads : In(events'[k], CallbackFunc(i)) => k = acceptThread
    BY <2>3, <2>4, <2>5
  <2>10. \A j \in Threads : Single(CallbackFunc(j))'
    <3>1. Single(CallbackFunc(i))'
      BY <1>1, <2>3, <2>5, <2>9, HandshakeFacts DEF CallbacksInv, Single
    <3>2. \A j \in Threads : j # i => Single(CallbackFunc(j))'
      BY <1>1, <2>6, HandshakeFacts DEF CallbacksInv, Single
    <3>. QED
      BY <3>1, <3>2
  <2>11. ASSUME NEW k \in Threads, In(events'[k], Func("accept"))
         PROVE  /\ HandingOver /\ k \in Listed(IO) /\ k \notin waiting' /\ k \notin ToSet(callbacks)
                /\ InOnce(events'[k], Func("accept"))
                /\ \A l \in Threads : ~In(events'[l], CallbackFunc(k))
    <3>1. k # i /\ In(events[k], Func("accept"))
      BY <2>6, <2>7, <2>11, HandshakeFacts
    <3>. QED
      BY <1>1, <2>1, <2>6, <3>1, HandshakeFacts DEF CallbacksInv
  <2>12. ASSUME NEW k \in Threads, NEW j \in Threads, In(events'[k], CallbackFunc(j))
         PROVE  HandingOver /\ j \in Listed(IO) /\ j \in waiting' /\ j \notin ToSet(callbacks)
    <3>1. CASE j = i
      BY <2>1, <2>3, <3>1
    <3>2. CASE j # i
      BY <1>1, <2>1, <2>6, <2>12, <3>2, HandshakeFacts DEF CallbacksInv
    <3>. QED
      BY <3>1, <3>2
  <2>13. CallbacksInv'
    BY <1>0, <1>1, <2>1, <2>3, <2>10, <2>11, <2>12, HandshakeFacts DEF CallbacksInv
  <2>. QED
    BY <1>2, <2>8, <2>13
<1>7. ASSUME NEW j \in Threads, AddAcceptCallback(i, j) PROVE (SizesInv /\ SocketInv /\ CallbacksInv)'
  <2>1. /\ Runs(i, CallbackFunc(j)) /\ Consumed(i) /\ callbacks' = Append(callbacks, j)
        /\ latch' = latch - 1 /\ waiting' = waiting \ {j} /\ UNCHANGED <<posted, acceptThread>>
    BY <1>7 DEF AddAcceptCallback
  <2>2. /\ In(events[i], CallbackFunc(j))
        /\ \A k \in Threads : \A x : In(events[k], x)' => In(events[k], x)
        /\ \A k \in Threads : \A x : InOnce(events[k], x) => InOnce(events[k], x)'
        /\ InOnce(events[i], CallbackFunc(j)) => ~In(events'[i], CallbackFunc(j))
    BY <1>3, <2>1
  <2>3. /\ HandingOver /\ j \in Listed(IO) /\ j \in waiting /\ j \notin ToSet(callbacks)
        /\ Single(CallbackFunc(j))
    BY <1>1, <2>2 DEF CallbacksInv
  <2>4. \A k \in Threads : ~In(events'[k], CallbackFunc(j))
    BY <2>2, <2>3 DEF Single
  <2>5. /\ Len(callbacks') = Len(callbacks) + 1 /\ Once(callbacks')
        /\ ToSet(callbacks') = ToSet(callbacks) \cup {j}
    BY <1>0, <1>1, <2>1, <2>3, AppendElement DEF CallbacksInv
  <2>6. mainAt # "serving"
    BY <1>1, <2>3, AllAccept DEF CallbacksInv
  <2>7. latch' + Len(callbacks') = IO_WORKER_COUNT
    <3>1. latch \in Int /\ Len(callbacks) \in Nat /\ latch + Len(callbacks) = IO_WORKER_COUNT
      BY <1>0, <1>1, LenProperties DEF CallbacksInv, Types, ServiceTypes
    <3>. QED
      BY <2>1, <2>5, <3>1
  <2>8. SocketInv'
    BY <1>0, <1>1, <2>1, <2>2, HandshakeFacts DEF SocketInv
  <2>9. \A k \in Threads : Single(CallbackFunc(k))'
    BY <1>1, <2>2, HandshakeFacts DEF CallbacksInv, Single
  <2>10. ASSUME NEW k \in Threads, In(events'[k], Func("accept"))
         PROVE  /\ HandingOver /\ k \in Listed(IO) /\ k \notin waiting' /\ k \notin ToSet(callbacks')
                /\ InOnce(events'[k], Func("accept"))
                /\ \A l \in Threads : ~In(events'[l], CallbackFunc(k))
    <3>1. In(events[k], Func("accept"))
      BY <2>2, <2>10
    <3>2. k # j
      BY <1>1, <2>2, <3>1 DEF CallbacksInv
    <3>. QED
      BY <1>1, <2>1, <2>2, <2>5, <3>1, <3>2 DEF CallbacksInv
  <2>11. ASSUME NEW k \in Threads, NEW l \in Threads, In(events'[k], CallbackFunc(l))
         PROVE  HandingOver /\ l \in Listed(IO) /\ l \in waiting' /\ l \notin ToSet(callbacks')
    <3>1. l # j /\ In(events[k], CallbackFunc(l))
      BY <2>2, <2>4, <2>11
    <3>. QED
      BY <1>1, <2>1, <2>5, <3>1 DEF CallbacksInv
  <2>12. CallbacksInv'
    BY <1>0, <1>1, <2>3, <2>5, <2>6, <2>7, <2>9, <2>10, <2>11, HandshakeFacts DEF CallbacksInv
  <2>. QED
    BY <1>2, <2>8, <2>12
<1>8. ~DestroyFunc(i)
  BY <1>0, <1>1, RunsHead DEF DestroyFunc, SocketInv
<1>9. CASE ClientFunc(i)
  BY <1>2, <1>4, <1>9 DEF ClientFunc
<1>. QED
  BY <1>5, <1>6, <1>7, <1>8, <1>9 DEF RunFunc

LEMMA NextHandshake == Types /\ PoolInv /\ HandshakeInv /\ [ServerNext]_serverVars => HandshakeInv'
<1>. SUFFICES ASSUME Types, PoolInv, HandshakeInv, [ServerNext]_serverVars, Early'
              PROVE  (SizesInv /\ SocketInv /\ CallbacksInv)'
  BY DEF HandshakeInv
<1>0. PoolTypes /\ IO \in Pools
  BY ServerAssumption DEF Types
<1>1. CASE MainThread
  BY <1>1, MainHandshake DEF HandshakeInv
<1>2. CASE PoolCall /\ UNCHANGED serviceVars
  BY <1>2, PoolHandshake DEF HandshakeInv
<1>3. ASSUME NEW i \in Threads, RunFunc(i) PROVE (SizesInv /\ SocketInv /\ CallbacksInv)'
  BY <1>3, RunHandshake
<1>4. ASSUME UNCHANGED <<threadList, owner, mainAt, posted, acceptThread, callbacks, latch, waiting>>,
             \A i \in Threads : \A x \in Handshakes :
               (In(events[i], x)' => In(events[i], x)) /\ (InOnce(events[i], x) => InOnce(events[i], x)')
      PROVE  (SizesInv /\ SocketInv /\ CallbacksInv)'
  <2>1. /\ SizesInv /\ SocketInv /\ CallbacksInv /\ HandingOver' = HandingOver
        /\ \A p \in Pools : Listed(p) \subseteq Listed(p)'
    BY <1>4 DEF HandshakeInv, Early, HandingOver, Listed
  <2>2. (mainAt' = "serving" => latch = 0) /\ (HandingOver' => "start" \in posted)
    BY <1>4, <2>1 DEF SocketInv, CallbacksInv
  <2>. QED
    BY <1>4, <2>1, <2>2, SizesStay, EventsStay
<1>5. ASSUME UNCHANGED <<threadList, owner, events, serviceVars>>
      PROVE  (SizesInv /\ SocketInv /\ CallbacksInv)'
  BY <1>4, <1>5 DEF serviceVars, handshakeVars
<1>6. ASSUME NEW i \in Threads, IOThread(i), UNCHANGED serviceVars
      PROVE  (SizesInv /\ SocketInv /\ CallbacksInv)'
  BY <1>5, <1>6 DEF IOThread, PostBarrier, LoopForever, LeaveLoop, ThreadEnds, poolVars
<1>7. ASSUME NEW f \in Funcs, ClientAdd(f) PROVE (SizesInv /\ SocketInv /\ CallbacksInv)'
  <2>1. Func(f) \in Functions /\ Func(f) \notin Handshakes
    BY FunctionFacts, HandshakeFacts
  <2>2. (\E p \in Pools : AddFrom(p, Func(f))) \/ (\E t \in Threads : AddHere(t, Func(f)))
    BY <1>0, <1>7, ListFacts DEF ClientAdd, Listed
  <2>3. UNCHANGED <<threadList, owner, mainAt, posted, acceptThread, callbacks, latch, waiting>>
    BY <1>7 DEF ClientAdd, addVars
  <2>4. \A i \in Threads : \A x \in Handshakes :
          (In(events[i], x)' => In(events[i], x)) /\ (InOnce(events[i], x) => InOnce(events[i], x)')
    BY <1>0, <2>1, <2>2, AddStays
  <2>. QED
    BY <1>4, <2>3, <2>4
<1>8. CASE UNCHANGED serverVars
  BY <1>5, <1>8 DEF serverVars, ioVars, poolVars, loopVars
<1>. QED
  BY <1>1, <1>2, <1>3, <1>6, <1>7, <1>8 DEF ServerNext

(* StartAccpet returns when every I/O thread has registered its accept      *)
(* callback once, on the thread of the socket, and every function that a    *)
(* client adds to m_IOTasksExecutor is in one place: queued on one thread,  *)
(* run on one, or dropped by add while the pool has no thread.              *)
THEOREM StartAccpetCompletes == ServerSpec => []ServingIsComplete
<1>1. ServerInit => ServerInv
  BY InitTypes, InitBooks, InitFuncs, InitHandshake DEF ServerInv
<1>2. ServerInv /\ [ServerNext]_serverVars => ServerInv'
  BY NextTypes, NextBooks, NextFuncs, NextHandshake DEF ServerInv
<1>3. ServerInv => ServingIsComplete
  <2>. SUFFICES ASSUME ServerInv PROVE ServingIsComplete
    OBVIOUS
  <2>0. Types /\ PoolTypes /\ PoolInv /\ FuncsInv /\ HandshakeInv
    BY DEF ServerInv, Types
  <2>1. ASSUME mainAt = "serving"
        PROVE  /\ ToSet(callbacks) = ToSet(threadList[IO])
               /\ Len(callbacks) = IO_WORKER_COUNT
               /\ acceptThread \in ToSet(threadList[Acceptor])
    <3>1. SizesInv /\ SocketInv /\ CallbacksInv /\ HandingOver
      BY <2>0, <2>1 DEF HandshakeInv, Early, HandingOver
    <3>2. latch = 0 /\ acceptThread \in Listed(Acceptor)
      BY <2>1, <3>1 DEF SocketInv, CallbacksInv
    <3>. QED
      BY <2>0, <3>1, <3>2, AllAccept DEF Listed
  <2>2. ASSUME ~destroyedUsed, NEW f \in added
        PROVE  LET queued == {i \in Threads : Contains(events[i], Func(f))}
               IN Cardinality(queued) + (IF ran[f] # 0 THEN 1 ELSE 0)
                    + (IF Func(f) \in lost THEN 1 ELSE 0) = 1
    <3>. DEFINE queued == {i \in Threads : Contains(events[i], Func(f))}
    <3>1. f \in Funcs
      BY <2>0, <2>2 DEF Types, ServiceTypes
    <3>2. \A i \in Threads : Contains(events[i], Func(f)) <=> In(events[i], Func(f))
      <4>1. \A i \in Threads : DOMAIN events[i] = 1..Len(events[i])
        BY <2>0, LenProperties DEF PoolTypes
      <4>. QED
        BY <4>1 DEF Contains, In
    <3>3. /\ \A i, j \in queued : i = j
          /\ queued # {} => ran[f] = 0 /\ Func(f) \notin lost
          /\ ran[f] # 0 => Func(f) \notin lost
          /\ queued # {} \/ ran[f] # 0 \/ Func(f) \in lost
      BY <2>0, <2>2, <3>1, <3>2 DEF FuncsInv, Single
    <3>4. CASE queued = {}
      <4>1. Cardinality(queued) = 0
        BY <3>4, FS_EmptySet
      <4>. QED
        BY <3>3, <3>4, <4>1
    <3>5. CASE queued # {}
      <4>1. PICK i \in queued : queued = {i}
        BY <3>3, <3>5
      <4>2. Cardinality(queued) = 1
        BY <4>1, FS_Singleton
      <4>. QED
        BY <3>3, <3>5, <4>2
    <3>. QED
      BY <3>4, <3>5
  <2>. QED
    BY <2>1, <2>2 DEF ServingIsComplete
<1>. QED
  BY <1>1, <1>2, <1>3, PTL DEF ServerSpec

-----------------------------------------------------------------------------
(* Where a call is: its context lives until the runner has fulfilled its    *)
(* promise, of one call at a time.                                          *)
CallTypes ==
  /\ client \in {"new", "ready", "shutdown", "destroyed"}
  /\ runner \in {"none", "next", "delete", "stopped", "joined"}
  /\ caller \in [Calls -> {"out", "future", "back"}]
  /\ context \in [Calls -> {"none", "live", "finished", "taken", "deleted"}]
  /\ answer \in [Calls -> {"none", "pending", "value"}]
  /\ misused \in BOOLEAN

CallsInv ==
  /\ CallTypes
  /\ \A c \in Calls : /\ caller[c] = "out" <=> context[c] = "none"
                      /\ caller[c] = "back" => answer[c] # "none" \/ misused
                      /\ answer[c] = "pending" => context[c] \in {"live", "finished"}
                      /\ context[c] = "taken" => runner = "delete"
  /\ \A c, d \in Calls : context[c] = "taken" /\ context[d] = "taken" => c = d
  /\ runner = "none" <=> client = "new"
  /\ runner = "joined" <=> client = "destroyed"
  /\ runner = "stopped" => client = "shutdown"
  /\ runner \in {"none", "stopped", "joined"} /\ ~misused =>
       \A c \in Calls : context[c] \in {"none", "deleted"}

(* Where the server's thread is while its owner is in or between the calls. *)
GrpcServerInv ==
  /\ serverAt \in {"none", "build", "wait", "stopping", "ended"}
  /\ serverMain \in {"idle", "start", "exit", "join"}
  /\ running \in BOOLEAN /\ serverStarted \in BOOLEAN /\ ended \in BOOLEAN
  /\ running => serverAt = "wait"
  /\ serverAt = "build" => serverMain = "start"
  /\ serverMain = "start" => serverAt = "build" \/ running
  /\ serverAt \in {"build", "wait", "stopping"} => ~ended
  /\ serverAt \in {"wait", "stopping", "ended"} => serverStarted
  /\ serverAt = "none" => ~serverStarted
  /\ serverMain \in {"exit", "join"} => ~running /\ serverAt \in {"wait", "stopping", "ended"}
  /\ serverMain = "join" => serverAt = "ended"
  /\ serverMain = "idle" /\ serverStarted /\ ~running => serverAt = "ended"

LEMMA CallsInvNext ==
  ASSUME CallsInv, Client, ~misused
  PROVE  CallsInv'
<1>. USE DEF CallsInv, CallTypes
<1>1. CASE OnInitGrpc
  BY <1>1 DEF OnInitGrpc
<1>2. ASSUME NEW c \in Calls, StartCall(c) PROVE CallsInv'
  BY <1>2 DEF StartCall
<1>3. ASSUME NEW c \in Calls, GetReply(c) PROVE CallsInv'
  BY <1>3 DEF GetReply
<1>4. ASSUME NEW c \in Calls, CallFinishes(c) PROVE CallsInv'
  BY <1>4 DEF CallFinishes
<1>5. ASSUME NEW c \in Calls, FulfilPromise(c) PROVE CallsInv'
  BY <1>5 DEF FulfilPromise
<1>6. ASSUME NEW c \in Calls, DeleteCall(c) PROVE CallsInv'
  BY <1>6 DEF DeleteCall
<1>7. CASE QueueDrained
  BY <1>7 DEF QueueDrained
<1>8. CASE ShutdownQueue
  BY <1>8 DEF ShutdownQueue
<1>9. CASE JoinRunner
  BY <1>9 DEF JoinRunner
<1>. QED
  BY <1>1, <1>2, <1>3, <1>4, <1>5, <1>6, <1>7, <1>8, <1>9 DEF Client, RunClient

LEMMA GrpcServerInvNext ==
  ASSUME GrpcServerInv, RunServer \/ ServerOwner
  PROVE  GrpcServerInv'
<1>. USE DEF GrpcServerInv
<1>1. CASE BuildAndStart
  BY <1>1 DEF BuildAndStart
<1>2. CASE WaitReturns
  BY <1>2 DEF WaitReturns
<1>3. CASE BeforeExit
  BY <1>3 DEF BeforeExit
<1>4. CASE StartServer
  BY <1>4 DEF StartServer
<1>5. CASE WaitRun
  BY <1>5 DEF WaitRun
<1>6. CASE StopServer
  BY <1>6 DEF StopServer
<1>7. CASE WaitExit
  BY <1>7 DEF WaitExit
<1>8. CASE JoinServer
  BY <1>8 DEF JoinServer
<1>. QED
  BY <1>1, <1>2, <1>3, <1>4, <1>5, <1>6, <1>7, <1>8 DEF RunServer, ServerOwner

(* A context is deleted after its promise is fulfilled, OnDestroy leaves    *)
(* no context and no future without a value, and StopServer no thread       *)
(* (NothingIsLeft).                                                         *)
THEOREM CallsAndServerAreSettled == GrpcSpec => []NothingIsLeft
<1>1. GrpcInit => CallsInv /\ GrpcServerInv
  BY DEF GrpcInit, CallsInv, CallTypes, GrpcServerInv
<1>2. CallsInv /\ GrpcServerInv /\ [GrpcNext]_grpcVars => (CallsInv /\ GrpcServerInv)'
  <2>. SUFFICES ASSUME CallsInv, GrpcServerInv, [GrpcNext]_grpcVars
                PROVE  (CallsInv /\ GrpcServerInv)'
    OBVIOUS
  <2>1. UNCHANGED clientVars => CallsInv'
    BY DEF clientVars, CallsInv, CallTypes
  <2>2. UNCHANGED grpcServerVars => GrpcServerInv'
    BY DEF grpcServerVars, GrpcServerInv
  <2>. QED
    BY <2>1, <2>2, CallsInvNext, GrpcServerInvNext DEF GrpcNext, grpcVars
<1>3. CallsInv /\ GrpcServerInv => NothingIsLeft
  BY DEF CallsInv, CallTypes, GrpcServerInv, NothingIsLeft
<1>. QED
  BY <1>1, <1>2, <1>3, PTL DEF GrpcSpec
=============================================================================
