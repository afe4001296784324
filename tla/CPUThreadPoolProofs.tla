------------------------ MODULE CPUThreadPoolProofs ------------------------
(***************************************************************************)
(* Theorems of CPUThreadPool for any number of clients, threads and Tasks  *)
(* and any capacity of the queue.                                          *)
(*                                                                         *)
(* Argument, in two layers.                                                *)
(*  - ListInv: the list has the threads that were created and not joined,  *)
(*    but for the one that is being added; m_StoppedThread has ended ones. *)
(*  - Enough: the poisons a removal has sent are in the queue, in a hand,  *)
(*    or have ended a thread, at least one for each thread it has still to *)
(*    join; and so many threads are awake or can be woken.  A thread falls *)
(*    asleep only when the queue is empty, and then the first count is one *)
(*    of threads that are awake.                                           *)
(***************************************************************************)
EXTENDS CPUThreadPool, FiniteSetTheorems, FunctionTheorems, SequenceTheorems, TLAPS

All == Clients \cup {Owner} \cup Threads
Distinct(s) == \A i, j \in 1..Len(s) : s[i] = s[j] => i = j
Elems(s) == {s[i] : i \in 1..Len(s)}

(* The types that the argument needs, and that an Add has an item.         *)
Types ==
  /\ queue \in Seq(Tasks \cup {Poison})
  /\ at \in [All -> {"out", "write", "thrown", "blockingWrite", "post",
                     "read", "wait", "taken"}]
  /\ arg \in [All -> Tasks \cup {Poison, None}]
  /\ threads \subseteq Threads
  /\ stopped \in Seq(Threads)
  /\ count \in Nat
  /\ owner \in [pc : {"idle", "add", "exit"}, left : Nat, joins : Nat,
                new : Threads \cup {None}]
  /\ pc \in [Threads -> {"none", "run", "handle", "stopping", "stopped"}]
  /\ cur \in [Threads -> Tasks \cup {None}]
  /\ \A a \in All : at[a] \in {"write", "blockingWrite", "taken"} => arg[a] # None

(* Only a running thread takes, only a handling thread adds.               *)
Where ==
  \A w \in Threads :
    /\ at[w] \in {"read", "wait", "taken"} => pc[w] = "run"
    /\ at[w] \in {"write", "thrown", "blockingWrite", "post"} => pc[w] = "handle"

(* Which threads there are.                                                *)
Listed ==
  /\ Distinct(stopped)
  /\ \A w \in Threads : w \in Elems(stopped) <=> pc[w] = "stopped"
  /\ \A w \in Threads : pc[w] # "none" <=> w \in threads \/ w = owner.new
  /\ owner.new # None => owner.pc = "add" /\ owner.left > 0 /\ owner.new \notin threads
  /\ owner.pc = "add" => owner.joins = 0
  /\ owner.pc = "idle" => owner = Idle /\ count = Cardinality(threads)
  /\ owner.pc = "exit" /\ (owner.left > 0 \/ at[Owner] # "out") =>
       owner.joins > 0 /\ count = Cardinality(threads)
  /\ at[Owner] # "out" => owner.pc = "exit"
ListInv == Where /\ Listed

(* The poisons of a removal: those in the queue, the threads they are about *)
(* to end or have ended, and the one that the owner has not written yet.    *)
PoisonsOf(q) == {i \in 1..Len(q) : q[i] = Poison}
Doomed ==
  {w \in Threads : \/ pc[w] \in {"stopping", "stopped"}
                   \/ at[w] = "taken" /\ arg[w] = Poison}
Unwritten == IF at[Owner] \in {"write", "thrown"} THEN 1 ELSE 0

(* The threads that do not sleep, and the post the owner has still to do.  *)
Up ==
  {w \in Threads : \/ pc[w] \in {"stopping", "stopped"}
                   \/ pc[w] \in {"run", "handle"} /\ at[w] # "wait"}
Unposted == IF at[Owner] = "out" THEN 0 ELSE 1

(* The threads to be joined for the poisons that were sent.                *)
Outstanding == IF owner.pc = "exit" THEN owner.joins - owner.left ELSE 0

Enough ==
  /\ Outstanding <= Cardinality(PoisonsOf(queue)) + Cardinality(Doomed) + Unwritten
  /\ Outstanding <= sem + Cardinality(Up) + Unposted
  /\ owner.pc = "exit" => owner.joins <= Cardinality(threads)
  /\ at[Owner] \in {"write", "blockingWrite"} => arg[Owner] = Poison
  /\ at[Owner] \notin {"read", "wait", "taken"}

-----------------------------------------------------------------------------
(* Appending a new element keeps a sequence without repetitions so.        *)
LEMMA AppendKeeps ==
  ASSUME NEW S, NEW s \in Seq(S), NEW e \in S
  PROVE  /\ Append(s, e) \in Seq(S)
         /\ Elems(Append(s, e)) = Elems(s) \cup {e}
         /\ Distinct(s) /\ e \notin Elems(s) => Distinct(Append(s, e))
<1>. DEFINE n == Len(s)
            u == Append(s, e)
<1>1. /\ n \in Nat /\ u \in Seq(S) /\ Len(u) = n + 1
      /\ \A i \in 1..n : u[i] = s[i]
      /\ u[n + 1] = e
  OBVIOUS
<1>2. \A i \in 1..(n + 1) : i \in 1..n \/ i = n + 1
  BY <1>1
<1>3. 1..(n + 1) = 1..n \cup {n + 1}
  BY <1>1
<1>. HIDE DEF n, u
<1>4. Elems(u) = {u[i] : i \in 1..n} \cup {e}
  BY <1>1, <1>3 DEF Elems
<1>5. {u[i] : i \in 1..n} = {s[i] : i \in 1..n}
  BY <1>1
<1>6. ASSUME Distinct(s), e \notin Elems(s), NEW i \in 1..(n + 1), NEW j \in 1..(n + 1),
             u[i] = u[j]
      PROVE  i = j
  BY <1>1, <1>2, <1>6 DEF Distinct, Elems, n
<1>. QED
  BY <1>1, <1>4, <1>5, <1>6 DEF Distinct, Elems, n, u

(* So does taking its head away, which is then no element any more.        *)
LEMMA TailKeeps ==
  ASSUME NEW S, NEW s \in Seq(S), s # <<>>
  PROVE  /\ Tail(s) \in Seq(S)
         /\ Head(s) \in S /\ Head(s) \in Elems(s)
         /\ Elems(Tail(s)) \subseteq Elems(s)
         /\ Distinct(s) => Distinct(Tail(s)) /\ Head(s) \notin Elems(Tail(s))
<1>. DEFINE n == Len(s)
            u == Tail(s)
<1>1. /\ n \in Nat /\ n > 0 /\ u \in Seq(S) /\ Len(u) = n - 1
      /\ \A i \in 1..(n - 1) : u[i] = s[i + 1]
      /\ Head(s) = s[1] /\ Head(s) \in S
  BY EmptySeq, HeadTailProperties
<1>. HIDE DEF n, u
<1>2. \A i \in 1..(n - 1) : i + 1 \in 1..n /\ i + 1 # 1
  BY <1>1
<1>3. 1 \in 1..n
  BY <1>1
<1>4. Head(s) \in Elems(s) /\ Elems(u) \subseteq Elems(s)
  BY <1>1, <1>2, <1>3 DEF Elems, n
<1>5. ASSUME Distinct(s) PROVE Distinct(u) /\ Head(s) \notin Elems(u)
  <2>1. \A i \in 1..(n - 1) : s[i + 1] # s[1]
    BY <1>2, <1>3, <1>5 DEF Distinct, n
  <2>2. ASSUME NEW i \in 1..(n - 1), NEW j \in 1..(n - 1), u[i] = u[j] PROVE i = j
    <3>1. i + 1 = j + 1
      BY <1>1, <1>2, <1>5, <2>2 DEF Distinct, n
    <3>. QED
      BY <3>1
  <2>3. Distinct(u)
    BY <1>1, <2>2 DEF Distinct
  <2>4. Elems(u) = {u[i] : i \in 1..(n - 1)}
    BY <1>1 DEF Elems
  <2>. QED
    BY <1>1, <2>1, <2>3, <2>4
<1>. QED
  BY <1>1, <1>4, <1>5 DEF u

-----------------------------------------------------------------------------
(* The threads of the list can be counted.                                 *)
LEMMA ThreadsCount ==
  ASSUME NEW S, S \subseteq Threads
  PROVE  IsFiniteSet(S) /\ Cardinality(S) \in Nat
BY PoolAssumption, FS_Subset, FS_CardinalityType

(* What a call of SetMaxThread or StopAllThread begins: to add k threads,  *)
(* or to post k poisons and join k threads.                                *)
Begins(k) ==
  \/ owner' = [pc |-> "add", left |-> k, joins |-> 0, new |-> None]
  \/ /\ owner' = [pc |-> "exit", left |-> k, joins |-> k, new |-> None]
     /\ k <= Cardinality(threads)

LEMMA CallBegins ==
  ASSUME Types, ListInv, NEW n \in 0..Cardinality(Threads),
         SetMaxThread(n) \/ StopAllThread
  PROVE  /\ owner = Idle
         /\ UNCHANGED <<queue, sem, at, arg, threads, stopped, count, pc, cur>>
         /\ \E k \in Nat \ {0} : Begins(k)
<1>0. Cardinality(Threads) \in Nat
  BY ThreadsCount
<1>1. owner = Idle /\ count \in Nat /\ n \in Nat
  BY <1>0 DEF SetMaxThread, StopAllThread, Types
<1>2. count = Cardinality(threads)
  BY <1>1 DEF ListInv, Listed, Idle
<1>3. ASSUME NEW k \in Nat \ {0}, k <= count, BeginRemove(k)
      PROVE  /\ UNCHANGED <<queue, sem, at, arg, threads, stopped, count, pc, cur>>
             /\ Begins(k)
  <2>1. Least(Cardinality(threads), k) = k
    BY <1>1, <1>2, <1>3 DEF Least
  <2>2. owner' = [Idle EXCEPT !.pc = "exit", !.left = k, !.joins = k]
    BY <1>3, <2>1 DEF BeginRemove
  <2>. QED
    BY <1>2, <1>3, <2>2 DEF BeginRemove, Begins, Idle, queueVars
<1>4. CASE n > count /\ SetMaxThread(n)
  <2>1. n - count \in Nat \ {0} /\ ~(n < count)
    BY <1>1, <1>4
  <2>2. /\ owner' = [Idle EXCEPT !.pc = "add", !.left = n - count]
        /\ UNCHANGED <<queueVars, threads, stopped, count, pc, cur, taskVars, broken>>
    BY <1>4, <2>1 DEF SetMaxThread
  <2>3. Begins(n - count)
    BY <2>2 DEF Begins, Idle
  <2>. QED
    BY <1>1, <2>1, <2>2, <2>3 DEF queueVars
<1>5. CASE ~(n > count) /\ SetMaxThread(n)
  <2>1. n < count /\ BeginRemove(count - n)
    BY <1>5 DEF SetMaxThread
  <2>2. count - n \in Nat \ {0} /\ count - n <= count
    BY <1>1, <2>1
  <2>. QED
    BY <1>1, <1>3, <2>1, <2>2
<1>6. CASE StopAllThread
  <2>1. count \in Nat \ {0} /\ count <= count /\ BeginRemove(count)
    BY <1>1, <1>6 DEF StopAllThread
  <2>. QED
    BY <1>1, <1>3, <2>1
<1>. QED
  BY <1>4, <1>5, <1>6

-----------------------------------------------------------------------------
(* The types hold of a pool that nobody has used.                          *)
LEMMA InitTypes == Init => Types
<1>. SUFFICES ASSUME Init PROVE Types
  OBVIOUS
<1>1. /\ queue = <<>> /\ at = [a \in TaskQueue!Actors |-> "out"]
      /\ arg = [a \in TaskQueue!Actors |-> None]
  BY DEF Init, TaskQueue!Init
<1>2. TaskQueue!Actors = All
  BY DEF TaskQueue!Actors, All
<1>. QED
  BY <1>1, <1>2 DEF Init, Types, Idle

(* A step of the queue on behalf of one actor preserves its types.         *)
LEMMA QueueTypes ==
  ASSUME Types, NEW a \in All,
         TaskQueue!AddStep(a) \/ TaskQueue!Catch(a) \/ TaskQueue!BeginTake(a)
           \/ TaskQueue!TakeStep(a) \/ TaskQueue!Consume(a)
  PROVE  /\ queue' \in Seq(Tasks \cup {Poison})
         /\ at' \in [All -> {"out", "write", "thrown", "blockingWrite", "post",
                             "read", "wait", "taken"}]
         /\ arg' \in [All -> Tasks \cup {Poison, None}]
         /\ \A b \in All : at'[b] \in {"write", "blockingWrite", "taken"} => arg'[b] # None
<1>0. None \notin Tasks \cup {Poison}
  BY PoolAssumption
<1>. USE DEF Types, TaskQueue!Step
<1>1. CASE TaskQueue!Write(a)
  <2>1. arg[a] \in Tasks \cup {Poison} /\ queue' = Append(queue, arg[a])
    BY <1>1 DEF TaskQueue!Write
  <2>2. queue' \in Seq(Tasks \cup {Poison})
    BY <2>1
  <2>. QED
    BY <1>1, <2>2 DEF TaskQueue!Write
<1>2. CASE TaskQueue!BlockingWrite(a)
  <2>1. arg[a] \in Tasks \cup {Poison} /\ queue' = Append(queue, arg[a])
    BY <1>2 DEF TaskQueue!BlockingWrite
  <2>2. queue' \in Seq(Tasks \cup {Poison})
    BY <2>1
  <2>. QED
    BY <1>2, <2>2 DEF TaskQueue!BlockingWrite
<1>3. CASE TaskQueue!Read(a)
  <2>1. /\ Head(queue) \in Tasks \cup {Poison}
        /\ queue' \in Seq(Tasks \cup {Poison})
    BY <1>3, TailKeeps DEF TaskQueue!Read
  <2>. QED
    BY <1>0, <1>3, <2>1 DEF TaskQueue!Read
<1>4. CASE TaskQueue!Throw(a) \/ TaskQueue!Post(a) \/ TaskQueue!Catch(a)
           \/ TaskQueue!BeginTake(a) \/ TaskQueue!ReadEmpty(a) \/ TaskQueue!Wait(a)
           \/ TaskQueue!Consume(a)
  BY <1>4 DEF TaskQueue!Throw, TaskQueue!Post, TaskQueue!Catch, TaskQueue!BeginTake,
              TaskQueue!ReadEmpty, TaskQueue!Wait, TaskQueue!Consume
<1>. QED
  BY <1>1, <1>2, <1>3, <1>4 DEF TaskQueue!AddStep, TaskQueue!TakeStep

(* Every step preserves the types.                                         *)
LEMMA NextTypes == Types /\ ListInv /\ [Next]_vars => Types'
<1>. SUFFICES ASSUME Types, ListInv, [Next]_vars PROVE Types'
  OBVIOUS
<1>0. None \notin Threads \cup Tasks \cup {Poison}
  BY PoolAssumption
<1>1. ASSUME NEW a \in Clients \cup Threads, NEW t \in Tasks, Add(a, t) PROVE Types'
  <2>1. /\ a \in All
        /\ \E p \in {"write", "blockingWrite"} : at' = [at EXCEPT ![a] = p]
        /\ arg' = [arg EXCEPT ![a] = t]
        /\ UNCHANGED <<queue, threads, stopped, count, owner, pc, cur>>
    BY <1>1 DEF Add, TaskQueue!BeginAdd, TaskQueue!Step, poolVars, All
  <2>. QED
    BY <1>0, <2>1 DEF Types
<1>2. ASSUME NEW a \in Clients \cup Threads \cup {Owner}, Adding(a) PROVE Types'
  <2>1. /\ a \in All
        /\ TaskQueue!AddStep(a) \/ TaskQueue!Catch(a)
        /\ UNCHANGED <<threads, stopped, count, owner, pc, cur>>
    BY <1>2 DEF Adding, poolVars, All
  <2>. QED
    BY <2>1, QueueTypes DEF Types
<1>3. ASSUME NEW w \in Threads, Taking(w) PROVE Types'
  <2>1. /\ w \in All
        /\ TaskQueue!BeginTake(w) \/ TaskQueue!TakeStep(w)
        /\ UNCHANGED <<threads, stopped, count, owner, pc, cur>>
    BY <1>3 DEF Taking, poolVars, All
  <2>. QED
    BY <2>1, QueueTypes DEF Types
<1>4. ASSUME NEW w \in Threads, Quit(w) PROVE Types'
  <2>1. /\ w \in All /\ TaskQueue!Consume(w)
        /\ pc' = [pc EXCEPT ![w] = "stopping"]
        /\ UNCHANGED <<threads, stopped, count, owner, cur>>
    BY <1>4 DEF Quit, poolVars, All
  <2>. QED
    BY <2>1, QueueTypes DEF Types
<1>5. ASSUME NEW w \in Threads, Handle(w) PROVE Types'
  <2>1. /\ w \in All /\ TaskQueue!Consume(w) /\ arg[w] # Poison
        /\ pc' = [pc EXCEPT ![w] = "handle"]
        /\ cur' = [cur EXCEPT ![w] = arg[w]]
        /\ UNCHANGED <<threads, stopped, count, owner>>
    BY <1>5 DEF Handle, poolVars, All
  <2>2. arg[w] \in Tasks \cup {None}
    BY <2>1 DEF Types
  <2>. QED
    BY <2>1, <2>2, QueueTypes DEF Types
<1>6. ASSUME NEW w \in Threads, Finish(w) PROVE Types'
  BY <1>6 DEF Finish, Types, queueVars, poolVars
<1>7. ASSUME NEW w \in Threads, AddStoppingThread(w) PROVE Types'
  BY <1>7 DEF AddStoppingThread, Types, queueVars
<1>8. ASSUME NEW t \in Tasks, ReleaseReturned(t) PROVE Types'
  BY <1>8 DEF ReleaseReturned, Types, queueVars, poolVars
<1>9. ASSUME NEW n \in 0..Cardinality(Threads), SetMaxThread(n) \/ StopAllThread PROVE Types'
  <2>1. PICK k \in Nat \ {0} : Begins(k)
    BY <1>9, CallBegins
  <2>. QED
    BY <1>9, <2>1, CallBegins DEF Types, Begins
<1>10. ASSUME NEW w \in Threads, SpawnThread(w) PROVE Types'
  BY <1>10 DEF SpawnThread, Types, queueVars
<1>11. CASE RegisterThread
  <2>1. owner.new \in Threads /\ owner.left - 1 \in Nat
    BY <1>11 DEF RegisterThread, Types, ListInv, Listed
  <2>. QED
    BY <1>11, <2>1 DEF RegisterThread, Types, queueVars
<1>12. CASE Exit
  <2>1. /\ arg' = [arg EXCEPT ![Owner] = Poison]
        /\ \E p \in {"write", "blockingWrite"} : at' = [at EXCEPT ![Owner] = p]
        /\ UNCHANGED <<queue, threads, stopped, count, pc, cur>>
    BY <1>12 DEF Exit, TaskQueue!BeginAdd, TaskQueue!Step
  <2>2. Owner \in All /\ owner.left - 1 \in Nat
    BY <1>12 DEF Exit, All, Types
  <2>3. owner' = [owner EXCEPT !.left = owner.left - 1]
    BY <1>12 DEF Exit
  <2>4. owner' \in [pc : {"idle", "add", "exit"}, left : Nat, joins : Nat,
                    new : Threads \cup {None}]
    BY <2>2, <2>3 DEF Types
  <2>. QED
    BY <1>0, <2>1, <2>2, <2>4 DEF Types
<1>13. CASE ExitThrows
  <2>1. /\ Owner \in All /\ TaskQueue!Catch(Owner) /\ owner' = Idle
        /\ UNCHANGED <<threads, stopped, count, pc, cur>>
    BY <1>13 DEF ExitThrows, All
  <2>. QED
    BY <2>1, QueueTypes DEF Types, Idle
<1>14. CASE JoinStoppedThread
  <2>1. /\ stopped' \in Seq(Threads) /\ Head(stopped) \in Threads
        /\ owner.joins - 1 \in Nat
    BY <1>14, TailKeeps DEF JoinStoppedThread, Types
  <2>. QED
    BY <1>14, <2>1 DEF JoinStoppedThread, Types, queueVars
<1>15. CASE Return
  BY <1>15, ThreadsCount DEF Return, Types, queueVars, Idle
<1>16. CASE UNCHANGED vars
  BY <1>16 DEF vars, Types, queueVars, poolVars
<1>17. 0 \in 0..Cardinality(Threads)
  BY ThreadsCount
<1>. QED
  BY <1>1, <1>2, <1>3, <1>4, <1>5, <1>6, <1>7, <1>8, <1>9, <1>10, <1>11, <1>12, <1>13, <1>14,
     <1>15, <1>16, <1>17 DEF Next, Thread, OwnerStep

-----------------------------------------------------------------------------
(* At the start there is no thread.                                        *)
LEMMA InitList == Init => ListInv
<1>. SUFFICES ASSUME Init PROVE ListInv
  OBVIOUS
<1>1. /\ \A a \in All : at[a] = "out"
      /\ threads = {} /\ stopped = <<>> /\ Len(stopped) = 0 /\ count = 0 /\ owner = Idle
      /\ pc = [w \in Threads |-> "none"]
  BY DEF Init, TaskQueue!Init, TaskQueue!Actors, All
<1>2. Cardinality(threads) = 0
  BY <1>1, FS_EmptySet
<1>3. owner.new = None /\ owner.pc = "idle" /\ \A w \in Threads : w # None
  BY <1>1, PoolAssumption DEF Idle
<1>4. Where
  BY <1>1 DEF Where, All
<1>5. at[Owner] = "out"
  BY <1>1 DEF All
<1>6. Listed
  BY <1>1, <1>2, <1>3, <1>5 DEF Listed, Distinct, Elems
<1>. QED
  BY <1>4, <1>6 DEF ListInv

(* A thread that goes on does not change who is listed.                    *)
LEMMA ListedSame ==
  ASSUME Types, Listed,
         UNCHANGED <<threads, stopped, count, owner>>,
         at'[Owner] = "out" \/ at[Owner] # "out",
         \A w \in Threads : \/ pc'[w] = pc[w]
                            \/ /\ pc[w] \in {"run", "handle", "stopping"}
                               /\ pc'[w] \in {"run", "handle", "stopping"}
  PROVE  Listed'
<1>1. Elems(stopped)' = Elems(stopped) /\ Distinct(stopped)' = Distinct(stopped)
  BY DEF Elems, Distinct
<1>. QED
  BY <1>1 DEF Listed

(* A step of one actor in a call of the queue.                             *)
LEMMA CallMoves ==
  ASSUME Types, NEW a \in All,
         TaskQueue!AddStep(a) \/ TaskQueue!Catch(a) \/ TaskQueue!BeginTake(a)
           \/ TaskQueue!TakeStep(a) \/ TaskQueue!Consume(a)
  PROVE  /\ \A b \in All \ {a} : at'[b] = at[b] /\ arg'[b] = arg[b]
         /\ TaskQueue!AddStep(a) =>
              /\ at[a] \in {"write", "blockingWrite", "post"}
              /\ at'[a] \in {"thrown", "blockingWrite", "post", "out"}
         /\ TaskQueue!Catch(a) => at[a] = "thrown" /\ at'[a] = "out"
         /\ TaskQueue!BeginTake(a) => at[a] = "out" /\ at'[a] = "read"
         /\ TaskQueue!TakeStep(a) =>
              /\ at[a] \in {"read", "wait"}
              /\ at'[a] \in {"read", "wait", "taken"}
         /\ TaskQueue!Consume(a) => at[a] = "taken" /\ at'[a] = "out"
BY DEF Types, TaskQueue!AddStep, TaskQueue!Write, TaskQueue!Throw, TaskQueue!BlockingWrite,
       TaskQueue!Post, TaskQueue!Catch, TaskQueue!BeginTake, TaskQueue!TakeStep,
       TaskQueue!Read, TaskQueue!ReadEmpty, TaskQueue!Wait, TaskQueue!Consume, TaskQueue!Step

(* Every step preserves the list.                                          *)
LEMMA NextList == Types /\ ListInv /\ [Next]_vars => ListInv'
<1>. SUFFICES ASSUME Types, ListInv, [Next]_vars PROVE ListInv'
  OBVIOUS
<1>0. /\ Threads \subseteq All /\ Owner \in All /\ Owner \notin Threads \cup Clients
      /\ Where /\ Listed /\ None \notin Threads
  BY PoolAssumption DEF All, ListInv
<1>1. ASSUME NEW a \in Clients \cup Threads, NEW t \in Tasks, Add(a, t) PROVE ListInv'
  <2>1. /\ a \in All /\ a # Owner /\ a \in Threads => pc[a] = "handle"
        /\ \E p \in {"write", "blockingWrite"} : at' = [at EXCEPT ![a] = p]
        /\ UNCHANGED <<threads, stopped, count, owner, pc>>
    BY <1>0, <1>1 DEF Add, TaskQueue!BeginAdd, TaskQueue!Step, poolVars, All
  <2>2. Where'
    BY <1>0, <2>1 DEF Where, Types
  <2>3. at'[Owner] = at[Owner]
    BY <1>0, <2>1 DEF Types
  <2>. QED
    BY <1>0, <2>1, <2>2, <2>3, ListedSame DEF ListInv
<1>2. ASSUME NEW a \in Clients \cup Threads \cup {Owner}, Adding(a) PROVE ListInv'
  <2>1. /\ a \in All
        /\ TaskQueue!AddStep(a) \/ (a # Owner /\ TaskQueue!Catch(a))
        /\ UNCHANGED <<threads, stopped, count, owner, pc>>
    BY <1>2 DEF Adding, poolVars, All
  <2>2. Where' /\ (at'[Owner] = "out" \/ at[Owner] # "out")
    BY <1>0, <2>1, CallMoves DEF Where
  <2>. QED
    BY <1>0, <2>1, <2>2, ListedSame DEF ListInv
<1>3. ASSUME NEW w \in Threads, Taking(w) PROVE ListInv'
  <2>1. /\ w \in All /\ pc[w] = "run"
        /\ TaskQueue!BeginTake(w) \/ TaskQueue!TakeStep(w)
        /\ UNCHANGED <<threads, stopped, count, owner, pc>>
    BY <1>3 DEF Taking, poolVars, All
  <2>2. Where' /\ at'[Owner] = at[Owner]
    BY <1>0, <2>1, CallMoves DEF Where
  <2>. QED
    BY <1>0, <2>1, <2>2, ListedSame DEF ListInv
<1>4. ASSUME NEW w \in Threads, Quit(w) \/ Handle(w) PROVE ListInv'
  <2>1. /\ w \in All /\ TaskQueue!Consume(w)
        /\ \E p \in {"handle", "stopping"} : pc' = [pc EXCEPT ![w] = p]
        /\ UNCHANGED <<threads, stopped, count, owner>>
    BY <1>4 DEF Quit, Handle, poolVars, All
  <2>2. at[w] = "taken" /\ pc[w] = "run" /\ at'[w] = "out" /\ at'[Owner] = at[Owner]
    BY <1>0, <2>1, CallMoves DEF Where
  <2>3. Where'
    BY <1>0, <2>1, <2>2, CallMoves DEF Where, Types
  <2>4. \A v \in Threads : \/ pc'[v] = pc[v]
                           \/ /\ pc[v] \in {"run", "handle", "stopping"}
                              /\ pc'[v] \in {"run", "handle", "stopping"}
    BY <2>1, <2>2 DEF Types
  <2>. QED
    BY <1>0, <2>1, <2>2, <2>3, <2>4, ListedSame DEF ListInv
<1>5. ASSUME NEW w \in Threads, Finish(w) PROVE ListInv'
  <2>1. /\ pc[w] = "handle" /\ at[w] = "out" /\ pc' = [pc EXCEPT ![w] = "run"]
        /\ UNCHANGED <<at, threads, stopped, count, owner>>
    BY <1>5 DEF Finish, poolVars, queueVars
  <2>2. Where'
    BY <1>0, <2>1 DEF Where, Types
  <2>3. \A v \in Threads : \/ pc'[v] = pc[v]
                           \/ /\ pc[v] \in {"run", "handle", "stopping"}
                              /\ pc'[v] \in {"run", "handle", "stopping"}
    BY <2>1 DEF Types
  <2>. QED
    BY <1>0, <2>1, <2>2, <2>3, ListedSame DEF ListInv
<1>6. ASSUME NEW w \in Threads, AddStoppingThread(w) PROVE ListInv'
  <2>1. /\ pc[w] = "stopping" /\ pc' = [pc EXCEPT ![w] = "stopped"]
        /\ stopped' = Append(stopped, w)
        /\ UNCHANGED <<at, threads, count, owner>>
    BY <1>6 DEF AddStoppingThread, queueVars
  <2>2. Where'
    BY <1>0, <2>1 DEF Where, Types
  <2>3. Distinct(stopped') /\ Elems(stopped') = Elems(stopped) \cup {w}
    BY <1>0, <2>1, AppendKeeps DEF Listed, Types
  <2>4. Distinct(stopped)' /\ Elems(stopped)' = Elems(stopped) \cup {w}
    BY <2>3 DEF Distinct, Elems
  <2>5. Listed'
    BY <1>0, <2>1, <2>4 DEF Listed, Types
  <2>. QED
    BY <2>2, <2>5 DEF ListInv
<1>7. ASSUME NEW t \in Tasks, ReleaseReturned(t) PROVE ListInv'
  <2>1. UNCHANGED <<at, pc, threads, stopped, count, owner>>
    BY <1>7 DEF ReleaseReturned, poolVars, queueVars
  <2>. QED
    BY <1>0, <2>1, ListedSame DEF ListInv, Where
<1>8. ASSUME NEW n \in 0..Cardinality(Threads), SetMaxThread(n) \/ StopAllThread PROVE ListInv'
  <2>1. /\ owner = Idle
        /\ UNCHANGED <<at, threads, stopped, count, pc>>
    BY <1>8, CallBegins
  <2>2. PICK k \in Nat \ {0} : Begins(k)
    BY <1>8, CallBegins
  <2>3. /\ owner.pc = "idle" /\ owner.new = None /\ at[Owner] = "out"
        /\ count = Cardinality(threads) /\ k > 0
    BY <1>0, <2>1 DEF Listed, Idle
  <2>4. /\ owner'.new = None /\ owner'.left = k
        /\ \/ owner'.pc = "add" /\ owner'.joins = 0
           \/ owner'.pc = "exit" /\ owner'.joins = k
    BY <2>2 DEF Begins
  <2>5. Elems(stopped)' = Elems(stopped) /\ Distinct(stopped)' = Distinct(stopped)
    BY <2>1 DEF Elems, Distinct
  <2>6. Listed'
    BY <1>0, <2>1, <2>3, <2>4, <2>5 DEF Listed
  <2>. QED
    BY <1>0, <2>1, <2>6 DEF ListInv, Where
<1>9. ASSUME NEW w \in Threads, SpawnThread(w) PROVE ListInv'
  <2>1. /\ owner.pc = "add" /\ owner.left > 0 /\ owner.new = None /\ pc[w] = "none"
        /\ pc' = [pc EXCEPT ![w] = "run"]
        /\ owner' = [owner EXCEPT !.new = w]
        /\ UNCHANGED <<at, threads, stopped, count>>
    BY <1>9 DEF SpawnThread, queueVars
  <2>2. Where'
    BY <1>0, <2>1 DEF Where, Types
  <2>3. /\ owner'.pc = "add" /\ owner'.left > 0 /\ owner'.new = w
        /\ owner'.joins = owner.joins
    BY <2>1 DEF Types
  <2>4. Elems(stopped)' = Elems(stopped) /\ Distinct(stopped)' = Distinct(stopped)
    BY <2>1 DEF Elems, Distinct
  <2>5. Listed'
    BY <1>0, <2>1, <2>3, <2>4 DEF Listed, Types
  <2>. QED
    BY <2>2, <2>5 DEF ListInv
<1>10. CASE RegisterThread
  <2>1. /\ owner.new # None /\ threads' = threads \cup {owner.new}
        /\ owner' = [owner EXCEPT !.new = None, !.left = owner.left - 1]
        /\ UNCHANGED <<at, stopped, count, pc>>
    BY <1>10 DEF RegisterThread, queueVars
  <2>2. /\ owner'.pc = "add" /\ owner'.new = None /\ owner'.joins = owner.joins
        /\ owner.pc = "add"
    BY <1>0, <2>1 DEF Types, Listed
  <2>3. Elems(stopped)' = Elems(stopped) /\ Distinct(stopped)' = Distinct(stopped)
    BY <2>1 DEF Elems, Distinct
  <2>4. Listed'
    BY <1>0, <2>1, <2>2, <2>3 DEF Listed
  <2>. QED
    BY <1>0, <2>1, <2>4 DEF ListInv, Where
<1>11. CASE Exit
  <2>1. /\ owner.pc = "exit" /\ owner.left > 0
        /\ owner' = [owner EXCEPT !.left = owner.left - 1]
        /\ \E p \in {"write", "blockingWrite"} : at' = [at EXCEPT ![Owner] = p]
        /\ UNCHANGED <<threads, stopped, count, pc>>
    BY <1>11 DEF Exit, TaskQueue!BeginAdd, TaskQueue!Step
  <2>2. owner'.pc = "exit" /\ owner'.new = owner.new /\ owner'.joins = owner.joins
    BY <2>1 DEF Types
  <2>3. Elems(stopped)' = Elems(stopped) /\ Distinct(stopped)' = Distinct(stopped)
    BY <2>1 DEF Elems, Distinct
  <2>4. Where'
    BY <1>0, <2>1 DEF Where, Types
  <2>5. Listed'
    BY <1>0, <2>1, <2>2, <2>3 DEF Listed
  <2>. QED
    BY <2>4, <2>5 DEF ListInv
<1>12. CASE ExitThrows
  <2>1. /\ TaskQueue!Catch(Owner) /\ owner' = Idle
        /\ UNCHANGED <<threads, stopped, count, pc>>
    BY <1>12 DEF ExitThrows
  <2>2. /\ at[Owner] = "thrown" /\ at'[Owner] = "out"
        /\ \A w \in Threads : at'[w] = at[w]
    BY <1>0, <2>1, CallMoves
  <2>3. owner.pc = "exit" /\ owner.new = None /\ count = Cardinality(threads)
    BY <1>0, <2>2 DEF Listed
  <2>4. owner'.pc = "idle" /\ owner'.new = None
    BY <2>1 DEF Idle
  <2>5. Elems(stopped)' = Elems(stopped) /\ Distinct(stopped)' = Distinct(stopped)
    BY <2>1 DEF Elems, Distinct
  <2>6. Idle' = Idle
    BY DEF Idle
  <2>7. Listed'
    BY <1>0, <2>1, <2>2, <2>3, <2>4, <2>5, <2>6 DEF Listed
  <2>. QED
    BY <1>0, <2>1, <2>2, <2>7 DEF ListInv, Where
<1>13. CASE JoinStoppedThread
  <2>0. PICK v : v = Head(stopped)
    OBVIOUS
  <2>1. /\ owner.pc = "exit" /\ owner.left = 0 /\ at[Owner] = "out"
        /\ stopped # <<>> /\ stopped' = Tail(stopped) /\ threads' = threads \ {v}
        /\ pc' = [pc EXCEPT ![v] = "none"]
        /\ owner' = [owner EXCEPT !.joins = owner.joins - 1]
        /\ UNCHANGED <<at, count>>
    BY <1>13, <2>0 DEF JoinStoppedThread, queueVars
  <2>2. /\ Distinct(stopped') /\ v \in Threads /\ v \in Elems(stopped)
        /\ v \notin Elems(stopped') /\ Elems(stopped') \subseteq Elems(stopped)
    BY <1>0, <2>0, <2>1, TailKeeps DEF Listed, Types
  <2>3. \A w \in Elems(stopped) \ {v} : w \in Elems(stopped')
    <3>1. PICK u : u = stopped'
      OBVIOUS
    <3>2. \A i \in 1..Len(stopped) : i = 1 \/ (i - 1 \in 1..Len(u) /\ u[i - 1] = stopped[i])
      BY <2>1, <3>1 DEF Types
    <3>3. stopped[1] = v
      BY <2>0, <2>1 DEF Types
    <3>. QED
      BY <3>1, <3>2, <3>3 DEF Elems
  <2>4. /\ Distinct(stopped)' /\ v \notin Elems(stopped)'
        /\ \A w \in Elems(stopped) \ {v} : w \in Elems(stopped)'
        /\ Elems(stopped)' \subseteq Elems(stopped)
    BY <2>2, <2>3 DEF Distinct, Elems
  <2>5. /\ owner'.pc = "exit" /\ owner'.left = 0 /\ owner'.new = None /\ owner.new = None
    BY <1>0, <2>1 DEF Types, Listed
  <2>6. pc[v] = "stopped" /\ at[v] = "out"
    BY <1>0, <2>2 DEF Listed, Where, Types
  <2>7. Where'
    BY <1>0, <2>1, <2>2, <2>6 DEF Where, Types
  <2>8. /\ pc'[v] = "none" /\ \A w \in Threads \ {v} : pc'[w] = pc[w]
        /\ owner.pc = "exit" /\ at'[Owner] = "out"
    BY <2>1, <2>2 DEF Types
  <2>9. \A w \in Threads : w \in Elems(stopped)' <=> pc'[w] = "stopped"
    <3>1. \A w \in Threads : w \in Elems(stopped) <=> pc[w] = "stopped"
      BY <1>0 DEF Listed
    <3>2. ASSUME NEW w \in Threads \ {v}
          PROVE  w \in Elems(stopped)' <=> pc'[w] = "stopped"
      BY <2>4, <2>8, <3>1
    <3>3. v \notin Elems(stopped)' /\ pc'[v] # "stopped"
      BY <2>4, <2>8
    <3>. QED
      BY <3>2, <3>3
  <2>10. \A w \in Threads : pc'[w] # "none" <=> w \in threads' \/ w = owner'.new
    BY <1>0, <2>1, <2>5, <2>8 DEF Listed
  <2>11. Listed'
    BY <2>4, <2>5, <2>8, <2>9, <2>10 DEF Listed
  <2>. QED
    BY <2>7, <2>11 DEF ListInv
<1>14. CASE Return
  <2>1. /\ owner.pc # "idle" /\ owner.left = 0 /\ owner.joins = 0 /\ owner.new = None
        /\ owner' = Idle /\ count' = Cardinality(threads)
        /\ UNCHANGED <<at, threads, stopped, pc>>
    BY <1>14 DEF Return, queueVars
  <2>2. at[Owner] = "out"
    BY <1>0, <2>1 DEF Listed
  <2>3. owner'.pc = "idle" /\ owner'.new = None
    BY <2>1 DEF Idle
  <2>4. Elems(stopped)' = Elems(stopped) /\ Distinct(stopped)' = Distinct(stopped)
    BY <2>1 DEF Elems, Distinct
  <2>5. Idle' = Idle
    BY DEF Idle
  <2>6. Listed'
    BY <1>0, <2>1, <2>2, <2>3, <2>4, <2>5 DEF Listed
  <2>. QED
    BY <1>0, <2>1, <2>6 DEF ListInv, Where
<1>15. CASE UNCHANGED vars
  <2>1. UNCHANGED <<at, pc, threads, stopped, count, owner>>
    BY <1>15 DEF vars, poolVars, queueVars
  <2>. QED
    BY <1>0, <2>1, ListedSame DEF ListInv, Where
<1>16. 0 \in 0..Cardinality(Threads)
  BY ThreadsCount
<1>. QED
  BY <1>1, <1>2, <1>3, <1>4, <1>5, <1>6, <1>7, <1>8, <1>9, <1>10, <1>11, <1>12, <1>13, <1>14,
     <1>15, <1>16 DEF Next, Thread, OwnerStep

(* The invariant is more than enough.                                      *)
LEMMA ListEnough == Types /\ ListInv => ThreadsAreListed
<1>. SUFFICES ASSUME Types, ListInv PROVE ThreadsAreListed
  OBVIOUS
<1>1. \A i, j \in 1..Len(stopped) : stopped[i] = stopped[j] => i = j
  BY DEF ListInv, Listed, Distinct
<1>2. \A i \in 1..Len(stopped) : stopped[i] \in threads \cup {owner.new}
  BY DEF ListInv, Listed, Elems, Types
<1>3. ASSUME owner.joins > 0, stopped # <<>> PROVE Head(stopped) \in threads
  <2>1. Len(stopped) > 0 /\ Head(stopped) = stopped[1] /\ 1 \in 1..Len(stopped)
    BY <1>3 DEF Types
  <2>2. owner.new = None
    BY <1>3 DEF ListInv, Listed
  <2>3. stopped[1] \in threads \cup {None} /\ stopped[1] \in Threads
    BY <1>2, <2>1, <2>2 DEF Types
  <2>. QED
    BY <2>1, <2>3, PoolAssumption
<1>4. ASSUME owner = Idle
      PROVE  /\ count = Cardinality(threads)
             /\ threads = {w \in Threads : pc[w] # "none"}
  <2>1. owner.pc = "idle" /\ owner.new = None
    BY <1>4 DEF Idle
  <2>2. \A w \in Threads : w # None
    BY PoolAssumption
  <2>3. \A w \in Threads : pc[w] # "none" <=> w \in threads
    BY <2>1, <2>2 DEF ListInv, Listed
  <2>. QED
    BY <2>1, <2>3 DEF ListInv, Listed, Types
<1>. QED
  BY <1>1, <1>2, <1>3, <1>4 DEF ThreadsAreListed

(* Both are invariants.                                                    *)
LEMMA TypesAndList == Spec => [](Types /\ ListInv)
<1>. QED
  BY InitTypes, NextTypes, InitList, NextList, PTL DEF Spec

(* Whatever calls of SetMaxThread and StopAllThread, also ones that end    *)
(* with QueueFullException, and however late AddThread registers a thread: *)
(* the CHECKs of ThreadList::Remove hold, and m_CurThreadCount is right    *)
(* between the calls.                                                      *)
THEOREM ThreadListIsRight == Spec => []ThreadsAreListed
BY TypesAndList, ListEnough, PTL

-----------------------------------------------------------------------------
(* The threads of the two counts.                                          *)
LEMMA UpCounts ==
  /\ IsFiniteSet(Doomed) /\ Cardinality(Doomed) \in Nat
  /\ IsFiniteSet(Up) /\ Cardinality(Up) \in Nat
<1>1. Doomed \subseteq Threads /\ Up \subseteq Threads
  BY DEF Doomed, Up
<1>. QED
  BY <1>1, ThreadsCount

LEMMA OneMore ==
  ASSUME NEW S, NEW x, IsFiniteSet(S)
  PROVE  /\ x \notin S => Cardinality(S \cup {x}) = Cardinality(S) + 1
         /\ x \in S => Cardinality(S \ {x}) = Cardinality(S) - 1
BY FS_AddElement, FS_RemoveElement

(* The positions of poisons in a queue.                                    *)
LEMMA PoisonsFinite ==
  ASSUME NEW S, NEW q \in Seq(S)
  PROVE  IsFiniteSet(PoisonsOf(q)) /\ Cardinality(PoisonsOf(q)) \in Nat
<1>1. IsFiniteSet(1..Len(q)) /\ PoisonsOf(q) \subseteq 1..Len(q)
  BY FS_Interval DEF PoisonsOf
<1>. QED
  BY <1>1, FS_Subset, FS_CardinalityType

LEMMA PoisonsAppend ==
  ASSUME NEW S, NEW q \in Seq(S), NEW e \in S
  PROVE  Cardinality(PoisonsOf(Append(q, e))) =
           Cardinality(PoisonsOf(q)) + (IF e = Poison THEN 1 ELSE 0)
<1>. DEFINE n == Len(q)
            u == Append(q, e)
<1>1. /\ n \in Nat /\ Len(u) = n + 1
      /\ \A i \in 1..n : u[i] = q[i]
      /\ u[n + 1] = e
  OBVIOUS
<1>2. 1..(n + 1) = 1..n \cup {n + 1} /\ n + 1 \notin 1..n
  BY <1>1
<1>3. PICK P : P = PoisonsOf(q)
  OBVIOUS
<1>4. IsFiniteSet(P) /\ Cardinality(P) \in Nat
  BY <1>3, PoisonsFinite
<1>. HIDE DEF n, u
<1>5. P = {i \in 1..n : q[i] = Poison}
  BY <1>3 DEF PoisonsOf, n
<1>6. CASE e = Poison
  <2>1. PoisonsOf(u) = P \cup {n + 1} /\ n + 1 \notin P
    BY <1>1, <1>2, <1>5, <1>6 DEF PoisonsOf
  <2>2. Cardinality(PoisonsOf(u)) = Cardinality(P) + 1
    BY <1>4, <2>1, OneMore
  <2>. QED
    BY <1>3, <1>6, <2>2 DEF u
<1>7. CASE e # Poison
  <2>1. PoisonsOf(u) = P
    BY <1>1, <1>2, <1>5, <1>7 DEF PoisonsOf
  <2>. QED
    BY <1>3, <1>4, <1>7, <2>1 DEF u
<1>. QED
  BY <1>6, <1>7

LEMMA PoisonsTail ==
  ASSUME NEW S, NEW q \in Seq(S), q # <<>>
  PROVE  Cardinality(PoisonsOf(q)) =
           Cardinality(PoisonsOf(Tail(q))) + (IF Head(q) = Poison THEN 1 ELSE 0)
<1>. DEFINE n == Len(q)
            u == Tail(q)
<1>1. /\ n \in Nat /\ n > 0 /\ Len(u) = n - 1 /\ u \in Seq(S)
      /\ \A i \in 1..(n - 1) : u[i] = q[i + 1]
      /\ Head(q) = q[1]
  BY EmptySeq, HeadTailProperties
<1>2. PICK P : P = PoisonsOf(q)
  OBVIOUS
<1>3. PICK R : R = PoisonsOf(u)
  OBVIOUS
<1>4. /\ IsFiniteSet(P) /\ Cardinality(P) \in Nat
      /\ IsFiniteSet(R) /\ Cardinality(R) \in Nat
  BY <1>1, <1>2, <1>3, PoisonsFinite
<1>. HIDE DEF n, u
<1>5. P = {i \in 1..n : q[i] = Poison} /\ R = {i \in 1..(n - 1) : q[i + 1] = Poison}
  BY <1>1, <1>2, <1>3 DEF PoisonsOf, n
<1>6. Cardinality(P \ {1}) = Cardinality(R)
  <2>1. PICK f : f = [i \in R |-> i + 1]
    OBVIOUS
  <2>2. f \in [R -> P \ {1}]
    BY <1>1, <1>5, <2>1
  <2>3. \A i, j \in R : f[i] = f[j] => i = j
    BY <1>1, <1>5, <2>1
  <2>4. \A k \in P \ {1} : k - 1 \in R /\ f[k - 1] = k
    BY <1>1, <1>5, <2>1
  <2>5. f \in Bijection(R, P \ {1})
    BY <2>2, <2>3, <2>4, Fun_IsBij
  <2>. QED
    BY <1>4, <2>5, FS_Bijection DEF ExistsBijection
<1>7. CASE Head(q) = Poison
  <2>1. 1 \in P
    BY <1>1, <1>5, <1>7
  <2>2. Cardinality(P \ {1}) = Cardinality(P) - 1
    BY <1>4, <2>1, OneMore
  <2>. QED
    BY <1>2, <1>3, <1>4, <1>6, <1>7, <2>2 DEF u
<1>8. CASE Head(q) # Poison
  <2>1. P \ {1} = P
    BY <1>1, <1>5, <1>8
  <2>. QED
    <3>1. Cardinality(P) = Cardinality(R)
      BY <1>6, <2>1, Zenon
    <3>. QED
      BY <1>2, <1>3, <1>4, <1>8, <3>1 DEF u
<1>. QED
  BY <1>7, <1>8

-----------------------------------------------------------------------------
(* At the start nothing is sent.                                           *)
LEMMA InitEnough == Init => Enough
<1>. SUFFICES ASSUME Init PROVE Enough
  OBVIOUS
<1>1. owner.pc = "idle" /\ sem = 0 /\ at[Owner] = "out" /\ queue \in Seq(Tasks)
  BY DEF Init, Idle, TaskQueue!Init, TaskQueue!Actors
<1>2. PICK q \in Nat : q = Cardinality(PoisonsOf(queue))
  BY <1>1, PoisonsFinite
<1>3. PICK d \in Nat : d = Cardinality(Doomed)
  BY UpCounts
<1>4. PICK u \in Nat : u = Cardinality(Up)
  BY UpCounts
<1>. QED
  BY <1>1, <1>2, <1>3, <1>4 DEF Enough, Outstanding, Unwritten, Unposted

(* Steps that leave the owner and both counts of threads alone.            *)
LEMMA EnoughStays ==
  ASSUME Types, Types', Enough, sem \in Nat, sem' \in Nat, sem <= sem',
         UNCHANGED <<owner, threads>>,
         at'[Owner] = at[Owner], arg'[Owner] = arg[Owner],
         Cardinality(PoisonsOf(queue)) <= Cardinality(PoisonsOf(queue')),
         Doomed' = Doomed, Up' = Up
  PROVE  Enough'
<1>1. PICK q \in Nat : q = Cardinality(PoisonsOf(queue))
  BY PoisonsFinite DEF Types
<1>2. PICK r \in Nat : r = Cardinality(PoisonsOf(queue'))
  BY PoisonsFinite DEF Types
<1>3. PICK d \in Nat : d = Cardinality(Doomed)
  BY UpCounts
<1>4. PICK u \in Nat : u = Cardinality(Up)
  BY UpCounts
<1>5. PICK o \in Int : o = Outstanding /\ o = Outstanding'
  BY DEF Outstanding, Types
<1>6. PICK m \in 0..1 : m = Unwritten /\ m = Unwritten'
  BY DEF Unwritten
<1>7. PICK n \in 0..1 : n = Unposted /\ n = Unposted'
  BY DEF Unposted
<1>8. o <= q + d + m /\ o <= sem + u + n
  BY <1>1, <1>3, <1>4, <1>5, <1>6, <1>7 DEF Enough
<1>9. o <= r + d + m /\ o <= sem' + u + n
  <2>1. q <= r
    BY <1>1, <1>2
  <2>2. o <= r + d + m
    BY <1>8, <2>1
  <2>3. PICK s \in Nat, t \in Nat : s = sem /\ t = sem'
    OBVIOUS
  <2>4. s <= t
    BY <2>3
  <2>5. o <= s + u + n
    BY <1>8, <2>3
  <2>6. o <= t + u + n
    BY <2>4, <2>5
  <2>. QED
    BY <2>2, <2>3, <2>6
<1>10. Cardinality(PoisonsOf(queue))' = r /\ Cardinality(Doomed)' = d /\ Cardinality(Up)' = u
  BY <1>2, <1>3, <1>4 DEF PoisonsOf
<1>11. /\ Outstanding' <= Cardinality(PoisonsOf(queue))' + Cardinality(Doomed)' + Unwritten'
       /\ Outstanding' <= sem' + Cardinality(Up)' + Unposted'
  BY <1>5, <1>6, <1>7, <1>9, <1>10
<1>. QED
  BY <1>11 DEF Enough

(* While no removal is going on nothing is to be joined.                   *)
LEMMA EnoughForNone ==
  ASSUME Types', sem' \in Nat, owner'.pc # "exit",
         at'[Owner] = "out"
  PROVE  Enough'
<1>1. PICK q \in Nat : q = Cardinality(PoisonsOf(queue'))
  BY PoisonsFinite DEF Types
<1>2. Cardinality(PoisonsOf(queue))' = q
  BY <1>1 DEF PoisonsOf
<1>3. Cardinality(Doomed)' \in Nat /\ Cardinality(Up)' \in Nat
  <2>1. Doomed' \subseteq Threads /\ Up' \subseteq Threads
    BY DEF Doomed, Up
  <2>. QED
    BY <2>1, ThreadsCount
<1>4. Outstanding' = 0 /\ Unwritten' = 0 /\ Unposted' = 0
  BY DEF Outstanding, Unwritten, Unposted
<1>. QED
  BY <1>1, <1>2, <1>3, <1>4 DEF Enough

-----------------------------------------------------------------------------
(* A step of the queue on behalf of an adder: nobody falls asleep or takes *)
(* a poison, what is queued and posted does not get less.                  *)
LEMMA AddSteps ==
  ASSUME Types, Enough, sem \in Nat, NEW a \in All,
         TaskQueue!AddStep(a) \/ TaskQueue!Catch(a)
  PROVE  /\ sem' \in Nat /\ sem <= sem'
         /\ Cardinality(PoisonsOf(queue)) <= Cardinality(PoisonsOf(queue'))
         /\ at[a] = "post" => sem' = sem + 1
         /\ at[a] = "write" /\ at'[a] # "thrown" /\ arg[a] = Poison =>
              Cardinality(PoisonsOf(queue')) = Cardinality(PoisonsOf(queue)) + 1
         /\ at[a] \in {"write", "blockingWrite", "post", "thrown"}
         /\ at[a] = "write" => at'[a] \in {"thrown", "blockingWrite"}
         /\ at[a] = "blockingWrite" => at'[a] = "post"
         /\ at[a] \in {"post", "thrown"} => at'[a] = "out"
         /\ at[a] = "thrown" => TaskQueue!Catch(a)
         /\ at'[a] \in {"blockingWrite", "thrown"} => arg'[a] = arg[a]
<1>0. Cardinality(PoisonsOf(queue)) \in Nat /\ Cardinality(PoisonsOf(queue)) <= Cardinality(PoisonsOf(queue))
  BY PoisonsFinite DEF Types
<1>1. ASSUME queue' = Append(queue, arg[a]), arg[a] \in Tasks \cup {Poison}
      PROVE  /\ Cardinality(PoisonsOf(queue)) <= Cardinality(PoisonsOf(queue'))
             /\ arg[a] = Poison =>
                  Cardinality(PoisonsOf(queue')) = Cardinality(PoisonsOf(queue)) + 1
  <2>1. PICK c \in Nat : c = Cardinality(PoisonsOf(queue))
    BY <1>0
  <2>2. PICK e : e = arg[a] /\ e \in Tasks \cup {Poison}
    BY <1>1
  <2>3. Cardinality(PoisonsOf(Append(queue, e))) = c + (IF e = Poison THEN 1 ELSE 0)
    BY <2>1, <2>2, PoisonsAppend DEF Types
  <2>4. Cardinality(PoisonsOf(queue')) = c + (IF e = Poison THEN 1 ELSE 0)
    BY <1>1, <2>2, <2>3
  <2>5. CASE e = Poison
    <3>1. Cardinality(PoisonsOf(queue')) = c + 1
      BY <2>4, <2>5
    <3>. QED
      BY <2>1, <3>1
  <2>6. CASE e # Poison
    <3>1. Cardinality(PoisonsOf(queue')) = c
      BY <2>4, <2>6
    <3>. QED
      BY <2>1, <2>2, <2>6, <3>1
  <2>. QED
    BY <2>5, <2>6
<1>. USE DEF Types, TaskQueue!Step
<1>2. CASE TaskQueue!Write(a)
  <2>1. /\ at[a] = "write" /\ at'[a] = "blockingWrite" /\ arg' = arg /\ sem' = sem
        /\ queue' = Append(queue, arg[a]) /\ arg[a] \in Tasks \cup {Poison}
    BY <1>2 DEF TaskQueue!Write
  <2>. QED
    BY <1>1, <2>1
<1>3. CASE TaskQueue!BlockingWrite(a)
  <2>1. /\ at[a] = "blockingWrite" /\ at'[a] = "post" /\ sem' = sem
        /\ queue' = Append(queue, arg[a]) /\ arg[a] \in Tasks \cup {Poison}
    BY <1>3 DEF TaskQueue!BlockingWrite
  <2>. QED
    BY <1>1, <2>1
<1>4. CASE TaskQueue!Throw(a)
  <2>1. at[a] = "write" /\ at'[a] = "thrown" /\ arg' = arg /\ sem' = sem /\ queue' = queue
    BY <1>4 DEF TaskQueue!Throw
  <2>. QED
    BY <1>0, <2>1
<1>5. CASE TaskQueue!Post(a)
  <2>1. at[a] = "post" /\ at'[a] = "out" /\ sem' = sem + 1 /\ queue' = queue
    BY <1>5 DEF TaskQueue!Post
  <2>. QED
    BY <1>0, <2>1
<1>6. CASE TaskQueue!Catch(a)
  <2>1. at[a] = "thrown" /\ at'[a] = "out" /\ sem' = sem /\ queue' = queue
    BY <1>6 DEF TaskQueue!Catch
  <2>. QED
    BY <1>0, <1>6, <2>1
<1>. QED
  BY <1>2, <1>3, <1>4, <1>5, <1>6 DEF TaskQueue!AddStep

(* An adder is neither doomed nor asleep by its call.                      *)
LEMMA AddersUp ==
  ASSUME Types, ListInv, UNCHANGED pc, NEW a \in All,
         \A b \in All \ {a} : at'[b] = at[b] /\ arg'[b] = arg[b],
         a \in Threads =>
           at[a] \notin {"wait", "taken"} /\ at'[a] \notin {"wait", "taken"}
  PROVE  Doomed' = Doomed /\ Up' = Up
<1>1. Threads \subseteq All
  BY DEF All
<1>2. ASSUME NEW w \in Threads
      PROVE  /\ (at'[w] = "taken" /\ arg'[w] = Poison) <=> (at[w] = "taken" /\ arg[w] = Poison)
             /\ at'[w] # "wait" <=> at[w] # "wait"
             /\ pc'[w] = pc[w]
  BY <1>1
<1>. QED
  BY <1>2 DEF Doomed, Up

(* The owner's Add: the poison it writes becomes one in the queue, its     *)
(* post one in the semaphore.                                              *)
LEMMA OwnerAdds ==
  ASSUME Types, Types', ListInv, Enough, sem \in Nat, TaskQueue!AddStep(Owner),
         UNCHANGED <<owner, threads, pc>>
  PROVE  sem' \in Nat /\ Enough'
<1>0. Owner \in All /\ Owner \notin Threads
  BY PoolAssumption DEF All
<1>1. Doomed' = Doomed /\ Up' = Up
  BY <1>0, CallMoves, AddersUp
<1>2. /\ sem' \in Nat /\ sem <= sem'
      /\ Cardinality(PoisonsOf(queue)) <= Cardinality(PoisonsOf(queue'))
      /\ at[Owner] = "post" => sem' = sem + 1
      /\ at[Owner] = "write" /\ at'[Owner] # "thrown" /\ arg[Owner] = Poison =>
           Cardinality(PoisonsOf(queue')) = Cardinality(PoisonsOf(queue)) + 1
      /\ at[Owner] = "write" => at'[Owner] \in {"thrown", "blockingWrite"}
      /\ at[Owner] = "blockingWrite" => at'[Owner] = "post"
      /\ at[Owner] \in {"post", "thrown"} => at'[Owner] = "out"
      /\ at'[Owner] \in {"blockingWrite", "thrown"} => arg'[Owner] = arg[Owner]
  BY <1>0, AddSteps
<1>3. at[Owner] \in {"write", "blockingWrite", "post"}
  BY <1>0, CallMoves
<1>4. PICK q \in Nat : q = Cardinality(PoisonsOf(queue))
  BY PoisonsFinite DEF Types
<1>5. PICK r \in Nat : r = Cardinality(PoisonsOf(queue'))
  BY PoisonsFinite DEF Types
<1>6. PICK d \in Nat : d = Cardinality(Doomed)
  BY UpCounts
<1>7. PICK u \in Nat : u = Cardinality(Up)
  BY UpCounts
<1>8. PICK o \in Int : o = Outstanding /\ o = Outstanding'
  BY DEF Outstanding, Types
<1>9. PICK m \in 0..1 : m = Unwritten
  BY DEF Unwritten
<1>10. PICK n \in 0..1 : n = Unwritten'
  BY DEF Unwritten
<1>11. PICK i \in 0..1 : i = Unposted
  BY DEF Unposted
<1>12. PICK j \in 0..1 : j = Unposted'
  BY DEF Unposted
<1>13. o <= q + d + m /\ o <= sem + u + i
  BY <1>4, <1>6, <1>7, <1>8, <1>9, <1>11 DEF Enough
<1>14. q <= r /\ (q + m <= r + n)
  <2>1. q <= r
    BY <1>2, <1>4, <1>5
  <2>2. CASE at[Owner] = "write" /\ at'[Owner] # "thrown"
    <3>1. r = q + 1
      BY <1>2, <1>4, <1>5, <2>2 DEF Enough
    <3>. QED
      BY <2>1, <3>1
  <2>3. CASE at[Owner] = "write" /\ at'[Owner] = "thrown"
    <3>1. m = n
      BY <1>9, <1>10, <2>3 DEF Unwritten
    <3>. QED
      BY <2>1, <3>1
  <2>4. CASE at[Owner] # "write"
    <3>1. m = 0
      BY <1>3, <1>9, <2>4 DEF Unwritten
    <3>. QED
      BY <2>1, <3>1
  <2>. QED
    BY <2>2, <2>3, <2>4
<1>15. sem + i <= sem' + j
  <2>1. CASE at[Owner] = "post"
    BY <1>2, <2>1
  <2>2. CASE at[Owner] # "post"
    <3>1. j = 1
      BY <1>2, <1>3, <1>12, <2>2 DEF Unposted
    <3>2. PICK s \in Nat, t \in Nat : s = sem /\ t = sem'
      BY <1>2
    <3>3. s <= t
      BY <1>2, <3>2
    <3>4. s + i <= t + j
      BY <3>1, <3>3
    <3>. QED
      BY <3>2, <3>4
  <2>. QED
    BY <2>1, <2>2
<1>16. o <= r + d + n
  BY <1>13, <1>14
<1>17. o <= sem' + u + j
  <2>1. PICK s \in Nat, t \in Nat : s = sem /\ t = sem'
    BY <1>2
  <2>2. o <= s + u + i /\ s + i <= t + j
    BY <1>13, <1>15, <2>1
  <2>3. o <= t + u + j
    BY <2>2
  <2>. QED
    BY <2>1, <2>3
<1>18. Cardinality(PoisonsOf(queue))' = r /\ Cardinality(Doomed)' = d /\ Cardinality(Up)' = u
  BY <1>1, <1>5, <1>6, <1>7 DEF PoisonsOf
<1>19. /\ Outstanding' <= Cardinality(PoisonsOf(queue))' + Cardinality(Doomed)' + Unwritten'
       /\ Outstanding' <= sem' + Cardinality(Up)' + Unposted'
  BY <1>8, <1>10, <1>12, <1>16, <1>17, <1>18
<1>20. /\ at'[Owner] \notin {"read", "wait", "taken"}
       /\ at'[Owner] \in {"write", "blockingWrite"} => arg'[Owner] = Poison
  BY <1>2, <1>3 DEF Enough
<1>. QED
  BY <1>2, <1>19, <1>20 DEF Enough

(* A thread that takes: a poison is in the queue or in its hand; it sleeps *)
(* only when the queue has no poison, and wakes by a post.                 *)
LEMMA TakerStays ==
  ASSUME Types, ListInv, Enough, NEW w \in Threads, pc[w] = "run", at[w] # "taken",
         UNCHANGED pc, \A b \in All \ {w} : at'[b] = at[b] /\ arg'[b] = arg[b]
  PROVE  /\ Doomed' = (IF at'[w] = "taken" /\ arg'[w] = Poison
                       THEN Doomed \cup {w} ELSE Doomed)
         /\ w \notin Doomed
         /\ Up' = (IF at'[w] = "wait" THEN Up \ {w} ELSE Up \cup {w})
         /\ w \in Up <=> at[w] # "wait"
         /\ Doomed \subseteq Up
<1>1. Threads \subseteq All
  BY DEF All
<1>2. ASSUME NEW v \in Threads, v # w
      PROVE  at'[v] = at[v] /\ arg'[v] = arg[v] /\ pc'[v] = pc[v]
  BY <1>1, <1>2
<1>3. w \notin Doomed /\ (w \in Up <=> at[w] # "wait")
  BY DEF Doomed, Up
<1>4. Doomed \subseteq Up
  BY DEF Doomed, Up, ListInv, Where
<1>5. Doomed' = (IF at'[w] = "taken" /\ arg'[w] = Poison THEN Doomed \cup {w} ELSE Doomed)
  BY <1>2, <1>3 DEF Doomed
<1>6. Up' = (IF at'[w] = "wait" THEN Up \ {w} ELSE Up \cup {w})
  BY <1>2 DEF Up
<1>. QED
  BY <1>3, <1>4, <1>5, <1>6

LEMMA TakerKeepsEnough ==
  ASSUME Types, Types', ListInv, Enough, sem \in Nat, NEW w \in Threads, Taking(w)
  PROVE  sem' \in Nat /\ Enough'
<1>0. /\ w \in All /\ Owner \in All /\ Owner # w /\ pc[w] = "run"
      /\ TaskQueue!BeginTake(w) \/ TaskQueue!TakeStep(w)
      /\ UNCHANGED <<owner, threads, pc>>
  BY PoolAssumption DEF Taking, poolVars, All
<1>1. /\ at'[Owner] = at[Owner] /\ arg'[Owner] = arg[Owner]
      /\ \A b \in All \ {w} : at'[b] = at[b] /\ arg'[b] = arg[b]
      /\ at[w] \in {"out", "read", "wait"}
  BY <1>0, CallMoves
<1>2. /\ Doomed' = (IF at'[w] = "taken" /\ arg'[w] = Poison
                    THEN Doomed \cup {w} ELSE Doomed)
      /\ w \notin Doomed
      /\ Up' = (IF at'[w] = "wait" THEN Up \ {w} ELSE Up \cup {w})
      /\ w \in Up <=> at[w] # "wait"
      /\ Doomed \subseteq Up
  BY <1>0, <1>1, TakerStays
<1>3. PICK q \in Nat : q = Cardinality(PoisonsOf(queue))
  BY PoisonsFinite DEF Types
<1>4. PICK d \in Nat : d = Cardinality(Doomed)
  BY UpCounts
<1>5. PICK u \in Nat : u = Cardinality(Up)
  BY UpCounts
<1>6. PICK o \in Int : o = Outstanding /\ o = Outstanding'
  BY <1>0 DEF Outstanding, Types
<1>7. PICK m \in 0..1 : m = Unwritten /\ m = Unwritten'
  BY <1>1 DEF Unwritten
<1>8. PICK n \in 0..1 : n = Unposted /\ n = Unposted' /\ m <= n
  BY <1>1, <1>7 DEF Unposted, Unwritten
<1>9. PICK s \in Nat : s = sem
  OBVIOUS
<1>10. o <= q + d + m /\ o <= s + u + n
  BY <1>3, <1>4, <1>5, <1>6, <1>7, <1>8, <1>9 DEF Enough
<1>11. ASSUME NEW r \in Nat, NEW e \in Nat, NEW v \in Nat, NEW t \in Nat,
              r = Cardinality(PoisonsOf(queue')), e = Cardinality(Doomed'),
              v = Cardinality(Up'), t = sem', o <= r + e + m, o <= t + v + n
       PROVE  sem' \in Nat /\ Enough'
  <2>1. Cardinality(PoisonsOf(queue))' = r /\ Cardinality(Doomed)' = e /\ Cardinality(Up)' = v
    BY <1>11 DEF PoisonsOf
  <2>2. /\ Outstanding' <= Cardinality(PoisonsOf(queue))' + Cardinality(Doomed)' + Unwritten'
        /\ Outstanding' <= sem' + Cardinality(Up)' + Unposted'
    BY <1>6, <1>7, <1>8, <1>11, <2>1
  <2>. QED
    BY <1>0, <1>1, <1>11, <2>2 DEF Enough
<1>. USE DEF TaskQueue!Step, Types
<1>12. CASE TaskQueue!BeginTake(w)
  <2>1. at[w] = "out" /\ at'[w] = "read" /\ sem' = sem /\ queue' = queue
    BY <1>0, <1>12 DEF TaskQueue!BeginTake
  <2>2. Doomed' = Doomed /\ Up' = Up
    BY <1>2, <2>1
  <2>. QED
    BY <1>3, <1>4, <1>5, <1>9, <1>10, <1>11, <2>1, <2>2
<1>13. CASE TaskQueue!Read(w)
  <2>1. /\ at[w] = "read" /\ at'[w] = "taken" /\ arg'[w] = Head(queue) /\ sem' = sem
        /\ queue # <<>> /\ queue' = Tail(queue)
    BY <1>0, <1>13 DEF TaskQueue!Read
  <2>2. Up' = Up
    BY <1>2, <2>1
  <2>3. PICK r \in Nat : r = Cardinality(PoisonsOf(queue'))
    BY PoisonsFinite
  <2>4. CASE Head(queue) = Poison
    <3>1. q = r + 1
      BY <1>3, <2>1, <2>3, <2>4, PoisonsTail
    <3>2. Doomed' = Doomed \cup {w}
      BY <1>2, <2>1, <2>4
    <3>3. Cardinality(Doomed') = d + 1
      <4>1. IsFiniteSet(Doomed) /\ w \notin Doomed
        BY <1>2, UpCounts
      <4>2. Cardinality(Doomed \cup {w}) = Cardinality(Doomed) + 1
        BY <4>1, OneMore
      <4>. QED
        BY <1>4, <3>2, <4>2
    <3>4. o <= r + (d + 1) + m
      BY <1>10, <3>1
    <3>5. PICK e \in Nat : e = d + 1 /\ e = Cardinality(Doomed')
      BY <3>3
    <3>6. o <= r + e + m
      BY <3>4, <3>5
    <3>7. u = Cardinality(Up') /\ s = sem'
      BY <1>5, <1>9, <2>1, <2>2
    <3>. QED
      BY <1>10, <1>11, <2>3, <3>5, <3>6, <3>7
  <2>5. CASE Head(queue) # Poison
    <3>1. q = r
      BY <1>3, <2>1, <2>3, <2>5, PoisonsTail
    <3>2. Doomed' = Doomed
      BY <1>2, <2>1, <2>5
    <3>. QED
      BY <1>4, <1>5, <1>9, <1>10, <1>11, <2>1, <2>2, <2>3, <3>1, <3>2
  <2>. QED
    BY <2>4, <2>5
<1>14. CASE TaskQueue!ReadEmpty(w)
  <2>1. /\ at[w] = "read" /\ at'[w] = "wait" /\ sem' = sem
        /\ queue = <<>> /\ queue' = queue
    BY <1>0, <1>14 DEF TaskQueue!ReadEmpty
  <2>2. Doomed' = Doomed /\ Up' = Up \ {w} /\ w \in Up /\ Doomed \subseteq Up \ {w}
    BY <1>2, <2>1
  <2>3. q = 0
    <3>1. PoisonsOf(queue) = {}
      BY <2>1 DEF PoisonsOf
    <3>. QED
      BY <1>3, <3>1, FS_EmptySet
  <2>4. PICK v \in Nat : v = Cardinality(Up') /\ d <= v
    <3>1. IsFiniteSet(Up \ {w})
      BY UpCounts, FS_RemoveElement
    <3>. QED
      BY <1>4, <2>2, <3>1, FS_Subset, FS_CardinalityType
  <2>5. o <= s + v + n
    <3>1. o <= d + m
      BY <1>10, <2>3
    <3>. QED
      BY <1>8, <2>4, <3>1
  <2>. QED
    BY <1>3, <1>4, <1>9, <1>10, <1>11, <2>1, <2>2, <2>4, <2>5
<1>15. CASE TaskQueue!Wait(w)
  <2>1. at[w] = "wait" /\ at'[w] = "read" /\ sem' = sem - 1 /\ sem > 0 /\ queue' = queue
    BY <1>0, <1>15 DEF TaskQueue!Wait
  <2>2. Doomed' = Doomed /\ Up' = Up \cup {w} /\ w \notin Up
    BY <1>2, <2>1
  <2>3. Cardinality(Up') = u + 1
    BY <1>5, <2>2, UpCounts, OneMore
  <2>4. s - 1 \in Nat /\ sem' = s - 1
    BY <1>9, <2>1
  <2>5. o <= (s - 1) + (u + 1) + n
    BY <1>10
  <2>6. PICK v \in Nat, t \in Nat : v = u + 1 /\ t = s - 1
    BY <2>4
  <2>7. v = Cardinality(Up') /\ t = sem' /\ o <= t + v + n
    BY <2>3, <2>4, <2>5, <2>6
  <2>8. q = Cardinality(PoisonsOf(queue')) /\ d = Cardinality(Doomed')
    BY <1>3, <1>4, <2>1, <2>2
  <2>. QED
    BY <1>10, <1>11, <2>7, <2>8
<1>. QED
  BY <1>0, <1>12, <1>13, <1>14, <1>15 DEF TaskQueue!TakeStep

(* The owner begins to post a poison.                                      *)
LEMMA ExitKeepsEnough ==
  ASSUME Types, Types', ListInv, Enough, sem \in Nat, Exit
  PROVE  sem' \in Nat /\ Enough'
<1>0. Owner \in All /\ Owner \notin Threads
  BY PoolAssumption DEF All
<1>1. /\ owner.pc = "exit" /\ owner.left > 0 /\ owner' = [owner EXCEPT !.left = owner.left - 1]
      /\ at[Owner] = "out" /\ at' = [at EXCEPT ![Owner] = "write"]
      /\ arg' = [arg EXCEPT ![Owner] = Poison]
      /\ UNCHANGED <<queue, sem, threads, pc>>
  BY DEF Exit, TaskQueue!BeginAdd, TaskQueue!Step
<1>2. /\ owner'.pc = "exit" /\ owner'.joins = owner.joins /\ owner'.left = owner.left - 1
      /\ at'[Owner] = "write" /\ arg'[Owner] = Poison
  BY <1>0, <1>1 DEF Types
<1>3. Doomed' = Doomed /\ Up' = Up
  <2>1. \A b \in All \ {Owner} : at'[b] = at[b] /\ arg'[b] = arg[b]
    BY <1>1 DEF Types
  <2>. QED
    BY <1>0, <1>1, <2>1, AddersUp
<1>4. PICK q \in Nat : q = Cardinality(PoisonsOf(queue))
  BY PoisonsFinite DEF Types
<1>5. PICK d \in Nat : d = Cardinality(Doomed)
  BY UpCounts
<1>6. PICK u \in Nat : u = Cardinality(Up)
  BY UpCounts
<1>7. PICK o \in Int : o = Outstanding /\ Outstanding' = o + 1
  <2>1. PICK j \in Nat, l \in Nat : j = owner.joins /\ l = owner.left
    BY DEF Types
  <2>2. Outstanding = j - l /\ Outstanding' = j - (l - 1)
    BY <1>1, <1>2, <2>1 DEF Outstanding
  <2>. QED
    BY <2>2
<1>8. Unwritten = 0 /\ Unposted = 0 /\ Unwritten' = 1 /\ Unposted' = 1
  BY <1>1, <1>2 DEF Unwritten, Unposted
<1>9. o <= q + d + 0 /\ o <= sem + u + 0
  BY <1>4, <1>5, <1>6, <1>7, <1>8 DEF Enough
<1>10. o + 1 <= q + d + 1 /\ o + 1 <= sem + u + 1
  BY <1>9
<1>11. Cardinality(PoisonsOf(queue))' = q /\ Cardinality(Doomed)' = d /\ Cardinality(Up)' = u
  BY <1>1, <1>3, <1>4, <1>5, <1>6 DEF PoisonsOf
<1>12. /\ Outstanding' <= Cardinality(PoisonsOf(queue))' + Cardinality(Doomed)' + Unwritten'
       /\ Outstanding' <= sem' + Cardinality(Up)' + Unposted'
  BY <1>1, <1>7, <1>8, <1>10, <1>11
<1>. QED
  BY <1>1, <1>2, <1>12 DEF Enough

(* The owner joins a thread: one that a poison has ended.                  *)
LEMMA JoinKeepsEnough ==
  ASSUME Types, Types', ListInv, Enough, sem \in Nat, JoinStoppedThread
  PROVE  sem' \in Nat /\ Enough'
<1>0. PICK v : v = Head(stopped)
  OBVIOUS
<1>1. /\ owner.pc = "exit" /\ owner.left = 0 /\ owner.joins > 0 /\ at[Owner] = "out"
      /\ stopped # <<>> /\ threads' = threads \ {v} /\ pc' = [pc EXCEPT ![v] = "none"]
      /\ owner' = [owner EXCEPT !.joins = owner.joins - 1]
      /\ UNCHANGED <<queue, sem, at, arg>>
  BY <1>0 DEF JoinStoppedThread, queueVars
<1>2. v \in Threads /\ v \in Elems(stopped)
  BY <1>0, <1>1, TailKeeps DEF Types
<1>3. pc[v] = "stopped" /\ at[v] = "out"
  BY <1>2 DEF ListInv, Listed, Where, Types, All
<1>4. v \in threads
  BY <1>1, <1>2, <1>3, PoolAssumption DEF ListInv, Listed
<1>5. Doomed' = Doomed \ {v} /\ Up' = Up \ {v} /\ v \in Doomed /\ v \in Up
  BY <1>1, <1>2, <1>3 DEF Doomed, Up, Types
<1>6. owner'.pc = "exit" /\ owner'.joins = owner.joins - 1 /\ owner'.left = 0
  BY <1>1 DEF Types
<1>7. PICK q \in Nat : q = Cardinality(PoisonsOf(queue))
  BY PoisonsFinite DEF Types
<1>8. PICK d \in Nat : d = Cardinality(Doomed)
  BY UpCounts
<1>9. PICK u \in Nat : u = Cardinality(Up)
  BY UpCounts
<1>10. PICK j \in Nat : j = owner.joins
  BY DEF Types
<1>11. Outstanding = j /\ Outstanding' = j - 1
  BY <1>1, <1>6, <1>10 DEF Outstanding
<1>12. Unwritten = 0 /\ Unposted = 0 /\ Unwritten' = 0 /\ Unposted' = 0
  BY <1>1 DEF Unwritten, Unposted
<1>13. j <= q + d + 0 /\ j <= sem + u + 0
  BY <1>7, <1>8, <1>9, <1>11, <1>12 DEF Enough
<1>14. Cardinality(Doomed') = d - 1 /\ Cardinality(Up') = u - 1
  BY <1>5, <1>8, <1>9, UpCounts, OneMore
<1>15. j - 1 <= q + (d - 1) + 0 /\ j - 1 <= sem + (u - 1) + 0
  BY <1>13
<1>16. /\ Cardinality(PoisonsOf(queue))' = q /\ Cardinality(Doomed)' = d - 1
       /\ Cardinality(Up)' = u - 1
  BY <1>1, <1>7, <1>14 DEF PoisonsOf
<1>17. /\ Outstanding' <= Cardinality(PoisonsOf(queue))' + Cardinality(Doomed)' + Unwritten'
       /\ Outstanding' <= sem' + Cardinality(Up)' + Unposted'
  BY <1>1, <1>11, <1>12, <1>15, <1>16
<1>18. owner'.joins <= Cardinality(threads)'
  <2>1. PICK c \in Nat : c = Cardinality(threads) /\ IsFiniteSet(threads)
    BY ThreadsCount DEF Types
  <2>2. j <= c
    BY <1>1, <1>10, <2>1 DEF Enough
  <2>3. Cardinality(threads') = c - 1
    BY <1>1, <1>4, <2>1, OneMore
  <2>4. j - 1 <= c - 1
    BY <2>2
  <2>. QED
    BY <1>6, <1>10, <2>3, <2>4
<1>. QED
  BY <1>1, <1>17, <1>18 DEF Enough

(* Every step keeps enough poisons and posts.                              *)
LEMMA NextEnough ==
  Types /\ ListInv /\ Enough /\ sem \in Nat /\ [Next]_vars => Enough' /\ sem' \in Nat
<1>. SUFFICES ASSUME Types, ListInv, Enough, sem \in Nat, [Next]_vars
              PROVE  Enough' /\ sem' \in Nat
  OBVIOUS
<1>0. /\ Threads \subseteq All /\ Clients \subseteq All /\ Owner \in All
      /\ Owner \notin Threads \cup Clients /\ Types' /\ Where
      /\ Cardinality(PoisonsOf(queue)) \in Nat
      /\ Cardinality(PoisonsOf(queue)) <= Cardinality(PoisonsOf(queue))
  BY PoolAssumption, NextTypes, PoisonsFinite DEF All, ListInv, Types
<1>1. ASSUME UNCHANGED <<queue, sem, owner, threads>>,
             at'[Owner] = at[Owner], arg'[Owner] = arg[Owner], Doomed' = Doomed, Up' = Up
      PROVE  Enough' /\ sem' \in Nat
  BY <1>0, <1>1, EnoughStays
<1>2. ASSUME NEW a \in Clients \cup Threads, NEW t \in Tasks, Add(a, t)
      PROVE  Enough' /\ sem' \in Nat
  <2>1. /\ a \in All /\ a # Owner /\ at[a] = "out"
        /\ at' = [at EXCEPT ![a] = "write"] /\ arg' = [arg EXCEPT ![a] = t]
        /\ UNCHANGED <<queue, sem, owner, threads, pc>>
    BY <1>0, <1>2 DEF Add, TaskQueue!BeginAdd, TaskQueue!Step, poolVars
  <2>2. /\ \A b \in All \ {a} : at'[b] = at[b] /\ arg'[b] = arg[b]
        /\ at'[a] = "write"
    BY <2>1 DEF Types
  <2>3. Doomed' = Doomed /\ Up' = Up
    BY <2>1, <2>2, AddersUp
  <2>. QED
    BY <1>0, <1>1, <2>1, <2>2, <2>3
<1>3. ASSUME NEW a \in Clients \cup Threads \cup {Owner}, Adding(a)
      PROVE  Enough' /\ sem' \in Nat
  <2>1. /\ a \in All
        /\ TaskQueue!AddStep(a) \/ (a # Owner /\ TaskQueue!Catch(a))
        /\ UNCHANGED <<owner, threads, pc>>
    BY <1>0, <1>3 DEF Adding, poolVars
  <2>2. CASE a = Owner
    BY <1>0, <2>1, <2>2, OwnerAdds
  <2>3. CASE a # Owner
    <3>1. /\ \A b \in All \ {a} : at'[b] = at[b] /\ arg'[b] = arg[b]
          /\ at[a] \in {"write", "blockingWrite", "post", "thrown"}
          /\ at'[a] \in {"thrown", "blockingWrite", "post", "out"}
      BY <2>1, CallMoves
    <3>2. Doomed' = Doomed /\ Up' = Up
      BY <2>1, <3>1, AddersUp
    <3>3. /\ sem' \in Nat /\ sem <= sem'
          /\ Cardinality(PoisonsOf(queue)) <= Cardinality(PoisonsOf(queue'))
      BY <2>1, AddSteps
    <3>. QED
      BY <1>0, <2>1, <2>3, <3>1, <3>2, <3>3, EnoughStays
  <2>. QED
    BY <2>2, <2>3
<1>4. ASSUME NEW w \in Threads, Taking(w) PROVE Enough' /\ sem' \in Nat
  BY <1>0, <1>4, TakerKeepsEnough
<1>5. ASSUME NEW w \in Threads, Quit(w) \/ Handle(w) PROVE Enough' /\ sem' \in Nat
  <2>1. /\ TaskQueue!Consume(w) /\ UNCHANGED <<owner, threads>>
        /\ pc' = [pc EXCEPT ![w] = IF arg[w] = Poison THEN "stopping" ELSE "handle"]
    BY <1>5 DEF Quit, Handle, poolVars
  <2>2. /\ at[w] = "taken" /\ at'[w] = "out" /\ pc[w] = "run"
        /\ \A b \in All \ {w} : at'[b] = at[b] /\ arg'[b] = arg[b]
    BY <1>0, <2>1, CallMoves DEF Where
  <2>3. UNCHANGED <<queue, sem>>
    BY <2>1 DEF TaskQueue!Consume
  <2>4. /\ pc'[w] = (IF arg[w] = Poison THEN "stopping" ELSE "handle")
        /\ \A v \in Threads \ {w} : pc'[v] = pc[v] /\ at'[v] = at[v] /\ arg'[v] = arg[v]
    BY <1>0, <2>1, <2>2 DEF Types
  <2>5. Doomed' = Doomed /\ Up' = Up
    BY <2>2, <2>4 DEF Doomed, Up
  <2>. QED
    BY <1>0, <1>1, <2>1, <2>2, <2>3, <2>5
<1>6. ASSUME NEW w \in Threads, Finish(w) \/ AddStoppingThread(w) PROVE Enough' /\ sem' \in Nat
  <2>1. /\ UNCHANGED <<queue, sem, at, arg, owner, threads>>
        /\ \/ pc[w] = "handle" /\ at[w] = "out" /\ pc' = [pc EXCEPT ![w] = "run"]
           \/ pc[w] = "stopping" /\ pc' = [pc EXCEPT ![w] = "stopped"]
    BY <1>6 DEF Finish, AddStoppingThread, queueVars, poolVars
  <2>2. Doomed' = Doomed /\ Up' = Up
    BY <2>1 DEF Doomed, Up, Types
  <2>. QED
    BY <1>1, <2>1, <2>2
<1>7. CASE (\E t \in Tasks : ReleaseReturned(t)) \/ UNCHANGED vars
  <2>1. UNCHANGED <<queue, sem, at, arg, owner, threads, pc>>
    BY <1>7 DEF ReleaseReturned, vars, queueVars, poolVars
  <2>2. Doomed' = Doomed /\ Up' = Up
    BY <2>1 DEF Doomed, Up
  <2>. QED
    BY <1>1, <2>1, <2>2
<1>8. ASSUME NEW n \in 0..Cardinality(Threads), SetMaxThread(n) \/ StopAllThread
      PROVE  Enough' /\ sem' \in Nat
  <2>1. /\ owner = Idle /\ UNCHANGED <<queue, sem, at, arg, threads, pc>>
        /\ \E k \in Nat \ {0} : Begins(k)
    BY <1>8, CallBegins
  <2>2. PICK k \in Nat \ {0} : Begins(k)
    BY <2>1
  <2>3. Doomed' = Doomed /\ Up' = Up
    BY <2>1 DEF Doomed, Up
  <2>4. Outstanding = 0 /\ Outstanding' = 0
    BY <2>1, <2>2 DEF Outstanding, Idle, Begins
  <2>5. owner'.pc = "exit" => owner'.joins <= Cardinality(threads)'
    BY <2>1, <2>2 DEF Begins
  <2>6. Unwritten' = Unwritten /\ Unposted' = Unposted
    BY <2>1 DEF Unwritten, Unposted
  <2>7. Cardinality(PoisonsOf(queue))' = Cardinality(PoisonsOf(queue))
    BY <2>1 DEF PoisonsOf
  <2>8. /\ Outstanding' <= Cardinality(PoisonsOf(queue))' + Cardinality(Doomed)' + Unwritten'
        /\ Outstanding' <= sem' + Cardinality(Up)' + Unposted'
    BY <2>1, <2>3, <2>4, <2>6, <2>7 DEF Enough
  <2>. QED
    BY <2>1, <2>5, <2>8 DEF Enough
<1>9. CASE (\E w \in Threads : SpawnThread(w)) \/ RegisterThread
  <2>1. /\ owner.pc = "add" /\ owner'.pc = "add" /\ UNCHANGED <<sem, at>>
    BY <1>9 DEF SpawnThread, RegisterThread, queueVars, Types, ListInv, Listed
  <2>2. at[Owner] = "out"
    BY <2>1 DEF ListInv, Listed
  <2>. QED
    BY <1>0, <2>1, <2>2, EnoughForNone
<1>10. CASE Exit
  BY <1>0, <1>10, ExitKeepsEnough
<1>11. CASE ExitThrows
  <2>1. TaskQueue!Catch(Owner) /\ owner'.pc = "idle"
    BY <1>11 DEF ExitThrows, Idle
  <2>2. at'[Owner] = "out" /\ sem' = sem
    BY <1>0, <2>1, CallMoves DEF TaskQueue!Catch
  <2>. QED
    BY <1>0, <2>1, <2>2, EnoughForNone
<1>12. CASE JoinStoppedThread
  BY <1>0, <1>12, JoinKeepsEnough
<1>13. CASE Return
  <2>1. owner.left = 0 /\ owner.joins = 0 /\ owner'.pc = "idle" /\ UNCHANGED <<sem, at>>
    BY <1>13 DEF Return, Idle, queueVars
  <2>2. at[Owner] = "out"
    BY <2>1 DEF ListInv, Listed
  <2>. QED
    BY <1>0, <2>1, <2>2, EnoughForNone
<1>14. 0 \in 0..Cardinality(Threads)
  BY ThreadsCount
<1>. QED
  BY <1>2, <1>3, <1>4, <1>5, <1>6, <1>7, <1>8, <1>9, <1>10, <1>11, <1>12, <1>13, <1>14
  DEF Next, Thread, OwnerStep

(* The owner waits for a thread that is awake or can be woken.             *)
LEMMA EnoughCovers == Types /\ ListInv /\ Enough /\ sem \in Nat => JoinsAreCovered
<1>. SUFFICES ASSUME Types, ListInv, Enough, sem \in Nat, WaitsForThread
              PROVE  \E w \in Threads : Comes(w)
  BY DEF JoinsAreCovered
<1>1. /\ owner.pc = "exit" /\ owner.left = 0 /\ owner.joins > 0 /\ at[Owner] = "out"
      /\ stopped = <<>>
  BY DEF WaitsForThread
<1>2. \A w \in Threads : pc[w] # "stopped"
  <2>1. Elems(stopped) = {}
    BY <1>1 DEF Elems
  <2>. QED
    BY <2>1 DEF ListInv, Listed
<1>3. CASE Up # {}
  <2>1. PICK w \in Threads : w \in Up
    BY <1>3 DEF Up
  <2>. QED
    BY <1>2, <2>1 DEF Up, Comes
<1>4. CASE Up = {}
  <2>1. PICK j \in Nat : j = owner.joins
    BY DEF Types
  <2>2. Outstanding = j /\ Unposted = 0
    BY <1>1, <2>1 DEF Outstanding, Unposted
  <2>3. Cardinality(Up) = 0
    BY <1>4, FS_EmptySet
  <2>4. sem > 0
    <3>1. j <= sem + 0 + 0
      BY <2>2, <2>3 DEF Enough
    <3>. QED
      BY <1>1, <2>1, <3>1
  <2>5. threads # {}
    <3>1. j <= Cardinality(threads)
      BY <1>1, <2>1 DEF Enough
    <3>2. threads = {} => Cardinality(threads) = 0
      BY FS_EmptySet
    <3>. QED
      BY <1>1, <2>1, <3>1, <3>2
  <2>6. PICK w \in Threads : w \in threads
    BY <2>5 DEF Types
  <2>7. pc[w] # "none"
    BY <2>6 DEF ListInv, Listed
  <2>8. pc[w] \in {"run", "handle", "stopping"}
    BY <1>2, <2>7 DEF Types
  <2>. QED
    BY <2>4, <2>8 DEF Comes
<1>. QED
  BY <1>3, <1>4

(* JoinStoppedThread never waits for threads that all sleep, for any       *)
(* number of threads and whatever calls came before: the poisons of the    *)
(* call, one post for two copies of each, wake and end threads enough.     *)
THEOREM OwnerNeverWaitsForSleepers == Spec => []JoinsAreCovered
<1>1. Init => Enough /\ sem \in Nat
  <2>1. Init => sem = 0
    BY DEF Init, TaskQueue!Init
  <2>. QED
    BY <2>1, InitEnough
<1>2. (Types /\ ListInv) /\ (Enough /\ sem \in Nat) /\ [Next]_vars => (Enough /\ sem \in Nat)'
  BY NextEnough
<1>3. Spec => [](Enough /\ sem \in Nat)
  BY <1>1, <1>2, TypesAndList, PTL DEF Spec
<1>. QED
  BY <1>3, TypesAndList, EnoughCovers, PTL
=============================================================================
