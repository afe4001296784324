--------------------------- MODULE CPUThreadPool ---------------------------
(***************************************************************************)
(* The CPU executor: threads of a ThreadPool (Core/Foundation/ThreadPool)  *)
(* run MPMCTaskRunner::DoRun on one LifoSemBlockingQueue, which            *)
(* CPUThreadPoolExecutor makes with the default kBehavior, THROW; the      *)
(* owner of the executor grows and shrinks the pool with SetMaxThread and  *)
(* StopAllThread (Executor/ThreadPoolExecutor, CPUThreadPoolExecutor).     *)
(*                                                                         *)
(* Steps.  Each call of the task queue or its semaphore is a step of       *)
(* LifoSemBlockingQueue.  m_StoppedThread has one taker, the owner, so its *)
(* Take is one step that waits for a thread.  The lock of the thread list  *)
(* is not modelled: only the owner takes it.  m_Idle and m_MaxThread are   *)
(* written and never read.  The m_SysAction of a new Task is taken to be   *)
(* SA_NONE (the constructor leaves it unset: see TaskThread).  Poison      *)
(* Tasks are never released, so one value stands for all of them.  Running *)
(* or giving back a Task that is already released or given back sets       *)
(* broken, and the model stops.                                            *)
(***************************************************************************)
EXTENDS Naturals, Sequences, FiniteSets

CONSTANTS
  Owner,      \* the thread that calls SetMaxThread and StopAllThread
  Clients,    \* threads that call ThreadPoolExecutor::add
  Processors, \* the clients that are event executors (GetCurrent() # 0)
  Threads,    \* thread objects of the pool
  Tasks,      \* Task objects of the allocator
  Poison,     \* a Task after SetPosion
  Capacity,   \* capacity of the queue; 1 << 16 in the code
  Room,       \* bound on the entries of the queue when the owner shrinks
  MaxSem,     \* bound on the semaphore when an Add or a shrink begins
  None

VARIABLES
  queue, sem, at, arg, \* the task queue, and the calls in progress
  threads,  \* m_ThreadPool.m_Threads
  stopped,  \* m_ThreadPool.m_StoppedThread
  count,    \* m_CurThreadCount
  owner,    \* where the owner is in SetMaxThread or StopAllThread
  pc,       \* where each thread is: none, run, handle, stopping, stopped
  cur,      \* the Task it handles
  live,     \* Tasks acquired and not released
  home,     \* m_CurrentProcessor is not null
  returned, \* Tasks submitted to their m_CurrentProcessor, to be released
  broken    \* undefined behaviour has occurred

poolVars == <<threads, stopped, count, owner>>
taskVars == <<live, home, returned>>
queueVars == <<queue, sem, at, arg>>
vars == <<queueVars, poolVars, pc, cur, taskVars, broken>>

TaskQueue == INSTANCE LifoSemBlockingQueue
  WITH Adders <- Clients \cup {Owner} \cup Threads,
       Takers <- Threads,
       Items <- Tasks \cup {Poison},
       Behaviors <- {"THROW"},
       behavior <- "THROW",
       point <- at,
       NoItem <- None

ASSUME PoolAssumption ==
  /\ Processors \subseteq Clients
  /\ IsFiniteSet(Threads) /\ IsFiniteSet(Clients)
  /\ Owner \notin Clients \cup Threads
  /\ Clients \cap Threads = {}
  /\ Poison \notin Tasks
  /\ None \notin Threads \cup Tasks \cup {Poison}
  /\ Capacity \in Nat \ {0}
  /\ Room \in Nat /\ MaxSem \in Nat

Idle == [pc |-> "idle", left |-> 0, joins |-> 0, new |-> None]

Init ==
  /\ TaskQueue!Init
  /\ threads = {}
  /\ stopped = <<>>
  /\ count = 0
  /\ owner = Idle
  /\ pc = [w \in Threads |-> "none"]
  /\ cur = [w \in Threads |-> None]
  /\ live = {}
  /\ home = [t \in Tasks |-> FALSE]
  /\ returned = {}
  /\ broken = FALSE

-----------------------------------------------------------------------------
(* ThreadPoolExecutor::add, by a client or by a function that a thread of  *)
(* the pool runs: acquire a Task and Post it.                              *)
Add(a, t) ==
  /\ a \in Threads => pc[a] = "handle"
  /\ t \notin live
  /\ sem < MaxSem
  /\ live' = live \cup {t}
  /\ home' = [home EXCEPT ![t] = a \in Processors]
  /\ TaskQueue!BeginAdd(a, t)
  /\ UNCHANGED <<poolVars, pc, cur, returned, broken>>

(* Add of the queue goes on; a client catches QueueFullException, which    *)
(* loses the Task that add has acquired.                                   *)
Adding(a) ==
  /\ TaskQueue!AddStep(a) \/ (a # Owner /\ TaskQueue!Catch(a))
  /\ UNCHANGED <<poolVars, pc, cur, taskVars, broken>>

-----------------------------------------------------------------------------
(* A thread of the pool: RunThread calls DoRun.                            *)
Taking(w) ==
  /\ pc[w] = "run"
  /\ TaskQueue!BeginTake(w) \/ TaskQueue!TakeStep(w)
  /\ UNCHANGED <<poolVars, pc, cur, taskVars, broken>>

(* DoRun: break on SA_QUIT_RUNNER.                                         *)
Quit(w) ==
  /\ arg[w] = Poison
  /\ TaskQueue!Consume(w)
  /\ pc' = [pc EXCEPT ![w] = "stopping"]
  /\ UNCHANGED <<poolVars, cur, taskVars, broken>>

(* DoRun: call the function of the Task.                                   *)
Handle(w) ==
  /\ arg[w] # Poison
  /\ TaskQueue!Consume(w)
  /\ pc' = [pc EXCEPT ![w] = "handle"]
  /\ cur' = [cur EXCEPT ![w] = arg[w]]
  /\ broken' = (arg[w] \notin live)
  /\ UNCHANGED <<poolVars, taskVars>>

(* DoRun: the Task is released (m_DeleteCB) unless it was created on an    *)
(* event executor: then it is submitted to that one, to be released there. *)
(* DoRun on a pool thread has no current processor.                        *)
Finish(w) ==
  /\ pc[w] = "handle"
  /\ at[w] = "out"
  /\ pc' = [pc EXCEPT ![w] = "run"]
  /\ cur' = [cur EXCEPT ![w] = None]
  /\ IF home[cur[w]]
     THEN returned' = returned \cup {cur[w]} /\ UNCHANGED live
     ELSE live' = live \ {cur[w]} /\ UNCHANGED returned
  /\ broken' = (cur[w] \notin live \ returned)
  /\ UNCHANGED <<queueVars, poolVars, home>>

(* The event executor releases a Task it got back (module TaskThread).     *)
ReleaseReturned(t) ==
  /\ t \in returned
  /\ returned' = returned \ {t}
  /\ live' = live \ {t}
  /\ UNCHANGED <<queueVars, poolVars, pc, cur, home, broken>>

(* Fault: the thread needs a lock that the owner holds while it joins.     *)
AddStoppingThreadLocked(w) ==
  /\ pc[w] = "stopping"
  /\ owner.pc # "exit"
  /\ pc' = [pc EXCEPT ![w] = "stopped"]
  /\ stopped' = Append(stopped, w)
  /\ UNCHANGED <<queueVars, threads, count, owner, cur, taskVars, broken>>

(* RunThread: AddStoppingThread, and the thread ends.                      *)
AddStoppingThread(w) ==
  /\ pc[w] = "stopping"
  /\ pc' = [pc EXCEPT ![w] = "stopped"]
  /\ stopped' = Append(stopped, w)
  /\ UNCHANGED <<queueVars, threads, count, owner, cur, taskVars, broken>>

-----------------------------------------------------------------------------
(* The owner.                                                              *)
Least(m, n) == IF m < n THEN m ELSE n

(* Fault: one poison is missing.                                           *)
BeginRemoveFewPoisons(k) ==
  /\ Len(queue) + 2 * k <= Room /\ sem < MaxSem
  /\ owner' = [Idle EXCEPT !.pc = "exit", !.left = Least(Cardinality(threads), k) - 1,
                           !.joins = k]
  /\ UNCHANGED <<queueVars, threads, stopped, count, pc, cur, taskVars, broken>>

(* RemoveThread(k) of executor and pool: k poisons at most, then k joins.  *)
BeginRemove(k) ==
  /\ Len(queue) + 2 * k <= Room /\ sem < MaxSem
  /\ owner' = [Idle EXCEPT !.pc = "exit", !.left = Least(Cardinality(threads), k),
                           !.joins = k]
  /\ UNCHANGED <<queueVars, threads, stopped, count, pc, cur, taskVars, broken>>

(* SetMaxThread(n), n # m_CurThreadCount; Threads bounds the growth.       *)
SetMaxThread(n) ==
  /\ owner = Idle
  /\ \/ /\ n > count
        /\ n - count <= Cardinality({w \in Threads : pc[w] = "none"})
        /\ owner' = [Idle EXCEPT !.pc = "add", !.left = n - count]
        /\ UNCHANGED <<queueVars, threads, stopped, count, pc, cur, taskVars, broken>>
     \/ n < count /\ BeginRemove(count - n)

StopAllThread ==
  /\ owner = Idle
  /\ count > 0
  /\ BeginRemove(count)

(* AddThread: create the thread, which runs at once, ...                   *)
SpawnThread(w) ==
  /\ owner.pc = "add"
  /\ owner.left > 0
  /\ owner.new = None
  /\ pc[w] = "none"
  /\ pc' = [pc EXCEPT ![w] = "run"]
  /\ owner' = [owner EXCEPT !.new = w]
  /\ UNCHANGED <<queueVars, threads, stopped, count, cur, taskVars, broken>>

(* ... then put it in the list.                                            *)
RegisterThread ==
  /\ owner.new # None
  /\ threads' = threads \cup {owner.new}
  /\ owner' = [owner EXCEPT !.new = None, !.left = @ - 1]
  /\ UNCHANGED <<queueVars, stopped, count, pc, cur, taskVars, broken>>

(* CPUExecutorThread::Exit: post a poison.                                 *)
Exit ==
  /\ owner.pc = "exit"
  /\ owner.left > 0
  /\ owner' = [owner EXCEPT !.left = @ - 1]
  /\ TaskQueue!BeginAdd(Owner, Poison)
  /\ UNCHANGED <<threads, stopped, count, pc, cur, taskVars, broken>>

(* QueueFullException leaves SetMaxThread or StopAllThread.                *)
ExitThrows ==
  /\ TaskQueue!Catch(Owner)
  /\ owner' = Idle
  /\ UNCHANGED <<threads, stopped, count, pc, cur, taskVars, broken>>

(* Fault: the stopped thread stays in m_StoppedThread.                     *)
JoinStoppedThreadPeek ==
  /\ owner.pc = "exit" /\ owner.left = 0 /\ owner.joins > 0
  /\ at[Owner] = "out"
  /\ stopped # <<>>
  /\ threads' = threads \ {Head(stopped)}
  /\ pc' = [pc EXCEPT ![Head(stopped)] = "none"]
  /\ owner' = [owner EXCEPT !.joins = @ - 1]
  /\ UNCHANGED <<queueVars, stopped, count, cur, taskVars, broken>>

(* JoinStoppedThread: take a stopped thread, join it, RemoveThread it      *)
(* from the list, where two CHECKs want it exactly once.                   *)
JoinStoppedThread ==
  /\ owner.pc = "exit" /\ owner.left = 0 /\ owner.joins > 0
  /\ at[Owner] = "out"
  /\ stopped # <<>>
  /\ stopped' = Tail(stopped)
  /\ threads' = threads \ {Head(stopped)}
  /\ pc' = [pc EXCEPT ![Head(stopped)] = "none"]
  /\ owner' = [owner EXCEPT !.joins = @ - 1]
  /\ UNCHANGED <<queueVars, count, cur, taskVars, broken>>

(* SetMaxThread or StopAllThread ends: m_CurThreadCount.                   *)
Return ==
  /\ owner.pc # "idle" /\ owner.left = 0 /\ owner.joins = 0 /\ owner.new = None
  /\ owner' = Idle
  /\ count' = Cardinality(threads)
  /\ UNCHANGED <<queueVars, threads, stopped, pc, cur, taskVars, broken>>

-----------------------------------------------------------------------------
Thread(w) == Taking(w) \/ Quit(w) \/ Handle(w) \/ Finish(w) \/ AddStoppingThread(w)

OwnerStep ==
  \/ \E w \in Threads : SpawnThread(w)
  \/ RegisterThread \/ Exit \/ ExitThrows \/ JoinStoppedThread \/ Return

Next ==
  /\ ~broken
  /\ \/ \E a \in Clients \cup Threads, t \in Tasks : Add(a, t)
     \/ \E a \in Clients \cup Threads \cup {Owner} : Adding(a)
     \/ \E w \in Threads : Thread(w)
     \/ \E t \in Tasks : ReleaseReturned(t)
     \/ \E n \in 0..Cardinality(Threads) : SetMaxThread(n)
     \/ StopAllThread
     \/ OwnerStep

Spec == Init /\ [][Next]_vars

(* Threads run, calls that have begun go on.                               *)
Fairness ==
  /\ \A a \in Clients \cup Threads \cup {Owner} : WF_vars(~broken /\ Adding(a))
  /\ \A w \in Threads : WF_vars(~broken /\ Thread(w))
  /\ WF_vars(~broken /\ OwnerStep)

FairSpec == Spec /\ Fairness

-----------------------------------------------------------------------------
(* Properties.                                                             *)
(* The CHECKs of ThreadList::Remove: a thread that has stopped is in the   *)
(* list once, or on its way into it, although it may stop before AddThread *)
(* registers it; and between calls of SetMaxThread and StopAllThread, also *)
(* after one that ended with an exception, m_CurThreadCount is the number  *)
(* of threads that were created and not joined.                            *)
ThreadsAreListed ==
  /\ \A i, j \in 1..Len(stopped) : stopped[i] = stopped[j] => i = j
  /\ \A i \in 1..Len(stopped) : stopped[i] \in threads \cup {owner.new}
  /\ owner.joins > 0 /\ stopped # <<>> => Head(stopped) \in threads
  /\ owner = Idle => /\ count = Cardinality(threads)
                     /\ threads = {w \in Threads : pc[w] # "none"}

(* "since pool excutor thread are treated equally, just posion any random  *)
(* thread" (CPUExecutorThread::Exit): a call that removes k threads stops  *)
(* k threads, and the threads that are left in the list go on.             *)
ExitStopsOne ==
  owner = Idle => \A w \in threads : pc[w] \in {"run", "handle"}

(* JoinStoppedThread waits for as many threads as RemoveThread posted      *)
(* poisons: the owner never waits for a thread while all that are left     *)
(* sleep in the semaphore, although a poison is queued twice and posted    *)
(* once, other posts are left behind or taken by a thread that goes on,    *)
(* and an earlier call may have ended half way.                            *)
WaitsForThread ==
  owner.pc = "exit" /\ owner.left = 0 /\ owner.joins > 0 /\ at[Owner] = "out"
    /\ stopped = <<>>
Comes(w) ==
  \/ pc[w] = "stopping"
  \/ pc[w] \in {"run", "handle"} /\ (at[w] = "wait" => sem > 0)
JoinsAreCovered == WaitsForThread => \E w \in Threads : Comes(w)

(* SetMaxThread and StopAllThread return or throw, however the threads and *)
(* the poisons of this and earlier calls meet, unless a full queue has no  *)
(* reader left.                                                            *)
Jammed ==
  /\ Len(queue) = Capacity
  /\ \A a \in Clients \cup Threads \cup {Owner} : at[a] # "post"
  /\ \A w \in Threads :
       \/ pc[w] \in {"none", "stopping", "stopped"}
       \/ at[w] = "wait" /\ sem = 0
       \/ at[w] = "blockingWrite"
CallsReturn == owner # Idle ~> owner = Idle \/ broken \/ Jammed
=============================================================================
