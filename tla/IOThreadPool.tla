---------------------------- MODULE IOThreadPool ----------------------------
(***************************************************************************)
(* I/O executors (Core/Foundation/Executor/IOThreadPoolExecutor with       *)
(* Core/Foundation/ThreadPool): pools of threads that each run a folly     *)
(* event base.  A function is added to the event base of the calling       *)
(* thread, if it belongs to the pool, or of a thread picked in turn.       *)
(*                                                                         *)
(* folly is external.  terminateLoopSoon ends the loop also when it is     *)
(* called before the loop, and the event base that a thread destroys at    *)
(* its end runs what is still queued.  What m_ThreadListLock protects is   *)
(* one step; m_IOThread IDs grow, so that a list in the order of creation  *)
(* is sorted.  The owner of the pools is one thread.                       *)
(***************************************************************************)
EXTENDS Naturals, Sequences, FiniteSets, SequencesExt

CONSTANTS
  Pools,
  Threads,    \* a prefix 1..n of the thread IDs
  PickPeriod, \* a common multiple of the lengths of the thread lists
  None

ASSUME IOAssumption ==
  /\ Threads \subseteq Nat \ {0} /\ IsFiniteSet(Threads)
  /\ None \notin Pools
  /\ PickPeriod \in Nat \ {0}

VARIABLES
  nextUID,       \* m_NextUID
  threadList,    \* m_Threads of each pool
  curCount,      \* m_CurThreadCount
  pick,          \* m_CurrentPickThread, modulo PickPeriod
  stoppedThread, \* m_StoppedThread
  at,            \* where each thread is in RunThread
  events,        \* functions queued in the event base of each thread
  terminate,     \* terminateLoopSoon was called on it
  owner,         \* the call of the owner: what is left to do, on which pool
  lost,          \* functions that add had no thread for
  overlap,       \* history: a stranger's add met threads being removed
  destroyedUsed         \* a destroyed event base has been used

poolVars == <<nextUID, threadList, curCount, pick, stoppedThread>>
loopVars == <<at, events, terminate>>
addVars == <<nextUID, threadList, curCount, stoppedThread, at, terminate, owner>>
callVars == <<poolVars, loopVars, lost, overlap, destroyedUsed>>
ioVars == <<poolVars, loopVars, owner, lost, overlap, destroyedUsed>>

Call(do, p, n) == [do |-> do, pool |-> p, left |-> n, id |-> 0]
Idle == Call("idle", None, 0)

IOInit ==
  /\ nextUID = 1
  /\ threadList = [p \in Pools |-> <<>>]
  /\ curCount = [p \in Pools |-> 0]
  /\ pick = [p \in Pools |-> 0]
  /\ stoppedThread = [p \in Pools |-> <<>>]
  /\ at = [i \in Threads |-> "none"]
  /\ events = [i \in Threads |-> <<>>]
  /\ terminate = [i \in Threads |-> FALSE]
  /\ owner = Idle
  /\ lost = {} /\ overlap = FALSE /\ destroyedUsed = FALSE

-----------------------------------------------------------------------------
(* RunThread.                                                               *)
Goes(i, from, to) == at[i] = from /\ at' = [at EXCEPT ![i] = to]

PoolOf(i) == CHOOSE p \in Pools : i \in ToSet(threadList[p]) \/ (owner.pool = p /\ owner.id = i)

(* m_EventBase is set, then the start barrier is posted.                    *)
PostBarrier(i) ==
  /\ Goes(i, "created", "ready")
  /\ UNCHANGED <<poolVars, events, terminate, owner, lost, overlap, destroyedUsed>>

LoopForever(i) ==
  /\ Goes(i, "ready", "loop")
  /\ UNCHANGED <<poolVars, events, terminate, owner, lost, overlap, destroyedUsed>>

(* The loop has ended: AddStoppingThread.                                   *)
LeaveLoop(i) ==
  /\ terminate[i]
  /\ Goes(i, "loop", "drain")
  /\ stoppedThread' = [stoppedThread EXCEPT ![PoolOf(i)] = Append(@, i)]
  /\ UNCHANGED <<nextUID, threadList, curCount, pick, events, terminate, owner,
                 lost, overlap, destroyedUsed>>

(* The thread ends and destroys its event base.                             *)
ThreadEnds(i) ==
  /\ events[i] = <<>>
  /\ Goes(i, "drain", "ended")
  /\ UNCHANGED <<poolVars, events, terminate, owner, lost, overlap, destroyedUsed>>

(* The event base takes its next function.                                  *)
Runs(i, f) ==
  /\ at[i] \in {"loop", "drain"}
  /\ events[i] # <<>> /\ f = Head(events[i])

(* runInEventBaseThread, on a thread that may have ended.                   *)
Enqueue(i, f) ==
  IF at[i] = "ended"
  THEN destroyedUsed' = TRUE /\ UNCHANGED events
  ELSE events' = [events EXCEPT ![i] = Append(@, f)] /\ UNCHANGED destroyedUsed

-----------------------------------------------------------------------------
(* PickThread: the threads in turn.                                         *)
Picked(p) == threadList[p][(pick[p] % Len(threadList[p])) + 1]

Removing(p) == owner.pool = p /\ owner.do \in {"join", "joining"}

(* add, by a thread that does not belong to the pool.                       *)
AddFrom(p, f) ==
  /\ overlap' = (overlap \/ Removing(p))
  /\ \/ /\ threadList[p] = <<>>
        /\ lost' = lost \cup {f}
        /\ UNCHANGED <<pick, events, destroyedUsed>>
     \/ /\ threadList[p] # <<>>
        /\ pick' = [pick EXCEPT ![p] = (@ + 1) % PickPeriod]
        /\ Enqueue(Picked(p), f)
        /\ UNCHANGED lost

(* add, by thread i of the pool: m_ThisThread.                              *)
AddHere(i, f) == Enqueue(i, f) /\ UNCHANGED <<pick, lost, overlap>>

(* addAll: under the read lock, the function goes to every thread.          *)
AddAll(p, f) ==
  /\ events' = [i \in Threads |->
                  IF i \in ToSet(threadList[p]) THEN Append(events[i], f) ELSE events[i]]
  /\ UNCHANGED <<pick, lost, overlap, destroyedUsed>>

-----------------------------------------------------------------------------
(* ThreadPoolExecutor::SetMaxThread and StopAllThread.  m_CurThreadCount is *)
(* read when the call begins and set to GetThreadCount at its end.          *)
SetMaxThread(p, n) ==
  /\ owner = Idle
  /\ owner' = IF n < curCount[p] THEN Call("exit", p, curCount[p] - n)
              ELSE IF n > curCount[p] THEN Call("create", p, n - curCount[p])
              ELSE Idle

StopAllThread(p) == owner = Idle /\ owner' = Call("exit", p, curCount[p])

(* AddThread: the factory's CreateThread, with the next ID, and its thread. *)
CreateThread ==
  /\ owner.do = "create" /\ owner.left > 0
  /\ nextUID \in Threads
  /\ at' = [at EXCEPT ![nextUID] = "created"]
  /\ nextUID' = nextUID + 1
  /\ owner' = [owner EXCEPT !.do = "register", !.id = nextUID]
  /\ UNCHANGED <<threadList, curCount, pick, stoppedThread, events, terminate,
                 lost, overlap, destroyedUsed>>

(* Fault: SetThread does not wait for the barrier.                          *)
SetThreadAtOnce ==
  /\ owner.do = "register"
  /\ threadList' = [threadList EXCEPT ![owner.pool] = Append(@, owner.id)]
  /\ owner' = Call("create", owner.pool, owner.left - 1)
  /\ UNCHANGED <<nextUID, curCount, pick, stoppedThread, loopVars, lost, overlap, destroyedUsed>>

(* IOThread::SetThread waits for the barrier; then the list has the thread. *)
SetThread ==
  /\ owner.do = "register" /\ at[owner.id] # "created"
  /\ threadList' = [threadList EXCEPT ![owner.pool] = Append(@, owner.id)]
  /\ owner' = Call("create", owner.pool, owner.left - 1)
  /\ UNCHANGED <<nextUID, curCount, pick, stoppedThread, loopVars, lost, overlap, destroyedUsed>>

(* Fault: the first thread of the list is skipped.                          *)
ExitAllButFirst ==
  /\ owner.do = "exit"
  /\ terminate' = [i \in Threads |->
       terminate[i] \/ \E k \in 2..Len(threadList[owner.pool]) : i = threadList[owner.pool][k]]
  /\ owner' = Call("join", owner.pool, owner.left)
  /\ UNCHANGED <<poolVars, at, events, lost, overlap, destroyedUsed>>

(* ThreadPool::RemoveThread: Exit of the first threads of the list.         *)
Exit ==
  /\ owner.do = "exit"
  /\ terminate' = [i \in Threads |->
       terminate[i] \/ \E k \in DOMAIN threadList[owner.pool] :
                         k <= owner.left /\ i = threadList[owner.pool][k]]
  /\ owner' = Call("join", owner.pool, owner.left)
  /\ UNCHANGED <<poolVars, at, events, lost, overlap, destroyedUsed>>

(* ThreadList::Remove, of a thread that is in the list.                     *)
Without(list, i) == RemoveAt(list, CHOOSE k \in DOMAIN list : list[k] = i)

(* JoinStoppedThread: m_StoppedThread.Take, then join and RemoveThread.     *)
TakeStopped ==
  /\ owner.do = "join" /\ owner.left > 0
  /\ stoppedThread[owner.pool] # <<>>
  /\ owner' = [owner EXCEPT !.do = "joining", !.id = Head(stoppedThread[owner.pool])]
  /\ stoppedThread' = [stoppedThread EXCEPT ![owner.pool] = Tail(@)]
  /\ UNCHANGED <<nextUID, threadList, curCount, pick, loopVars, lost, overlap, destroyedUsed>>

Join ==
  /\ owner.do = "joining" /\ at[owner.id] = "ended"
  /\ threadList' = [threadList EXCEPT ![owner.pool] = Without(@, owner.id)]
  /\ owner' = Call("join", owner.pool, owner.left - 1)
  /\ UNCHANGED <<nextUID, curCount, pick, stoppedThread, loopVars, lost, overlap, destroyedUsed>>

CallReturns ==
  /\ owner.do \in {"create", "join"} /\ owner.left = 0
  /\ owner' = Idle
  /\ curCount' = [curCount EXCEPT ![owner.pool] = Len(threadList[owner.pool])]
  /\ UNCHANGED <<nextUID, threadList, pick, stoppedThread, loopVars, lost, overlap, destroyedUsed>>

IOThread(i) == PostBarrier(i) \/ LoopForever(i) \/ LeaveLoop(i) \/ ThreadEnds(i)

PoolCall ==
  CreateThread \/ SetThread \/ Exit \/ TakeStopped \/ Join \/ CallReturns

-----------------------------------------------------------------------------
(* A thread of the list has an event base, unless it is being removed: the  *)
(* barrier orders m_EventBase before every add.  No thread is left behind:  *)
(* every thread that runs is in a list, or the owner has it in its hands.   *)
(* While nobody strange adds functions to a pool that loses threads, no     *)
(* event base is used after its thread has ended.                           *)
ListedThreadsRun ==
  /\ \A p \in Pools : \A i \in ToSet(threadList[p]) :
       /\ at[i] # "created"
       /\ at[i] = "ended" => Removing(p)
  /\ \A i \in Threads :
       at[i] \notin {"none", "ended"} =>
         owner.id = i \/ \E p \in Pools : i \in ToSet(threadList[p])
  /\ owner = Idle => \A p \in Pools : curCount[p] = Len(threadList[p])
  /\ ~overlap => ~destroyedUsed
=============================================================================
