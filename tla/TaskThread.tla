----------------------------- MODULE TaskThread -----------------------------
(***************************************************************************)
(* Event executors: a TaskThread (Core/Foundation/Task/TaskThread.cpp) is  *)
(* a thread (ThreadedExecutor) that runs a TaskConsumer, the double queue  *)
(* other threads post Tasks to.  EventExecutor::add posts a function.      *)
(*                                                                         *)
(* Several executors run here together with client threads, because a Task *)
(* created on the thread of one executor and handled by another is sent    *)
(* back to the first to be released there (SA_RELEASE_TASK).               *)
(*                                                                         *)
(* Steps.  A critical section of m_NewTaskNotifierMutex is one step; the   *)
(* notify_all that follows it outside the lock is another.  m_Finished and *)
(* m_ThreadExit are read without the lock, one step per read.  Misuse of a *)
(* deleted TaskConsumer, and a PostTask in the middle of the unlocked      *)
(* ClearTasks, set broken: the behaviour is undefined and the model stops. *)
(***************************************************************************)
EXTENDS Naturals, FiniteSets

CONSTANTS
  Executors,  \* the event executors
  Clients,    \* other threads (TaskProcessor::GetCurrent() is null there)
  Tasks,      \* Task objects of the allocator, ordered by address
  Sends,      \* <<e, f>>: functions that run on e may post to f # e
  Garbage,    \* values m_SysAction, which no constructor sets, may have
  Contract,   \* TRUE: the callers keep to the rules of MayPost and MayStop
  None        \* the null pointer

SysActions == {"NONE", "QUIT_RUNNER", "RELEASE_TASK", "WAIT_NOTIFIER", "TIMER"}

ASSUME TaskThreadAssumption ==
  /\ Executors \cap Clients = {}
  /\ None \notin Executors \cup Clients
  /\ Tasks \subseteq Nat /\ IsFiniteSet(Tasks)
  /\ None \notin Tasks
  /\ Sends \subseteq Executors \X Executors
  /\ Garbage \subseteq SysActions
  /\ Contract \in BOOLEAN

Actors == Executors \cup Clients

VARIABLES
  (* TaskConsumer *)
  incoming,   \* m_IncomingQueue
  working,    \* m_WorkingQueue
  ready,      \* m_NewTaskReady
  finished,   \* m_Finished
  deleted,    \* TaskThread::m_Runnable has been deleted and set to 0
  (* ThreadedExecutor *)
  threadExit, \* m_ThreadExit
  pc,         \* where the thread is
  cur,        \* the Task the thread has dequeued
  stop,       \* where the call of Stop is
  (* Task *)
  live,       \* Task objects that were acquired and not released
  home,       \* m_CurrentProcessor
  action,     \* m_SysAction
  (* threads inside PostTask *)
  notifying,  \* the executor this actor still has to notify
  broken      \* undefined behaviour has occurred

consumerVars == <<incoming, working, ready, finished, deleted>>
threadVars == <<threadExit, pc, cur, stop>>
taskVars == <<live, home, action>>
vars == <<consumerVars, threadVars, taskVars, notifying, broken>>

PCs == {"none",     \* no thread
        "loop",     \* ThreadRun: while(!m_ThreadExit)
        "test",     \* DoRun: while(!m_Finished)
        "lock",     \* DoRun: locks, tests m_NewTaskReady
        "blocked",  \* DoRun: m_NewTaskNotifierCV.wait
        "drain",    \* DoRun: if(m_Finished) break; Dequeue
        "handle",   \* DoRun: runs the function or the handler
        "finish",   \* DoRun: runs OnFinish of a returned Task
        "clearW",   \* ClearTasks: the working queue
        "clearI",   \* ClearTasks: the incoming queue
        "exit",     \* OnThreadExit
        "ended"}    \* the thread function has returned

Stops == {"no", "notify", "flag", "join", "stopped"}

Init ==
  /\ incoming = [e \in Executors |-> {}]
  /\ working = [e \in Executors |-> {}]
  /\ ready = [e \in Executors |-> FALSE]
  /\ finished = [e \in Executors |-> FALSE]
  /\ deleted = [e \in Executors |-> FALSE]
  /\ threadExit = [e \in Executors |-> TRUE]
  /\ pc = [e \in Executors |-> "none"]
  /\ cur = [e \in Executors |-> None]
  /\ stop = [e \in Executors |-> "no"]
  /\ live = {}
  /\ home = [t \in Tasks |-> None]
  /\ action = [t \in Tasks |-> "NONE"]
  /\ notifying = [a \in Actors |-> None]
  /\ broken = FALSE

(* The thread of e is at a point, and not inside a PostTask it called.     *)
At(e, point) == pc[e] = point /\ notifying[e] = None

Goto(e, from, to) ==
  /\ At(e, from)
  /\ pc' = [pc EXCEPT ![e] = to]

(* TaskQueue is a priority_queue of Task*: the highest address comes first. *)
Top(q) == CHOOSE t \in q : \A u \in q : u <= t

-----------------------------------------------------------------------------
(* Posting.                                                                *)

(* PostTask(task) on the TaskConsumer of e by actor a: the locked part.    *)
PostTask(a, e, t) ==
  \/ /\ ~deleted[e]
     /\ incoming' = [incoming EXCEPT ![e] = @ \cup {t}]
     /\ ready' = [ready EXCEPT ![e] = TRUE]
     /\ notifying' = [notifying EXCEPT ![a] = e]
     /\ UNCHANGED broken
  \/ /\ deleted[e] \/ (pc[e] = "clearI" /\ a # e)
     /\ broken' = TRUE
     /\ UNCHANGED <<incoming, ready, notifying>>

(* Under the contract nobody posts to an executor once its Stop has begun, *)
(* except the functions that still run on it.                              *)
MayPost(a, e) ==
  /\ notifying[a] = None
  /\ a \in Executors =>
        /\ pc[a] \in {"handle", "finish"}
        /\ action[cur[a]] # "WAIT_NOTIFIER"
        /\ a = e \/ <<a, e>> \in Sends
  /\ Contract => a = e \/ stop[e] = "no"

(* EventExecutor::add and TaskHandler::SendTaskAsync: acquire a Task, whose *)
(* constructor records the current processor, and SubmitTask it;            *)
(* WaitTaskComplete posts an SA_WAIT_NOTIFIER Task the same way.            *)
Add(a, e) ==
  /\ MayPost(a, e)
  /\ \E t \in Tasks \ live, act \in Garbage \cup {"WAIT_NOTIFIER"} :
        /\ live' = live \cup {t}
        /\ home' = [home EXCEPT ![t] = IF a \in Executors THEN a ELSE None]
        /\ action' = [action EXCEPT ![t] = act]
        /\ PostTask(a, e, t)
  /\ UNCHANGED <<working, finished, deleted, threadVars>>

(* Fault: nobody is woken.                                                 *)
NotifyNobody(a) ==
  /\ notifying[a] # None
  /\ notifying' = [notifying EXCEPT ![a] = None]
  /\ broken' = deleted[notifying[a]]
  /\ UNCHANGED <<consumerVars, threadVars, taskVars>>

(* PostTask: m_NewTaskNotifierCV.notify_all(), after the unlock.           *)
Notify(a) ==
  /\ notifying[a] # None
  /\ notifying' = [notifying EXCEPT ![a] = None]
  /\ LET e == notifying[a] IN
     /\ broken' = deleted[e]
     /\ pc' = IF pc[e] = "blocked" THEN [pc EXCEPT ![e] = "lock"] ELSE pc
  /\ UNCHANGED <<consumerVars, threadExit, cur, stop, taskVars>>

-----------------------------------------------------------------------------
(* The thread of an executor.                                              *)

(* ThreadedExecutor::Start.  The contract: once, before Stop.              *)
Start(e) ==
  /\ threadExit[e]
  /\ stop[e] \in {"no", "stopped"}
  /\ pc[e] \in IF Contract THEN {"none"} ELSE {"none", "ended"}
  /\ threadExit' = [threadExit EXCEPT ![e] = FALSE]
  /\ pc' = [pc EXCEPT ![e] = "loop"]
  /\ stop' = [stop EXCEPT ![e] = "no"]
  /\ UNCHANGED <<consumerVars, cur, taskVars, notifying, broken>>

(* ThreadRun: the loop test; TaskThread::OnThreadRun calls m_Runnable->Run. *)
ThreadRun(e) ==
  /\ IF threadExit[e] THEN Goto(e, "loop", "exit") ELSE Goto(e, "loop", "test")
  /\ broken' = (~threadExit[e] /\ deleted[e])
  /\ UNCHANGED <<consumerVars, threadExit, cur, stop, taskVars, notifying>>

(* DoRun: while(!m_Finished), ClearTasks after it.                         *)
TestFinished(e) ==
  /\ Goto(e, "test", IF finished[e] THEN "clearW" ELSE "lock")
  /\ UNCHANGED <<consumerVars, threadExit, cur, stop, taskVars, notifying, broken>>

(* Fault: waits without the test.                                          *)
BlockUntested(e) ==
  /\ Goto(e, "lock", "blocked")
  /\ UNCHANGED <<consumerVars, threadExit, cur, stop, taskVars, notifying, broken>>

(* DoRun: while(!m_NewTaskReady) wait; releases the mutex and blocks.      *)
Block(e) ==
  /\ ~ready[e]
  /\ Goto(e, "lock", "blocked")
  /\ UNCHANGED <<consumerVars, threadExit, cur, stop, taskVars, notifying, broken>>

(* DoRun: the wait may also return without a notification.                 *)
SpuriousWake(e) ==
  /\ Goto(e, "blocked", "lock")
  /\ UNCHANGED <<consumerVars, threadExit, cur, stop, taskVars, notifying, broken>>

(* DoRun: ReloadWorkQueue and m_NewTaskReady = false under the mutex.      *)
Reload(e) ==
  /\ ready[e]
  /\ Goto(e, "lock", "drain")
  /\ ready' = [ready EXCEPT ![e] = FALSE]
  /\ IF incoming[e] = {}
     THEN UNCHANGED <<incoming, working>>
     ELSE /\ incoming' = [incoming EXCEPT ![e] = working[e]]
          /\ working' = [working EXCEPT ![e] = incoming[e]]
  /\ UNCHANGED <<finished, deleted, threadExit, cur, stop, taskVars, notifying, broken>>

(* DoRun: break on m_Finished, leave the loop on an empty queue.           *)
LeaveDrain(e) ==
  /\ finished[e] \/ working[e] = {}
  /\ Goto(e, "drain", "test")
  /\ UNCHANGED <<consumerVars, threadExit, cur, stop, taskVars, notifying, broken>>

(* Fault: the Task stays in the queue.                                     *)
DequeuePeek(e) ==
  /\ ~finished[e]
  /\ working[e] # {}
  /\ LET t == Top(working[e]) IN
     /\ cur' = [cur EXCEPT ![e] = t]
     /\ Goto(e, "drain", IF action[t] = "RELEASE_TASK" THEN "finish" ELSE "handle")
  /\ UNCHANGED <<consumerVars, threadExit, stop, taskVars, notifying, broken>>

(* DoRun: Dequeue, and the branch on m_SysAction.                          *)
Dequeue(e) ==
  /\ ~finished[e]
  /\ working[e] # {}
  /\ LET t == Top(working[e]) IN
     /\ cur' = [cur EXCEPT ![e] = t]
     /\ working' = [working EXCEPT ![e] = @ \ {t}]
     /\ Goto(e, "drain", IF action[t] = "RELEASE_TASK" THEN "finish" ELSE "handle")
  /\ UNCHANGED <<incoming, ready, finished, deleted, threadExit, stop, taskVars,
                 notifying, broken>>

(* TaskAllocator::Release: ~Task resets the fields, the object is free.     *)
Release(t) ==
  /\ live' = live \ {t}
  /\ home' = [home EXCEPT ![t] = None]
  /\ action' = [action EXCEPT ![t] = "NONE"]

ReleaseCurrent(e) ==
  /\ Release(cur[e])
  /\ cur' = [cur EXCEPT ![e] = None]

(* DoRun: a returned Task, after OnFinish, is released.                    *)
Finish(e) ==
  /\ Goto(e, "finish", "drain")
  /\ ReleaseCurrent(e)
  /\ UNCHANGED <<consumerVars, threadExit, stop, notifying, broken>>

(* DoRun: handled, and created here or by no processor: released.          *)
HandledHere(e) ==
  /\ Goto(e, "handle", "drain")
  /\ home[cur[e]] \in {None, e}
  /\ ReleaseCurrent(e)
  /\ UNCHANGED <<consumerVars, threadExit, stop, notifying, broken>>

(* Fault: the Task is sent back as it is, to be handled once more.         *)
HandledElsewhereAgain(e) ==
  /\ Goto(e, "handle", "drain")
  /\ home[cur[e]] \notin {None, e}
  /\ PostTask(e, home[cur[e]], cur[e])
  /\ cur' = [cur EXCEPT ![e] = None]
  /\ UNCHANGED <<working, finished, deleted, threadExit, stop, taskVars>>

(* DoRun: handled, and created by another processor: sent back to it.      *)
HandledElsewhere(e) ==
  /\ Goto(e, "handle", "drain")
  /\ home[cur[e]] \notin {None, e}
  /\ action' = [action EXCEPT ![cur[e]] = "RELEASE_TASK"]
  /\ PostTask(e, home[cur[e]], cur[e])
  /\ cur' = [cur EXCEPT ![e] = None]
  /\ UNCHANGED <<working, finished, deleted, threadExit, stop, live, home>>

(* ClearTasks: release what is left, first the working queue, then the     *)
(* incoming one, without the mutex.                                        *)
ClearWorking(e) ==
  /\ IF working[e] = {}
     THEN /\ Goto(e, "clearW", "clearI")
          /\ UNCHANGED <<working, taskVars>>
     ELSE /\ At(e, "clearW")
          /\ working' = [working EXCEPT ![e] = @ \ {Top(@)}]
          /\ Release(Top(working[e]))
          /\ UNCHANGED pc
  /\ UNCHANGED <<incoming, ready, finished, deleted, threadExit, cur, stop,
                 notifying, broken>>

ClearIncoming(e) ==
  /\ IF incoming[e] = {}
     THEN /\ Goto(e, "clearI", "loop")
          /\ UNCHANGED <<incoming, taskVars>>
     ELSE /\ At(e, "clearI")
          /\ incoming' = [incoming EXCEPT ![e] = @ \ {Top(@)}]
          /\ Release(Top(incoming[e]))
          /\ UNCHANGED pc
  /\ UNCHANGED <<working, ready, finished, deleted, threadExit, cur, stop,
                 notifying, broken>>

(* TaskThread::OnThreadExit: deletes the TaskConsumer, whose destructor    *)
(* drops the queues without releasing their Tasks.                         *)
OnThreadExit(e) ==
  /\ Goto(e, "exit", "ended")
  /\ deleted' = [deleted EXCEPT ![e] = TRUE]
  /\ incoming' = [incoming EXCEPT ![e] = {}]
  /\ working' = [working EXCEPT ![e] = {}]
  /\ UNCHANGED <<ready, finished, threadExit, cur, stop, taskVars, notifying, broken>>

-----------------------------------------------------------------------------
(* TaskThread::Stop, called by the owner of the executor.                  *)

(* Under the contract the owner stops an executor that was started and     *)
(* whose thread has entered DoRun (else m_ThreadExit ends the thread       *)
(* before any ClearTasks), when no thread is inside PostTask on it, and    *)
(* only after the executors its functions post to, which send Tasks back,  *)
(* have stopped.                                                           *)
MayStop(e) ==
  Contract => /\ pc[e] \notin {"none", "loop"}
              /\ \A a \in Actors : notifying[a] # e
              /\ \A f \in Executors : f # e /\ <<e, f>> \in Sends => stop[f] = "stopped"

(* Fault: SetFinished does not set m_NewTaskReady.                         *)
SetFinishedUnready(e) ==
  /\ stop[e] = "no"
  /\ ~deleted[e]
  /\ MayStop(e)
  /\ finished' = [finished EXCEPT ![e] = TRUE]
  /\ stop' = [stop EXCEPT ![e] = "notify"]
  /\ UNCHANGED <<incoming, working, ready, deleted, threadExit, pc, cur, taskVars,
                 notifying, broken>>

(* Stop: if(m_Runnable) m_Runnable->SetFinished(): the locked part.        *)
SetFinished(e) ==
  /\ stop[e] = "no"
  /\ ~deleted[e]
  /\ MayStop(e)
  /\ finished' = [finished EXCEPT ![e] = TRUE]
  /\ ready' = [ready EXCEPT ![e] = TRUE]
  /\ stop' = [stop EXCEPT ![e] = "notify"]
  /\ UNCHANGED <<incoming, working, deleted, threadExit, pc, cur, taskVars, notifying, broken>>

(* SetFinished: notify_all.                                                *)
NotifyFinished(e) ==
  /\ stop[e] = "notify"
  /\ stop' = [stop EXCEPT ![e] = "flag"]
  /\ pc' = IF pc[e] = "blocked" THEN [pc EXCEPT ![e] = "lock"] ELSE pc
  /\ UNCHANGED <<consumerVars, threadExit, cur, taskVars, notifying, broken>>

(* Fault: no join.                                                         *)
SetThreadExitNoJoin(e) ==
  /\ stop[e] = "flag"
  /\ stop' = [stop EXCEPT ![e] = "stopped"]
  /\ threadExit' = [threadExit EXCEPT ![e] = TRUE]
  /\ UNCHANGED <<consumerVars, pc, cur, taskVars, notifying, broken>>

(* ThreadedExecutor::Stop: if(!m_ThreadExit), set it and join.             *)
SetThreadExit(e) ==
  /\ stop[e] = "flag"
  /\ stop' = [stop EXCEPT ![e] = IF threadExit[e] THEN "stopped" ELSE "join"]
  /\ threadExit' = [threadExit EXCEPT ![e] = TRUE]
  /\ UNCHANGED <<consumerVars, pc, cur, taskVars, notifying, broken>>

Join(e) ==
  /\ stop[e] = "join"
  /\ pc[e] = "ended"
  /\ stop' = [stop EXCEPT ![e] = "stopped"]
  /\ UNCHANGED <<consumerVars, threadExit, pc, cur, taskVars, notifying, broken>>

-----------------------------------------------------------------------------
Thread(e) ==
  \/ ThreadRun(e) \/ TestFinished(e) \/ Block(e) \/ Reload(e)
  \/ LeaveDrain(e) \/ Dequeue(e) \/ Finish(e) \/ HandledHere(e) \/ HandledElsewhere(e)
  \/ ClearWorking(e) \/ ClearIncoming(e) \/ OnThreadExit(e)

Stop(e) == SetFinished(e) \/ NotifyFinished(e) \/ SetThreadExit(e) \/ Join(e)

Next ==
  /\ ~broken
  /\ \/ \E a \in Actors, e \in Executors : Add(a, e)
     \/ \E a \in Actors : Notify(a)
     \/ \E e \in Executors : Start(e) \/ Thread(e) \/ SpuriousWake(e) \/ Stop(e)

Spec == Init /\ [][Next]_vars

(* A thread that can run runs, a call of PostTask or Stop goes on, and the *)
(* functions that Tasks carry return, however many Tasks they post.        *)
Fairness ==
  /\ \A a \in Actors : WF_vars(~broken /\ Notify(a))
  /\ \A e \in Executors :
        /\ WF_vars(~broken /\ Thread(e))
        /\ SF_vars(~broken /\ (Finish(e) \/ HandledHere(e) \/ HandledElsewhere(e)))
        /\ WF_vars(~broken /\ (NotifyFinished(e) \/ SetThreadExit(e) \/ Join(e)))

FairSpec == Spec /\ Fairness

-----------------------------------------------------------------------------
(* Properties.                                                             *)

TypeOK ==
  /\ incoming \in [Executors -> SUBSET Tasks]
  /\ working \in [Executors -> SUBSET Tasks]
  /\ ready \in [Executors -> BOOLEAN]
  /\ finished \in [Executors -> BOOLEAN]
  /\ deleted \in [Executors -> BOOLEAN]
  /\ threadExit \in [Executors -> BOOLEAN]
  /\ pc \in [Executors -> PCs]
  /\ cur \in [Executors -> Tasks \cup {None}]
  /\ stop \in [Executors -> Stops]
  /\ live \in SUBSET Tasks
  /\ home \in [Tasks -> Executors \cup {None}]
  /\ action \in [Tasks -> SysActions]
  /\ notifying \in [Actors -> Executors \cup {None}]
  /\ broken \in BOOLEAN

(* The Tasks an executor holds a pointer to.                               *)
Holds(e, t) == t \in incoming[e] \/ t \in working[e] \/ cur[e] = t

(* Every pointer in a queue or in the hands of a thread is to a Task that  *)
(* is not released, and there is only one: however executors pass Tasks    *)
(* back and forth, and whenever they are stopped and cleared, no Task is   *)
(* used after its release or released twice (DoRun, ClearTasks).           *)
NoDangling ==
  \A t \in Tasks : \A e \in Executors :
    Holds(e, t) => /\ t \in live
                   /\ \A f \in Executors : Holds(f, t) => e = f
                   /\ ~(t \in incoming[e] /\ t \in working[e])
                   /\ cur[e] = t => t \notin incoming[e] \cup working[e]

(* No wake-up is lost: if Tasks are waiting m_NewTaskReady says so, and if *)
(* it is set while the thread is blocked a notify_all is still to come,    *)
(* although PostTask and SetFinished notify after they unlock.             *)
NoLostWakeup ==
  \A e \in Executors :
    /\ incoming[e] # {} => ready[e]
    /\ pc[e] = "blocked" /\ ready[e] =>
          stop[e] = "notify" \/ \E a \in Actors : notifying[a] = e

(* Under the contract no Task is lost: a live Task is in a queue or in the *)
(* hands of a thread.  Once Stop has returned, the executor has no Task    *)
(* left, and no Task it created is still alive elsewhere that would later  *)
(* be sent back to the deleted TaskConsumer; nobody touches that, and no   *)
(* PostTask meets the ClearTasks that takes no lock ("should only called   *)
(* in internal thread").                                                   *)
StoppedIsClean ==
  Contract =>
    /\ ~broken
    /\ \A t \in live : \E e \in Executors : Holds(e, t)
    /\ \A e \in Executors : stop[e] = "stopped" =>
         \A t \in Tasks : ~Holds(e, t) /\ (t \in live => home[t] # e)

(* The executors together do to each Task what TaskLifecycle promises, if  *)
(* m_SysAction happens to be harmless in a new Task.                       *)
PhaseOf(t) ==
  IF t \notin live THEN "free"
  ELSE IF \E e \in Executors : cur[e] = t /\ pc[e] = "handle" THEN "running"
  ELSE IF action[t] = "RELEASE_TASK" THEN "returning"
  ELSE "queued"

Lifecycle == INSTANCE TaskLifecycle
  WITH phase <- [t \in Tasks |-> PhaseOf(t)],
       stopping <- \E e \in Executors : finished[e]

ImplementsLifecycle == Lifecycle!Spec

(* Stop returns: the join ends whatever the thread was doing, although it  *)
(* may run DoRun again between SetFinished and m_ThreadExit.               *)
StopReturns ==
  \A e \in Executors : Contract /\ stop[e] = "notify" ~> stop[e] = "stopped"

(* Every posted Task is disposed of, once the executors run: handled and   *)
(* given back, or cleared by a Stop.  The queue hands out the highest      *)
(* address first, and still starves no Task.                               *)
Started == \A e \in Executors : pc[e] # "none"
EveryTaskDisposed ==
  \A t \in Tasks : Contract /\ Started /\ t \in live ~> t \notin live
=============================================================================
