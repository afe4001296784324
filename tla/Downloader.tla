----------------------------- MODULE Downloader -----------------------------
(***************************************************************************)
(* The download client: DownloadService::RequestCDN hands CurlDownloadTask *)
(* objects to the event loop of DownloaderEventCurl, one thread that runs  *)
(* libevent callbacks around curl's multi interface and answers through a  *)
(* folly promise that lives in the task.                                   *)
(*                                                                         *)
(* libevent, curl and folly are external, modelled by what this code needs *)
(* of them: an event that is made active while its callback runs is run    *)
(* again; callbacks of priority 0 (interrupt, exit, timer) go before those *)
(* of sockets; a transfer ends with one message; the value of a promise    *)
(* whose future has no callback stays in the shared state, where it keeps  *)
(* the task alive, and moves into the callback when there is one.  URLs,   *)
(* options, times and sizes are left out, and of a result only its kind is *)
(* kept.  No request is in progress when the downloader is destroyed, and  *)
(* none comes after: that is for the users of the service.                 *)
(***************************************************************************)
EXTENDS Integers, Sequences, FiniteSets

CONSTANTS
  Tasks,    \* CurlDownloadTask objects; one request each
  Handles,  \* curl easy handles that curl_easy_init can return
  Limits,   \* what the storage of m_CountOfMaxProcessingTasks may hold:
            \* the constructor does not set it and nothing calls the setter
  None

ASSUME DownloaderAssumption ==
  /\ IsFiniteSet(Tasks) /\ IsFiniteSet(Handles)
  /\ Cardinality(Tasks) <= Cardinality(Handles)
  /\ Limits \subseteq Int
  /\ None \notin Tasks \cup Handles

VARIABLES
  limit,    \* m_CountOfMaxProcessingTasks
  waiting,  \* m_WaitingTask
  running,  \* m_RunningTasks
  active,   \* events among interrupt and exit that are active
  timer,    \* m_CurlTimerEvent is pending
  loop,     \* what the thread does
  hasMsg,   \* of CheckSocket
  pool,     \* m_CurlPool
  data,     \* the task a handle's WRITEDATA and ERRORBUFFER point into
  xfer,     \* curl's state of a handle
  watched,  \* handles whose socket has a SockInfo with its event
  task,     \* storage of the tasks
  future,   \* where the caller of RequestCDN is
  code,     \* m_ErrorCode
  owner     \* the DownloadService

queueVars == <<limit, waiting, running>>
curlVars == <<pool, data, xfer, watched>>
taskVars == <<task, future, code>>
vars == <<queueVars, active, timer, loop, hasMsg, curlVars, taskVars, owner>>

(* How curl ends a transfer, and the m_ErrorCode CheckSocket makes of it.  *)
Results == {"ok", "status", "error"}
ErrorCode(r) == CASE r = "ok" -> 0 [] r = "status" -> 404 [] r = "error" -> -1

(* A handle (xfer) is none before it is created and idle outside the multi *)
(* handle; in it, it is added, to be started by a timeout; open, in        *)
(* progress; readable, when its socket has the end of the answer; expired, *)
(* when a time limit is over; or its result, when a message waits.  A      *)
(* request (future) is none before RequestCDN, sent when that has pushed   *)
(* the task, signalled when it has activated the interrupt, held when it   *)
(* has returned the future, then when a callback waits for the value,      *)
(* answered when that is consumed, or dropped.                             *)
Unfinished == {h \in Handles : xfer[h] \in {"added", "open", "readable", "expired"}}
Busy == {h \in Handles : running[h] # None}

(* The loop condition of OnInterrupt; a negative limit is converted to a   *)
(* huge unsigned one.                                                      *)
HasSlot == limit <= 0 \/ Cardinality(Busy) < limit

Init ==
  /\ limit \in Limits
  /\ waiting = <<>>
  /\ running = [h \in Handles |-> None]
  /\ active = {}
  /\ timer = FALSE
  /\ loop = "start"
  /\ hasMsg = FALSE
  /\ pool = <<>>
  /\ data = [h \in Handles |-> None]
  /\ xfer = [h \in Handles |-> "none"]
  /\ watched = {}
  /\ task = [t \in Tasks |-> "none"]
  /\ future = [t \in Tasks |-> "none"]
  /\ code = [t \in Tasks |-> None]
  /\ owner = "alive"

-----------------------------------------------------------------------------
(* RequestCDN, by any thread: create the task and push it, ...             *)
RequestCDN(t) ==
  /\ owner = "alive"
  /\ future[t] = "none"
  /\ task' = [task EXCEPT ![t] = "live"]
  /\ future' = [future EXCEPT ![t] = "sent"]
  /\ waiting' = Append(waiting, t)
  /\ UNCHANGED <<limit, running, active, timer, loop, hasMsg, curlVars, code, owner>>

(* ... activate the interrupt event ...                                    *)
SignalLoop(t) ==
  /\ future[t] = "sent"
  /\ future' = [future EXCEPT ![t] = "signalled"]
  /\ active' = active \cup {"interrupt"}
  /\ UNCHANGED <<queueVars, timer, loop, hasMsg, curlVars, task, code, owner>>

(* ... and ask the task, which may be finished by now, for its future.     *)
GetFuture(t) ==
  /\ future[t] = "signalled"
  /\ future' = [future EXCEPT ![t] = "held"]
  /\ UNCHANGED <<queueVars, active, timer, loop, hasMsg, curlVars, task, code, owner>>

(* The caller attaches a callback: a value that is there is consumed.      *)
Then(t) ==
  /\ future[t] = "held"
  /\ IF task[t] = "done"
     THEN /\ future' = [future EXCEPT ![t] = "answered"]
          /\ task' = [task EXCEPT ![t] = "freed"]
     ELSE future' = [future EXCEPT ![t] = "then"] /\ UNCHANGED task
  /\ UNCHANGED <<queueVars, active, timer, loop, hasMsg, curlVars, code, owner>>

(* The caller drops the future; nobody will free the task, which the       *)
(* shared state of its own promise keeps.                                  *)
Drop(t) ==
  /\ future[t] = "held"
  /\ future' = [future EXCEPT ![t] = "dropped"]
  /\ UNCHANGED <<queueVars, active, timer, loop, hasMsg, curlVars, task, code, owner>>

(* Fault: the task is deleted with its answer.                             *)
SetValueDeletes(t) ==
  /\ future' = [future EXCEPT ![t] = IF @ = "then" THEN "answered" ELSE @]
  /\ task' = [task EXCEPT ![t] = "freed"]

(* Promise::setValue with a shared_ptr to the task.                        *)
SetValue(t) ==
  IF future[t] = "then"
  THEN /\ future' = [future EXCEPT ![t] = "answered"]
       /\ task' = [task EXCEPT ![t] = "freed"]
  ELSE task' = [task EXCEPT ![t] = "done"] /\ UNCHANGED future

-----------------------------------------------------------------------------
(* Curl and its callbacks.                                                 *)

(* OnCurlTimer: for -1, where curl wants the timer deleted, event_add      *)
(* without a time leaves a pending timer as it is.                         *)
OnCurlTimer(timeout_ms, pending) == timeout_ms # -1 \/ pending

(* Fault: a socket that curl opens gets no event.                          *)
CurlSocketCBForgets(opened, closed) == watched' = watched \ closed

(* CurlSocketCB for the sockets curl opens (a new SockInfo with its event) *)
(* and closes (RemoveSocketEvent); a changed interest replaces the event.  *)
CurlSocketCB(opened, closed) == watched' = (watched \cup opened) \ closed

(* curl_multi_socket_action ends some transfers and opens some sockets;    *)
(* curl wants a timeout as long as there is a transfer.                    *)
SocketAction(ended, opened, pending) ==
  /\ \E r \in Results :
       xfer' = [h \in Handles |-> CASE h \in ended  -> r
                                    [] h \in opened -> "open"
                                    [] OTHER        -> xfer[h]]
  /\ CurlSocketCB(opened, ended)
  /\ timer' = OnCurlTimer(IF Unfinished = ended THEN -1 ELSE 0, pending)

(* The network: a transfer ends or a limit of SetCurl (connection timeout, *)
(* low-speed time) is over.                                                *)
Network(h) ==
  /\ xfer[h] = "open"
  /\ \E s \in {"readable", "expired"} : xfer' = [xfer EXCEPT ![h] = s]
  /\ UNCHANGED <<queueVars, active, timer, loop, hasMsg, pool, data, watched, taskVars, owner>>

(* SetCurl: options of a handle for a task, which receives the data.       *)
SetCurl(h, t) == data' = [data EXCEPT ![h] = t]

(* CurlPool::Obtain: a handle of the pool, reset, or a new one.            *)
Obtain(h) ==
  IF pool # <<>>
  THEN h = Head(pool) /\ pool' = Tail(pool)
  ELSE xfer[h] = "none" /\ UNCHANGED pool

(* CurlPool::Return.                                                       *)
Return(h) == pool' = Append(pool, h)

-----------------------------------------------------------------------------
(* The thread.                                                             *)
ThreadStart ==
  /\ loop = "start"
  /\ loop' = "wait"
  /\ UNCHANGED <<queueVars, active, timer, hasMsg, curlVars, taskVars, owner>>

OnInterrupt ==
  /\ loop = "wait"
  /\ "interrupt" \in active
  /\ active' = active \ {"interrupt"}
  /\ loop' = "interrupt"
  /\ UNCHANGED <<queueVars, timer, hasMsg, curlVars, taskVars, owner>>

(* OnInterrupt: pop a task and start its transfer; adding the handle makes *)
(* curl ask for a timeout at once.                                         *)
StartTransfer(h) ==
  /\ loop = "interrupt"
  /\ HasSlot
  /\ waiting # <<>>
  /\ waiting' = Tail(waiting)
  /\ Obtain(h)
  /\ SetCurl(h, Head(waiting))
  /\ xfer' = [xfer EXCEPT ![h] = "added"]
  /\ timer' = OnCurlTimer(0, timer)
  /\ running' = [running EXCEPT ![h] = Head(waiting)]
  /\ UNCHANGED <<limit, active, loop, hasMsg, watched, taskVars, owner>>

(* OnInterrupt: no slot or no task is left.                                *)
InterruptDone ==
  /\ loop = "interrupt"
  /\ ~(HasSlot /\ waiting # <<>>)
  /\ loop' = "wait"
  /\ UNCHANGED <<queueVars, active, timer, hasMsg, curlVars, taskVars, owner>>

(* OnTimer: transfers that were added start or fail, expired ones fail.    *)
OnTimer ==
  /\ loop = "wait"
  /\ timer
  /\ \E opened \in SUBSET {h \in Handles : xfer[h] = "added"} :
       SocketAction({h \in Handles : xfer[h] \in {"added", "expired"}} \ opened,
                    opened, FALSE)
  /\ loop' = "check"
  /\ UNCHANGED <<queueVars, active, hasMsg, pool, data, taskVars, owner>>

(* OnSocketEvent.                                                          *)
OnSocketEvent(h) ==
  /\ loop = "wait"
  /\ active = {}
  /\ h \in watched
  /\ xfer[h] = "readable"
  /\ SocketAction({h}, {}, timer)
  /\ loop' = "check"
  /\ UNCHANGED <<queueVars, active, hasMsg, pool, data, taskVars, owner>>

(* CheckSocket reads a message: the task gets its result and its promise   *)
(* the value, the handle leaves the multi handle and goes to the pool.     *)
CheckMessage(h) ==
  /\ loop = "check"
  /\ xfer[h] \in Results
  /\ code' = [code EXCEPT ![running[h]] = ErrorCode(xfer[h])]
  /\ SetValue(running[h])
  /\ running' = [running EXCEPT ![h] = None]
  /\ xfer' = [xfer EXCEPT ![h] = "idle"]
  /\ Return(h)
  /\ hasMsg' = TRUE
  /\ UNCHANGED <<limit, waiting, active, timer, loop, data, watched, owner>>

(* CheckSocket: no message is left; slots may have become free.            *)
CheckDone ==
  /\ loop = "check"
  /\ \A h \in Handles : xfer[h] \notin Results
  /\ loop' = "wait"
  /\ active' = IF hasMsg THEN active \cup {"interrupt"} ELSE active
  /\ hasMsg' = FALSE
  /\ UNCHANGED <<queueVars, timer, curlVars, taskVars, owner>>

OnExit ==
  /\ loop = "wait"
  /\ "exit" \in active
  /\ loop' = "break"
  /\ active' = active \ {"exit"}
  /\ UNCHANGED <<queueVars, timer, hasMsg, curlVars, taskVars, owner>>

(* ThreadProc: the dispatch has returned; curl_multi_cleanup closes the    *)
(* sockets, the handles of unfinished transfers are lost.                  *)
ThreadEnd ==
  /\ loop = "break"
  /\ loop' = "ended"
  /\ CurlSocketCB({}, watched)
  /\ UNCHANGED <<queueVars, active, timer, hasMsg, pool, data, xfer, taskVars, owner>>

-----------------------------------------------------------------------------
(* ~DownloaderEventCurl: activate the exit event ...                       *)
Destroy ==
  /\ owner = "alive"
  /\ \A t \in Tasks : future[t] \notin {"sent", "signalled"}
  /\ owner' = "joining"
  /\ active' = active \cup {"exit"}
  /\ UNCHANGED <<queueVars, timer, loop, hasMsg, curlVars, taskVars>>

(* ... join the thread, then delete the queue and the events.              *)
Join ==
  /\ owner = "joining"
  /\ loop = "ended"
  /\ owner' = "gone"
  /\ waiting' = <<>>
  /\ active' = {}
  /\ timer' = FALSE
  /\ UNCHANGED <<limit, running, loop, hasMsg, curlVars, taskVars>>

Caller(t) == RequestCDN(t) \/ SignalLoop(t) \/ GetFuture(t) \/ Then(t) \/ Drop(t)

Callback ==
  \/ \E h \in Handles : StartTransfer(h) \/ CheckMessage(h)
  \/ InterruptDone \/ CheckDone

Next ==
  \/ \E t \in Tasks : Caller(t)
  \/ \E h \in Handles : Network(h) \/ OnSocketEvent(h)
  \/ ThreadStart \/ OnInterrupt \/ Callback \/ OnTimer \/ OnExit \/ ThreadEnd
  \/ Destroy \/ Join

Spec == Init /\ [][Next]_vars

(* Callers finish the calls they began, the thread runs, the limits that   *)
(* SetCurl sets end every transfer, and the loop serves the active events  *)
(* of a priority in turn.                                                  *)
Fairness ==
  /\ \A t \in Tasks : WF_vars(SignalLoop(t)) /\ WF_vars(GetFuture(t))
  /\ WF_vars(ThreadStart) /\ WF_vars(Callback) /\ WF_vars(ThreadEnd) /\ WF_vars(Join)
  /\ SF_vars(OnInterrupt) /\ SF_vars(OnTimer) /\ SF_vars(OnExit)
  /\ \A h \in Handles : WF_vars(Network(h)) /\ SF_vars(OnSocketEvent(h))

FairSpec == Spec /\ Fairness

-----------------------------------------------------------------------------
(* Properties.                                                             *)
(* What an unlucky order of request, answer and destruction could break: a *)
(* task is alive while RequestCDN is between sendDownloadTask and          *)
(* getFuture, while it waits, and while curl writes into it; it is run by  *)
(* one handle, which is not in the pool and has no other task's buffers.   *)
TaskOutlivesUse ==
  /\ \A t \in Tasks : future[t] = "signalled" => task[t] \in {"live", "done"}
  /\ \A i \in 1..Len(waiting) : /\ task[waiting[i]] = "live"
                                /\ waiting[i] \notin {running[h] : h \in Handles}
  /\ \A h \in Busy : /\ data[h] = running[h] /\ task[running[h]] = "live"
                     /\ h \notin {pool[i] : i \in 1..Len(pool)}
                     /\ \A g \in Busy : running[g] = running[h] => g = h
  /\ \A h \in Handles : xfer[h] \notin {"none", "idle"} => h \in Busy

(* Every request gets its answer, however interrupts, timers, sockets and  *)
(* slots meet; only the destruction of the downloader leaves requests      *)
(* without one, for ever: their promises are never broken.                 *)
EveryRequestAnswered ==
  \A t \in Tasks : future[t] = "sent" ~> code[t] # None \/ owner # "alive"
=============================================================================
