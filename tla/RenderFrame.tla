---------------------------- MODULE RenderFrame ----------------------------
(***************************************************************************)
(* The frame thread and its dispatcher.  RenderFrame is a FrameExecutor,   *)
(* whose thread drains the task queue of FrameRunner, runs the functions   *)
(* given to add and then OnFrame, once a frame, and an EventDispatcher,    *)
(* which is the m_Whom of the tasks that ExecutorService::PostRenderFrame  *)
(* posts: it calls the event handlers that subscribed to the class of the  *)
(* message, then those of the category of the task.  The main thread       *)
(* starts it, creates ReactService, whose handler subscribes, and ends     *)
(* both in the opposite order (ServiceMgr::ShutDown).                      *)
(*                                                                         *)
(* A list that is walked holds a position per walk, as its iterator does:  *)
(* erasing the element an iterator stands on leaves it dangling, erasing   *)
(* from the class map may also take the element that ends another walk's   *)
(* equal_range.  A Task that another executor created goes back to it, and *)
(* the worker's OnFinish walks the same lists, without a lock, while the   *)
(* frame thread goes on: what it reads there while the frame or the main   *)
(* thread changes it is undefined.  The m_SysAction of a new Task is taken *)
(* to be SA_NONE (see TaskThread); the event executors that get their      *)
(* tasks back are in TaskThread, OnFrame is RunOnce of ServiceMgr.         *)
(* Undefined behaviour sets broken, and the model stops.                   *)
(***************************************************************************)
EXTENDS Naturals, Sequences, FiniteSets, SequencesExt

CONSTANTS
  Tasks,      \* Task objects
  Funcs,      \* functions given to FrameExecutor::add
  Handlers,   \* event handlers
  React,      \* the handler of ReactService
  Filter,     \* of each handler: the classes of GetEventFilterClassID or, when
              \* there is none, its GetCategory()
  Messages,   \* what is posted: [class, category]
  Capacity,   \* of m_WaitingTasks; 2048 in the code
  Null        \* the class of a message that is a null pointer

Categories == {"SYSTEM", "USER", "ALL"}
Lists == (UNION {Filter[h] : h \in Handlers}) \cup {m.class : m \in Messages} \cup Categories

ASSUME RenderFrameAssumption ==
  /\ React \in Handlers
  /\ \A h \in Handlers : Filter[h] # {}
  /\ \A h \in Handlers : Filter[h] \cap Categories # {} => \E c \in Categories : Filter[h] = {c}
  /\ \A m \in Messages : m.category \in Categories /\ m.class \notin Categories
  /\ Null \notin Messages
  /\ Capacity \in Nat \ {0}

VARIABLES
  contract, \* the users keep to MayPost, MayEnd, MayErase and MaySync
  main,     \* how far the main thread is
  frame,    \* where the frame thread is
  stack,    \* its calls of EventDispatcher::Handle, the innermost last
  queue,    \* m_WaitingTasks
  msg,      \* message and category of each Task, Null: the Task is free
  home,     \* the thread that created it: main, frame or worker
  dropped,  \* Tasks that found the queue full
  returned, \* Tasks handed to the thread that created them, to be finished and
            \* released there
  finishing, \* its calls of EventDispatcher::OnFinish, one at most for a Task
  func,     \* the functions: none, queued, run
  subs,     \* m_EventHandlers and m_EventSubscribers, a list per class or category
  freed,    \* deleted handlers
  broken    \* undefined behaviour has occurred

taskVars == <<queue, msg, home, dropped, returned, finishing>>
subVars == <<subs, freed>>
vars == <<contract, main, frame, stack, taskVars, func, subVars, broken>>

Mains == <<"boot", "started", "running", "closing", "joining", "ended">>
Frames ==
  {"none", "idle", "drain",
   "walk",  \* in EventDispatcher::Handle, between two handlers
   "in",    \* in EventHandler::Handle
   "out",   \* there, after the one thing a handler does here
   "sync",  \* in dispatch_sync
   "finish", \* in OnFinish, of a Task of its own
   "funcs", "exit", "ended"}

(* The lists a Task goes through.                                          *)
Route(m) ==
  IF m.category # "ALL" THEN <<m.class, m.category>> ELSE <<m.class, "SYSTEM", "USER", "ALL">>

(* A call of EventDispatcher::Handle: lists still to walk, the position in *)
(* the first of them, the handlers that are to be called, and whether the  *)
(* iterator dangles.                                                       *)
Walk(t, m, b) ==
  LET route == Route(m)
  IN [task |-> t, broadcast |-> b, route |-> route, pos |-> 1, dangling |-> FALSE,
      due |-> {h \in Handlers : \E i \in 1..Len(route) : h \in Range(subs[route[i]])}]

Top == stack[Len(stack)]
Pop == SubSeq(stack, 1, Len(stack) - 1)
Live == {t \in Tasks : msg[t] # Null}
Free(t) == msg[t] = Null /\ t \notin Range(queue)

Init ==
  /\ contract \in BOOLEAN
  /\ main = "boot"
  /\ frame = "none"
  /\ stack = <<>>
  /\ queue = <<>>
  /\ msg = [t \in Tasks |-> Null]
  /\ home = [t \in Tasks |-> "main"]
  /\ dropped = {} /\ returned = {} /\ finishing = {}
  /\ func = [f \in Funcs |-> "none"]
  /\ subs = [l \in Lists |-> <<>>]
  /\ freed = {}
  /\ broken = FALSE

(* The users' part: they post while all services are up and end them when  *)
(* nothing is left to do; messages are not null; a handler erases neither  *)
(* the element a walk stands on nor, during a class walk, a class          *)
(* subscription, and nothing while a worker has a Task to finish; it waits *)
(* for the main thread only while that serves its queue.                   *)
MayPost(m) == contract => main = "running" /\ m.class # Null
MayEnd == contract => Live = {} /\ \A f \in Funcs : func[f] # "queued"
MaySync == contract => main = "running"
AtClass(w) == w.route # <<>> /\ Head(w.route) \notin Categories
StandsOn(w, h) ==
  /\ w.route # <<>> /\ w.pos <= Len(subs[Head(w.route)])
  /\ subs[Head(w.route)][w.pos] = h
MayErase(h) ==
  contract =>
    /\ returned = {}
    /\ \A i \in 1..Len(stack) :
         ~StandsOn(stack[i], h) /\ (AtClass(stack[i]) => Filter[h] \subseteq Categories)

-----------------------------------------------------------------------------
(* SendTaskAsync to the RenderFrame (PostRenderFrame): a Task with class   *)
(* and category of the message goes to FrameRunner::PostTask, which does   *)
(* not look whether push succeeds.  m_Runnable is null after the thread.   *)
SendTaskAsync(t, m, who) ==
  /\ Free(t)
  /\ MayPost(m)
  /\ msg' = [msg EXCEPT ![t] = m]
  /\ home' = [home EXCEPT ![t] = who]
  /\ IF Len(queue) < Capacity
     THEN queue' = Append(queue, t) /\ UNCHANGED dropped
     ELSE dropped' = dropped \cup {t} /\ UNCHANGED queue
  /\ broken' = (frame = "ended")
  /\ UNCHANGED <<returned, finishing>>

Post(t, m, who) ==
  /\ main \notin {"boot", "ended"}
  /\ who = "main" => main = "running"
  /\ SendTaskAsync(t, m, who)
  /\ UNCHANGED <<contract, main, frame, stack, func, subVars>>

(* FrameExecutor::add.                                                     *)
AddFunc(f) ==
  /\ main \notin {"boot", "ended"}
  /\ contract => main = "running"
  /\ func[f] = "none"
  /\ func' = [func EXCEPT ![f] = "queued"]
  /\ UNCHANGED <<contract, main, frame, stack, taskVars, subVars, broken>>

(* TaskAllocator::Release.                                                 *)
Release(t) == msg' = [msg EXCEPT ![t] = Null]

(* The thread that created Task t finishes it: a worker at any time, the   *)
(* frame thread between Handle and the next Task.  EventDispatcher::       *)
(* OnFinish walks the lists of Handle, calls OnFinish of the handlers ...  *)
Finisher(t) == home[t] = "frame" => frame = "finish"

OnFinish(t) ==
  /\ t \in returned
  /\ Finisher(t)
  /\ \A w \in finishing : w.task # t
  /\ finishing' = finishing \cup
       {[task |-> t, route |-> Route(msg[t]), pos |-> 1, dangling |-> FALSE]}
  /\ UNCHANGED <<contract, main, frame, stack, queue, msg, home, dropped, returned, func, subVars, broken>>

FinishNext(w) ==
  /\ w.route # <<>>
  /\ Finisher(w.task)
  /\ LET L == subs[Head(w.route)] IN
       /\ broken' = (w.dangling \/ (w.pos <= Len(L) /\ L[w.pos] \in freed))
       /\ finishing' = (finishing \ {w}) \cup
            {IF w.pos <= Len(L) THEN [w EXCEPT !.pos = @ + 1]
             ELSE [w EXCEPT !.route = Tail(@), !.pos = 1]}
  /\ UNCHANGED <<contract, main, frame, stack, queue, msg, home, dropped, returned, func, subVars>>

(* ... and returns: the Task is released.                                  *)
ReleaseReturned(w) ==
  /\ w.route = <<>>
  /\ Finisher(w.task)
  /\ finishing' = finishing \ {w}
  /\ returned' = returned \ {w.task}
  /\ Release(w.task)
  /\ frame' = IF home[w.task] = "frame" THEN "drain" ELSE frame
  /\ UNCHANGED <<contract, main, stack, queue, home, dropped, func, subVars, broken>>

-----------------------------------------------------------------------------
(* Subscriptions.                                                          *)
Subscribe(h) ==
  /\ subs' = [l \in Lists |-> IF l \in Filter[h] THEN Append(subs[l], h) ELSE subs[l]]
  /\ stack' = [i \in 1..Len(stack) |->
       IF Filter[h] \cap Range(stack[i].route) = {} THEN stack[i]
       ELSE [stack[i] EXCEPT !.due = @ \cup {h}]]

(* Fault: the walk counts positions instead of following its iterator.     *)
ErasedByIndex(w, h) == [w EXCEPT !.due = @ \ {h}]

(* A walk after h is erased: its position moves with its element.          *)
Moved(w, h) ==
  IF w.route = <<>> \/ Head(w.route) \notin Filter[h] \/ h \notin Range(subs[Head(w.route)])
  THEN w
  ELSE [w EXCEPT !.dangling = @ \/ StandsOn(w, h),
                 !.pos = IF \E i \in 1..(w.pos - 1) : subs[Head(w.route)][i] = h
                         THEN @ - 1 ELSE @]

Erased(w, h) == [Moved(w, h) EXCEPT !.due = @ \ {h}]

(* A list without h, which is in it once at most.                          *)
Without(s, h) ==
  IF h \in Range(s) THEN RemoveAt(s, CHOOSE i \in 1..Len(s) : s[i] = h) ELSE s

(* The class map is one object for all its walks; a category's list is     *)
(* read by a worker while the frame thread changes it.                     *)
Disturbed(h) ==
  \/ /\ ~(Filter[h] \subseteq Categories)
     /\ (\E i \in 1..Len(stack) : AtClass(stack[i])) \/ (\E w \in finishing : AtClass(w))
  \/ \E w \in finishing : w.route # <<>> /\ Head(w.route) \in Filter[h]

DeSubscribe(h) ==
  /\ subs' = [l \in Lists |-> IF l \in Filter[h] THEN Without(subs[l], h) ELSE subs[l]]
  /\ stack' = [i \in 1..Len(stack) |-> Erased(stack[i], h)]
  /\ finishing' = {Moved(w, h) : w \in finishing}
  /\ broken' \in IF Disturbed(h) THEN BOOLEAN ELSE {FALSE}

-----------------------------------------------------------------------------
(* The frame thread.                                                       *)

(* FrameExecutor::OnThreadRun, when m_CurAccuTime exceeds a frame's time;  *)
(* else it sleeps.                                                         *)
BeginFrame ==
  /\ frame = "idle"
  /\ main \notin {"joining", "ended"}
  /\ frame' = "drain"
  /\ UNCHANGED <<contract, main, stack, taskVars, func, subVars, broken>>

(* FrameRunner::DoRun: pop a Task, call Handle of the dispatcher.          *)
Handle ==
  /\ frame = "drain"
  /\ queue # <<>>
  /\ queue' = Tail(queue)
  /\ LET t == Head(queue) IN
       IF msg[t].class = Null
       THEN broken' = TRUE /\ UNCHANGED <<frame, stack>>
       ELSE frame' = "walk" /\ stack' = <<Walk(t, msg[t], FALSE)>> /\ UNCHANGED broken
  /\ UNCHANGED <<contract, main, msg, home, dropped, returned, finishing, func, subVars>>

(* EventDispatcher::Handle: call the handler at the iterator ...           *)
CallHandler ==
  /\ frame = "walk"
  /\ Top.route # <<>>
  /\ Top.pos <= Len(subs[Head(Top.route)])
  /\ LET h == subs[Head(Top.route)][Top.pos] IN
       /\ stack' = [stack EXCEPT ![Len(stack)].due = @ \ {h}]
       /\ broken' = (h \in freed)
  /\ frame' = "in"
  /\ UNCHANGED <<contract, main, taskVars, func, subVars>>

(* ... and go to the next one when it returns, or to the next list.        *)
HandlerReturns ==
  /\ frame \in {"in", "out"}
  /\ broken' = Top.dangling
  /\ stack' = [stack EXCEPT ![Len(stack)].pos = @ + 1]
  /\ frame' = "walk"
  /\ UNCHANGED <<contract, main, taskVars, func, subVars>>

NextList ==
  /\ frame = "walk"
  /\ Top.route # <<>>
  /\ Top.pos > Len(subs[Head(Top.route)])
  /\ stack' = [stack EXCEPT ![Len(stack)] = [Top EXCEPT !.route = Tail(@), !.pos = 1]]
  /\ UNCHANGED <<contract, main, frame, taskVars, func, subVars, broken>>

(* A handler takes a subscription away, sends a Task, broadcasts one,      *)
(* which is handled at once, or runs callJavaScript on the main queue.     *)
HandlerErases(h) ==
  /\ frame = "in"
  /\ MayErase(h)
  /\ \E l \in Filter[h] : h \in Range(subs[l])
  /\ DeSubscribe(h)
  /\ frame' = "out"
  /\ UNCHANGED <<contract, main, queue, msg, home, dropped, returned, func, freed>>

HandlerSends(t, m) ==
  /\ frame = "in"
  /\ SendTaskAsync(t, m, "frame")
  /\ frame' = "out"
  /\ UNCHANGED <<contract, main, stack, func, subVars>>

BroadcastTask(t, m) ==
  /\ frame = "in"
  /\ Free(t)
  /\ contract => m.class # Null
  /\ msg' = [msg EXCEPT ![t] = m]
  /\ home' = [home EXCEPT ![t] = "frame"]
  /\ IF m.class = Null
     THEN broken' = TRUE /\ UNCHANGED <<frame, stack>>
     ELSE /\ frame' = "walk"
          /\ stack' = Append(stack, Walk(t, m, TRUE))
          /\ UNCHANGED broken
  /\ UNCHANGED <<contract, main, queue, dropped, returned, finishing, func, subVars>>

CallJavaScript ==
  /\ frame = "in"
  /\ MaySync
  /\ frame' = "sync"
  /\ UNCHANGED <<contract, main, stack, taskVars, func, subVars, broken>>

(* The main thread runs the block while it serves its queue.               *)
MainServes ==
  /\ frame = "sync"
  /\ main = "running"
  /\ frame' = "out"
  /\ UNCHANGED <<contract, main, stack, taskVars, func, subVars, broken>>

(* Handle has returned to BroadcastTask, which releases the Task.          *)
EndBroadcast ==
  /\ frame = "walk"
  /\ Top.route = <<>>
  /\ Top.broadcast
  /\ Release(Top.task)
  /\ stack' = Pop
  /\ frame' = "out"
  /\ UNCHANGED <<contract, main, queue, home, dropped, returned, finishing, func, subVars, broken>>

(* Fault: a Task of another executor is released here too.                 *)
EndHandleReleases ==
  /\ frame = "walk" /\ Top.route = <<>> /\ ~Top.broadcast
  /\ stack' = Pop
  /\ frame' = IF home[Top.task] = "frame" THEN "finish" ELSE "drain"
  /\ returned' = IF home[Top.task] # "main" THEN returned \cup {Top.task} ELSE returned
  /\ Release(Top.task)
  /\ UNCHANGED <<contract, main, queue, home, dropped, finishing, func, subVars, broken>>

(* Handle has returned to DoRun: the Task goes back to the executor that   *)
(* created it, is finished here when it is the frame's own, or released.   *)
EndHandle ==
  /\ frame = "walk"
  /\ Top.route = <<>>
  /\ ~Top.broadcast
  /\ stack' = Pop
  /\ frame' = IF home[Top.task] = "frame" THEN "finish" ELSE "drain"
  /\ IF home[Top.task] = "main"
     THEN Release(Top.task) /\ UNCHANGED returned
     ELSE returned' = returned \cup {Top.task} /\ UNCHANGED msg
  /\ UNCHANGED <<contract, main, queue, home, dropped, finishing, func, subVars, broken>>

(* DoRun finds the queue empty.                                            *)
EndDrain ==
  /\ frame = "drain"
  /\ queue = <<>>
  /\ frame' = "funcs"
  /\ UNCHANGED <<contract, main, stack, taskVars, func, subVars, broken>>

(* ManualExecutor::advance runs the functions; OnFrame is not modelled.    *)
RunFuncs ==
  /\ frame = "funcs"
  /\ func' = [f \in Funcs |-> IF func[f] = "queued" THEN "run" ELSE func[f]]
  /\ frame' = "idle"
  /\ UNCHANGED <<contract, main, stack, taskVars, subVars, broken>>

(* Fault: m_ThreadExit is looked at only when a Task waits.                *)
ThreadExitWithWork ==
  /\ frame = "idle"
  /\ main = "joining"
  /\ queue # <<>>
  /\ frame' = "exit"
  /\ UNCHANGED <<contract, main, stack, taskVars, func, subVars, broken>>

(* ThreadRun sees m_ThreadExit.                                            *)
ThreadExit ==
  /\ frame = "idle"
  /\ main = "joining"
  /\ frame' = "exit"
  /\ UNCHANGED <<contract, main, stack, taskVars, func, subVars, broken>>

(* Fault: the destructor's waitingTask is not initialised.                 *)
DestroyRunnerUnset ==
  /\ frame = "exit"
  /\ frame' = "ended"
  /\ queue' = <<>>
  /\ msg' = [t \in Tasks |-> IF t \in Range(queue) THEN Null ELSE msg[t]]
  /\ broken' \in BOOLEAN
  /\ UNCHANGED <<contract, main, stack, home, dropped, returned, finishing, func, subVars>>

(* OnThreadExit deletes the FrameRunner: the destructor keeps the last     *)
(* Task it popped and releases it again when the queue is empty, for ever. *)
DestroyRunner ==
  /\ frame = "exit"
  /\ frame' = "ended"
  /\ queue' = <<>>
  /\ msg' = [t \in Tasks |-> IF t \in Range(queue) THEN Null ELSE msg[t]]
  /\ broken' = (queue # <<>>)
  /\ UNCHANGED <<contract, main, stack, home, dropped, returned, finishing, func, subVars>>

-----------------------------------------------------------------------------
(* The main thread.                                                        *)

(* ExecutorService::OnInit starts the frame thread; other handlers may be  *)
(* subscribed before (Subscribe0).                                         *)
StartFrame ==
  /\ main = "boot"
  /\ main' = "started"
  /\ frame' = "idle"
  /\ UNCHANGED <<contract, stack, taskVars, func, subVars, broken>>

Subscribe0(h) ==
  /\ main = "boot"
  /\ h # React
  /\ \A l \in Filter[h] : h \notin Range(subs[l])
  /\ Subscribe(h)
  /\ UNCHANGED <<contract, main, frame, taskVars, func, freed, broken>>

(* ReactService::OnInit: AcquireEventHandler subscribes, without a lock.   *)
InitReact ==
  /\ main = "started"
  /\ main' = "running"
  /\ Subscribe(React)
  /\ broken' \in IF stack = <<>> /\ finishing = {} THEN {FALSE} ELSE BOOLEAN
  /\ UNCHANGED <<contract, frame, taskVars, func, freed>>

(* ShutDown deletes ReactService and its handler, which stays subscribed.  *)
DestroyReact ==
  /\ main = "running"
  /\ MayEnd
  /\ main' = "closing"
  /\ freed' = freed \cup {React}
  /\ UNCHANGED <<contract, frame, stack, taskVars, func, subs, broken>>

(* ExecutorService::OnDestroy: Stop sets m_ThreadExit and joins.           *)
StopFrame ==
  /\ main = "closing"
  /\ main' = "joining"
  /\ UNCHANGED <<contract, frame, stack, taskVars, func, subVars, broken>>

Join ==
  /\ main = "joining"
  /\ frame = "ended"
  /\ main' = "ended"
  /\ UNCHANGED <<contract, frame, stack, taskVars, func, subVars, broken>>

-----------------------------------------------------------------------------
FrameStep ==
  \/ Handle \/ CallHandler \/ HandlerReturns \/ NextList
  \/ EndBroadcast \/ EndHandle \/ EndDrain \/ RunFuncs \/ DestroyRunner

HandlerStep ==
  \/ \E h \in Handlers : HandlerErases(h)
  \/ \E t \in Tasks, m \in Messages : HandlerSends(t, m) \/ BroadcastTask(t, m)
  \/ CallJavaScript

Finishing(t) ==
  OnFinish(t) \/ \E w \in finishing : w.task = t /\ (FinishNext(w) \/ ReleaseReturned(w))

MainStep == StartFrame \/ InitReact \/ DestroyReact \/ StopFrame \/ Join

Next ==
  /\ ~broken
  /\ \/ \E t \in Tasks, m \in Messages, who \in {"main", "worker"} : Post(t, m, who)
     \/ \E f \in Funcs : AddFunc(f)
     \/ \E t \in Tasks : Finishing(t)
     \/ \E h \in Handlers : Subscribe0(h)
     \/ BeginFrame \/ ThreadExit \/ FrameStep \/ HandlerStep \/ MainServes \/ MainStep

Spec == Init /\ [][Next]_vars

(* The frame thread and the workers run, frames come round, a handler      *)
(* returns however often it sends a Task, and the main thread serves its   *)
(* queue and finishes the stop it began.                                   *)
Fairness ==
  /\ WF_vars(~broken /\ (FrameStep \/ BeginFrame \/ ThreadExit))
  /\ SF_vars(~broken /\ RunFuncs)
  /\ WF_vars(~broken /\ MainServes)
  /\ WF_vars(~broken /\ (StopFrame \/ Join))
  /\ \A t \in Tasks : WF_vars(~broken /\ Finishing(t))

FairSpec == Spec /\ Fairness

-----------------------------------------------------------------------------
(* Properties.                                                             *)

(* EventDispatcher::Handle calls every handler that was subscribed for the *)
(* task when the call began, once, unless an earlier one took it away:     *)
(* also when handlers erase each other and broadcast in the middle of the  *)
(* walk.                                                                   *)
DeliveredOnce ==
  ~broken =>
    \A i \in 1..Len(stack) :
      LET w == stack[i] IN
        /\ w.route = <<>> => w.due = {}
        /\ frame = "walk" /\ i = Len(stack) /\ w.route # <<>> =>
             \A j \in w.pos..Len(subs[Head(w.route)]) : subs[Head(w.route)][j] \in w.due

(* A Task that was sent is in one place until it is released: in the       *)
(* queue, in a walk, on its way back to its worker, or lost to a queue     *)
(* that was full.                                                          *)
NothingLost ==
  ~broken =>
    LET walked == {stack[i].task : i \in 1..Len(stack)} IN
      /\ Live = Range(queue) \cup walked \cup returned \cup dropped
      /\ Cardinality(Live) = Len(queue) + Len(stack) + Cardinality(returned)
                             + Cardinality(dropped)

(* The rules MayPost, MayEnd, MayErase and MaySync are enough: with them   *)
(* no handler is called after its service has gone, no iterator dangles,   *)
(* no message is null and the destructor of FrameRunner finds no Task.     *)
ContractSuffices == contract => ~broken

(* With the contract the stop of the frame thread returns: it waits        *)
(* neither for a frame that waits for the main thread nor for the          *)
(* destructor of FrameRunner.                                              *)
StopReturns == contract /\ main = "closing" ~> main = "ended"
=============================================================================
