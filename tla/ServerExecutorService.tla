----------------------- MODULE ServerExecutorService -----------------------
(***************************************************************************)
(* The server's executor service (Server/ServerExecutorService): an        *)
(* acceptor pool of one thread, which owns the listening socket, and the   *)
(* pool m_IOTasksExecutor of IO_WORKER_COUNT threads, each of which        *)
(* registers an accept callback on the acceptor's thread.  The main thread *)
(* constructs the service, calls StartAccpet and at the end OnDestroy;     *)
(* clients add functions to m_IOTasksExecutor.                             *)
(***************************************************************************)
EXTENDS IOThreadPool

CONSTANTS
  IO, Acceptor,     \* the two pools
  IO_WORKER_COUNT,
  Funcs             \* functions of clients

ASSUME ServerAssumption ==
  /\ Pools = {IO, Acceptor} /\ IO # Acceptor
  /\ IO_WORKER_COUNT \in Nat
  /\ Funcs \cap {"start", "accept", "callback", "destroy"} = {}

VARIABLES
  mainAt,      \* where the main thread is
  posted,      \* barriers that are posted: "start", "destroy"
  acceptThread,\* the thread whose event base the socket is attached to
  callbacks,   \* I/O threads with an accept callback on the socket
  latch,       \* the count of StartAccpet's latch
  waiting,     \* I/O threads that wait for the acceptor's thread
  added,       \* functions that clients have added
  ran          \* the thread that ran each of them

handshakeVars == <<posted, acceptThread, callbacks, latch, waiting, added, ran>>
serviceVars == <<mainAt, handshakeVars>>
serverVars == <<ioVars, serviceVars>>

NoServer ==
  /\ IOInit
  /\ posted = {} /\ acceptThread = 0 /\ callbacks = <<>>
  /\ latch = IO_WORKER_COUNT
  /\ waiting = {} /\ added = {} /\ ran = [f \in Funcs |-> 0]

ServerInit == mainAt = "construct" /\ NoServer

(* A function that is added to an event base, about I/O thread j or none.   *)
Func(name) == <<name, 0>>
CallbackFunc(j) == <<"callback", j>>

MainGoes(from, to) == owner = Idle /\ mainAt = from /\ mainAt' = to

-----------------------------------------------------------------------------
(* The constructor.                                                         *)
Construct ==
  /\ MainGoes("construct", "constructed")
  /\ SetMaxThread(IO, IO_WORKER_COUNT)
  /\ UNCHANGED <<callVars, handshakeVars>>

(* StartAccpet.                                                             *)
StartAccpet ==
  /\ MainGoes("constructed", "start")
  /\ SetMaxThread(Acceptor, 1)
  /\ UNCHANGED <<callVars, handshakeVars>>

AddStartFunc ==
  /\ MainGoes("start", "barrier")
  /\ AddFrom(Acceptor, Func("start"))
  /\ UNCHANGED <<addVars, handshakeVars>>

(* The barrier of the start function, then one function per I/O thread.     *)
AddAccept ==
  /\ MainGoes("barrier", "latch")
  /\ "start" \in posted
  /\ AddAll(IO, Func("accept"))
  /\ UNCHANGED <<addVars, handshakeVars>>

LatchWait ==
  /\ MainGoes("latch", "serving")
  /\ latch = 0
  /\ UNCHANGED <<ioVars, handshakeVars>>

(* OnDestroy, of a service whose StartAccpet has been called or not.        *)
AddDestroyFunc ==
  /\ \/ MainGoes("constructed", "destroying")
     \/ MainGoes("serving", "destroying")
  /\ AddFrom(Acceptor, Func("destroy"))
  /\ UNCHANGED <<addVars, handshakeVars>>

StopIO ==
  /\ MainGoes("destroying", "stopIO")
  /\ "destroy" \in posted
  /\ StopAllThread(IO)
  /\ UNCHANGED <<callVars, handshakeVars>>

StopAcceptor ==
  /\ MainGoes("stopIO", "stopAcceptor")
  /\ StopAllThread(Acceptor)
  /\ UNCHANGED <<callVars, handshakeVars>>

MainThread ==
  Construct \/ StartAccpet \/ AddStartFunc \/ AddAccept \/ LatchWait
    \/ AddDestroyFunc \/ StopIO \/ StopAcceptor

-----------------------------------------------------------------------------
(* The functions, on the thread whose event base runs them.                 *)
Consumed(i) == events' = [events EXCEPT ![i] = Tail(@)]

(* startFunc: the socket listens on this thread.                            *)
StartFunc(i) ==
  /\ Runs(i, Func("start")) /\ Consumed(i)
  /\ acceptThread' = i
  /\ posted' = posted \cup {"start"}
  /\ UNCHANGED <<callbacks, latch, waiting, ran>>

(* The function at the head of i's queue becomes one of the socket's thread. *)
ToSocket(i) ==
  [[events EXCEPT ![i] = Tail(@)] EXCEPT ![acceptThread] = Append(@, CallbackFunc(i))]

(* Fault: the latch counts before the callback is registered.               *)
HandOverCounts(i) ==
  /\ Runs(i, Func("accept")) /\ i \notin waiting
  /\ events' = ToSocket(i)
  /\ waiting' = waiting \cup {i}
  /\ latch' = latch - 1
  /\ UNCHANGED <<posted, acceptThread, callbacks, ran>>

(* The function of addAll: it hands the registration over to the event base *)
(* of the socket and waits.                                                 *)
HandOver(i) ==
  /\ Runs(i, Func("accept")) /\ i \notin waiting
  /\ events' = ToSocket(i)
  /\ waiting' = waiting \cup {i}
  /\ UNCHANGED <<posted, acceptThread, callbacks, latch, ran>>

(* addAcceptCallback on the thread of the socket, for I/O thread j.         *)
AddAcceptCallback(i, j) ==
  /\ Runs(i, CallbackFunc(j)) /\ Consumed(i)
  /\ callbacks' = Append(callbacks, j)
  /\ latch' = latch - 1
  /\ waiting' = waiting \ {j}
  /\ UNCHANGED <<posted, acceptThread, ran>>

(* destroyFunc: the sockets go, with their callbacks.                       *)
DestroyFunc(i) ==
  /\ Runs(i, Func("destroy")) /\ Consumed(i)
  /\ callbacks' = <<>> /\ acceptThread' = 0
  /\ posted' = posted \cup {"destroy"}
  /\ UNCHANGED <<latch, waiting, ran>>

ClientFunc(i) ==
  \E f \in Funcs :
    /\ Runs(i, Func(f)) /\ Consumed(i)
    /\ ran' = [ran EXCEPT ![f] = i]
    /\ UNCHANGED <<posted, acceptThread, callbacks, latch, waiting>>

RunFunc(i) ==
  /\ i \notin waiting
  /\ \/ StartFunc(i)
     \/ HandOver(i)
     \/ \E j \in Threads : AddAcceptCallback(i, j)
     \/ DestroyFunc(i)
     \/ ClientFunc(i)
  /\ UNCHANGED <<poolVars, at, terminate, owner, lost, overlap, destroyedUsed, mainAt, added>>

(* add by a client, or by a function that runs on an I/O thread.            *)
ClientAdd(f) ==
  /\ f \notin added
  /\ added' = added \cup {f}
  /\ \/ AddFrom(IO, Func(f))
     \/ \E i \in ToSet(threadList[IO]) : at[i] = "loop" /\ i \notin waiting /\ AddHere(i, Func(f))
  /\ UNCHANGED <<addVars, mainAt, posted, acceptThread, callbacks, latch, waiting, ran>>

ServerNext ==
  /\ ~destroyedUsed
  /\ \/ MainThread
     \/ PoolCall /\ UNCHANGED serviceVars
     \/ \E i \in Threads : i \notin waiting /\ IOThread(i) /\ UNCHANGED serviceVars
     \/ \E i \in Threads : RunFunc(i)
     \/ \E f \in Funcs : ClientAdd(f)

(* The threads and the main thread run.                                     *)
ServerFairness ==
  /\ WF_serverVars(~destroyedUsed /\ (MainThread \/ (PoolCall /\ UNCHANGED serviceVars)))
  /\ \A i \in Threads :
       WF_serverVars(~destroyedUsed /\ i \notin waiting
                       /\ (RunFunc(i) \/ (IOThread(i) /\ UNCHANGED serviceVars)))

ServerSpec == ServerInit /\ [][ServerNext]_serverVars /\ ServerFairness

-----------------------------------------------------------------------------
(* When StartAccpet has returned, every I/O thread has registered once, on  *)
(* the thread of the socket; and a function of a client is run once on one  *)
(* of the I/O threads, is still queued on one, or was added while the pool  *)
(* had no thread.                                                           *)
ServingIsComplete ==
  /\ mainAt = "serving" =>
       /\ ToSet(callbacks) = ToSet(threadList[IO])
       /\ Len(callbacks) = IO_WORKER_COUNT
       /\ acceptThread \in ToSet(threadList[Acceptor])
  /\ ~destroyedUsed => \A f \in added :
       LET queued == {i \in Threads : Contains(events[i], Func(f))}
       IN Cardinality(queued) + (IF ran[f] # 0 THEN 1 ELSE 0)
            + (IF Func(f) \in lost THEN 1 ELSE 0) = 1

(* The main thread gets through StartAccpet, whatever its threads wait for  *)
(* in the meantime, and OnDestroy of a service that accepts returns: the    *)
(* latch, the barriers and the joins never wait for each other.             *)
ServerStops ==
  /\ (mainAt = "start" ~> mainAt = "serving" \/ destroyedUsed)
  /\ (mainAt = "destroying" /\ acceptThread # 0
        ~> (mainAt = "stopAcceptor" /\ owner = Idle) \/ destroyedUsed)
=============================================================================
