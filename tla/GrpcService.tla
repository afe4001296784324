----------------------------- MODULE GrpcService -----------------------------
(***************************************************************************)
(* gRPC at both ends (Network/GrpcService and Network/GrpcServer).  The    *)
(* client makes calls with CallAsync and has one thread that takes the     *)
(* finished ones from a completion queue, fulfils their promises and       *)
(* deletes their contexts.  The server is a thread that waits in           *)
(* grpc::Server::Wait.                                                     *)
(*                                                                         *)
(* gRPC is external: a call that Finish was called for ends some time (the *)
(* client sets no deadline), its tag is taken once, and after Shutdown     *)
(* Next returns false when no call is left.                                *)
(***************************************************************************)
EXTENDS Naturals

CONSTANTS
  Calls,
  MaxStarts  \* bound on the calls of StartServer

VARIABLES
  client,     \* the owner: "new", "ready", "shutdown", "destroyed"
  runner,     \* RunClient: "none", "next", "delete", "stopped", "joined"
  caller,     \* inside CallAsync: "out", "future", "back"
  context,    \* the call's context: "none", "live", "finished", "taken", "deleted"
  answer,     \* the caller's future: "none", "pending", "value"
  misused,    \* a deleted context or a queue that is shut down has been used
  serverAt,   \* RunServer: "none", "build", "wait", "stopping", "ended"
  serverMain, \* the server's owner: "idle", "start", "exit", "join"
  running,    \* grpc::Server is between BuildAndStart and Shutdown
  serverStarted, \* m_ServerStarted
  ended,      \* m_ThreadEndBarrier of m_ThreadPtr is posted
  starts

clientVars == <<client, runner, caller, context, answer, misused>>
grpcServerVars == <<serverAt, serverMain, running, serverStarted, ended, starts>>
grpcVars == <<clientVars, grpcServerVars>>

GrpcInit ==
  /\ client = "new" /\ runner = "none"
  /\ caller = [c \in Calls |-> "out"]
  /\ context = [c \in Calls |-> "none"]
  /\ answer = [c \in Calls |-> "none"]
  /\ misused = FALSE
  /\ serverAt = "none" /\ serverMain = "idle"
  /\ running = FALSE /\ serverStarted = FALSE /\ ended = FALSE /\ starts = 0

-----------------------------------------------------------------------------
(* OnInit adds the one thread of the completion queue.                      *)
OnInitGrpc ==
  /\ client = "new" /\ client' = "ready"
  /\ runner' = "next"
  /\ UNCHANGED <<caller, context, answer, misused>>

(* CallAsync: the context, StartCall and Finish with the context as tag.    *)
StartCall(c) ==
  /\ client # "new"
  /\ caller[c] = "out"
  /\ caller' = [caller EXCEPT ![c] = "future"]
  /\ context' = [context EXCEPT ![c] = "live"]
  /\ misused' = (misused \/ client # "ready")
  /\ UNCHANGED <<client, runner, answer>>

(* CallAsync: replyPromise.getFuture(), after Finish.                       *)
GetReply(c) ==
  /\ caller[c] = "future"
  /\ caller' = [caller EXCEPT ![c] = "back"]
  /\ IF context[c] = "deleted" THEN misused' = TRUE /\ UNCHANGED answer
     ELSE /\ answer' = [answer EXCEPT ![c] = IF context[c] = "taken" THEN "value" ELSE "pending"]
          /\ UNCHANGED misused
  /\ UNCHANGED <<client, runner, context>>

(* gRPC puts the tag of a finished call in the queue.                       *)
CallFinishes(c) ==
  /\ context[c] = "live"
  /\ context' = [context EXCEPT ![c] = "finished"]
  /\ UNCHANGED <<client, runner, caller, answer, misused>>

(* RunClient: Next returned a tag; promise().                               *)
FulfilPromise(c) ==
  /\ runner = "next" /\ runner' = "delete"
  /\ context[c] = "finished"
  /\ context' = [context EXCEPT ![c] = "taken"]
  /\ answer' = [answer EXCEPT ![c] = IF @ = "pending" THEN "value" ELSE @]
  /\ UNCHANGED <<client, caller, misused>>

(* RunClient: delete call.                                                  *)
DeleteCall(c) ==
  /\ runner = "delete" /\ runner' = "next"
  /\ context[c] = "taken"
  /\ context' = [context EXCEPT ![c] = "deleted"]
  /\ UNCHANGED <<client, caller, answer, misused>>

(* RunClient: Next returned false; AfterRun, AddStoppingThread.             *)
QueueDrained ==
  /\ runner = "next" /\ runner' = "stopped"
  /\ client = "shutdown"
  /\ \A c \in Calls : context[c] \notin {"live", "finished"}
  /\ UNCHANGED <<client, caller, context, answer, misused>>

(* OnDestroy: Shutdown of the queue, then JoinStoppedThread(1).             *)
ShutdownQueue ==
  /\ client = "ready" /\ client' = "shutdown"
  /\ UNCHANGED <<runner, caller, context, answer, misused>>

JoinRunner ==
  /\ client = "shutdown" /\ client' = "destroyed"
  /\ runner = "stopped" /\ runner' = "joined"
  /\ UNCHANGED <<caller, context, answer, misused>>

RunClient ==
  QueueDrained \/ \E c \in Calls : FulfilPromise(c) \/ DeleteCall(c)

Client ==
  \/ OnInitGrpc \/ RunClient \/ ShutdownQueue \/ JoinRunner
  \/ \E c \in Calls : StartCall(c) \/ GetReply(c) \/ CallFinishes(c)

-----------------------------------------------------------------------------
(* StartServer adds the thread and waits for its AfterRun.                  *)
StartServer ==
  /\ serverMain = "idle" /\ serverMain' = "start"
  /\ serverAt \in {"none", "ended"} /\ serverAt' = "build"
  /\ starts < MaxStarts /\ starts' = starts + 1
  /\ ended' = FALSE
  /\ UNCHANGED <<running, serverStarted>>

WaitRun ==
  /\ serverMain = "start" /\ serverMain' = "idle"
  /\ serverAt # "build"
  /\ UNCHANGED <<serverAt, running, serverStarted, ended, starts>>

(* RunServer: BuildAndStart, m_ServerStarted, AfterRun, then Wait.          *)
BuildAndStart ==
  /\ serverAt = "build" /\ serverAt' = "wait"
  /\ running' = TRUE /\ serverStarted' = TRUE
  /\ UNCHANGED <<serverMain, ended, starts>>

(* RunServer: Wait returned; AddStoppingThread.                             *)
WaitReturns ==
  /\ serverAt = "wait" /\ serverAt' = "stopping"
  /\ ~running
  /\ UNCHANGED <<serverMain, running, serverStarted, ended, starts>>

(* Fault: the thread ends without BeforeExit.                               *)
EndsSilently ==
  /\ serverAt = "stopping" /\ serverAt' = "ended"
  /\ UNCHANGED <<serverMain, running, serverStarted, ended, starts>>

(* RunServer: BeforeExit.                                                   *)
BeforeExit ==
  /\ serverAt = "stopping" /\ serverAt' = "ended"
  /\ ended' = TRUE
  /\ UNCHANGED <<serverMain, running, serverStarted, starts>>

(* StopServer returns at once if the server was never started; a second     *)
(* stop shuts down again, finds the barrier posted and no thread to join.   *)
StopServer ==
  /\ serverMain = "idle" /\ serverStarted
  /\ serverMain' = "exit"
  /\ running' = FALSE
  /\ UNCHANGED <<serverAt, serverStarted, ended, starts>>

(* WaitExit, then ThreadPool::StopAllThread joins the thread.               *)
WaitExit ==
  /\ serverMain = "exit" /\ serverMain' = "join"
  /\ ended
  /\ UNCHANGED <<serverAt, running, serverStarted, ended, starts>>

JoinServer ==
  /\ serverMain = "join" /\ serverMain' = "idle"
  /\ serverAt = "ended"
  /\ UNCHANGED <<serverAt, running, serverStarted, ended, starts>>

RunServer == BuildAndStart \/ WaitReturns \/ BeforeExit
ServerOwner == StartServer \/ WaitRun \/ StopServer \/ WaitExit \/ JoinServer

GrpcNext ==
  \/ ~misused /\ Client /\ UNCHANGED grpcServerVars
  \/ (RunServer \/ ServerOwner) /\ UNCHANGED clientVars

(* The threads run, callers go on, and the peer answers.                    *)
GrpcFairness ==
  /\ WF_grpcVars(~misused /\ RunClient /\ UNCHANGED grpcServerVars)
  /\ WF_grpcVars(~misused /\ JoinRunner /\ UNCHANGED grpcServerVars)
  /\ \A c \in Calls :
       WF_grpcVars(~misused /\ (GetReply(c) \/ CallFinishes(c)) /\ UNCHANGED grpcServerVars)
  /\ WF_grpcVars((RunServer \/ WaitRun \/ WaitExit \/ JoinServer) /\ UNCHANGED clientVars)

GrpcSpec == GrpcInit /\ [][GrpcNext]_grpcVars /\ GrpcFairness

-----------------------------------------------------------------------------
(* A context is not deleted with a promise that somebody waits for; when    *)
(* OnDestroy has returned no context is left and every future has its       *)
(* value; the server runs only while its thread waits, and when StopServer  *)
(* has returned the thread has ended.                                       *)
NothingIsLeft ==
  /\ \A c \in Calls : context[c] = "deleted" => answer[c] # "pending"
  /\ client = "destroyed" /\ ~misused =>
       \A c \in Calls : /\ context[c] \in {"none", "deleted"}
                        /\ caller[c] = "back" => answer[c] = "value"
  /\ running => serverAt = "wait"
  /\ serverMain = "idle" /\ serverStarted /\ ~running => serverAt = "ended"

(* Nothing is left behind; and                                              *)
(* unless a call finishes and is deleted before CallAsync asks it for its   *)
(* future, or a call is made after Shutdown, every caller gets the answer   *)
(* of its call, also of a call that ends after Shutdown; and OnDestroy and  *)
(* StopServer return, started and stopped as often as one likes.            *)
EveryCallEnds ==
  /\ []NothingIsLeft
  /\ \A c \in Calls : caller[c] = "future" ~> answer[c] = "value" \/ misused
  /\ (client = "shutdown" ~> client = "destroyed" \/ misused)
  /\ (serverMain # "idle" ~> serverMain = "idle")
=============================================================================
