----------------------------- MODULE MCServices -----------------------------
(***************************************************************************)
(* The services for TLC, one part at a time: the service manager alone,    *)
(* with all configurations of MCServiceMgr; the start and stop of a        *)
(* program; the executors of the server application; gRPC's client and     *)
(* server.                                                                 *)
(***************************************************************************)
EXTENDS MCServiceMgr, System, ServerExecutorService

CONSTANTS RpcCalls, MaxStarts

VARIABLES
  part,   \* the part that runs
  client, runner, caller, context, answer, misused,  \* those of gRPC's client
  serverAt, serverMain, running, serverStarted, ended, starts   \* and server

Grpc == INSTANCE GrpcService WITH Calls <- RpcCalls

managerVars == <<vars, systemVars, logVars>>
rpcVars ==
  <<client, runner, caller, context, answer, misused, serverAt, serverMain, running,
    serverStarted, ended, starts>>

(* Three orders of addresses: that of registration, its reverse, and one   *)
(* that interleaves.                                                       *)
InOrder(q) == [r \in ToSet(q) |-> CHOOSE i \in DOMAIN q : q[i] = r]
SomeAddresses ==
  LET q == <<"Platform", "Log", "Asset", "Config", "Factory", "Worker">> IN
  {InOrder(q), InOrder(Reverse(q)),
   InOrder(<<"Worker", "Config", "Log", "Platform", "Factory", "Asset">>)}
LoggingWorkers == {<<"Log">>, <<"Log", "Platform">>, <<"Config", "Log">>}
SiteLevels ==
  [opOrder |-> 1, openFails |-> 2, configError |-> 3, inited |-> 2,
   workInfo |-> 0, workError |-> 3]

NoSystem ==
  /\ LogInit
  /\ script = "none" /\ role = <<>> /\ configFile = "noServices"
  /\ core = FALSE /\ active = FALSE /\ told = 0

NoServers == mainAt = "none" /\ NoServer

(* A manager without objects.                                              *)
NoServices ==
  /\ NewManager([objects |-> {}, base |-> <<>>, deps |-> <<>>, frameService |-> 0])
  /\ NoSystem

MCInit ==
  /\ \/ part = "manager" /\ Init /\ NoSystem /\ NoServers
     \/ part = "system" /\ SystemInit /\ NoServers
     \/ part = "executors" /\ NoServices /\ ServerInit
     \/ part = "grpc" /\ NoServices /\ NoServers
  /\ Grpc!GrpcInit

MCNext ==
  \/ part = "manager" /\ Next /\ UNCHANGED <<part, systemVars, logVars, serverVars, rpcVars>>
  \/ part = "system" /\ SystemNext /\ UNCHANGED <<part, serverVars, rpcVars>>
  \/ part = "executors" /\ ServerNext /\ UNCHANGED <<part, managerVars, rpcVars>>
  \/ part = "grpc" /\ Grpc!GrpcNext /\ UNCHANGED <<part, managerVars, serverVars>>

MCSpec ==
  /\ MCInit /\ [][MCNext]_<<part, managerVars, serverVars, rpcVars>>
  /\ Fairness /\ SystemFairness /\ ServerFairness /\ Grpc!GrpcFairness

EveryCallEnds == Grpc!EveryCallEnds
=============================================================================
