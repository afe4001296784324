------------------------------- MODULE System -------------------------------
(***************************************************************************)
(* Start and stop of a program (Core/Framework/System.cpp): which services *)
(* System::Init registers in which order, when it initialises them, what   *)
(* the configuration file adds, and what System::Shutdown undoes, with the *)
(* log calls on the way and those of a thread of one of the program's own  *)
(* services, Worker.  The service manager is ServiceMgr's, logging is Log's. *)
(***************************************************************************)
EXTENDS ServiceMgr, Log

CONSTANTS
  Addresses,    \* in Injection(Roles, Classes): the classes' addresses
  WorkerDeps,   \* sequences of roles: what Worker::GetDependency may give
  ConfigFiles   \* XLNConfig.json: "missing", "noServices", "worker"

VARIABLES
  script,       \* where System::Init, Main or System::Shutdown is
  role,         \* the service of each role
  configFile,
  core,         \* ms_CoreServiceMgr
  active,       \* ms_ActiveServiceMgr: 0, or it points to a manager
  told          \* how many services BuildDep has logged

systemVars == <<script, role, configFile, core, active, told>>

Roles == {"Platform", "Log", "Asset", "Config", "Factory", "Worker"}

ASSUME SystemAssumption ==
  /\ Addresses \subseteq Injection(Roles, Classes)
  /\ \A d \in WorkerDeps : d \in Seq(Roles)
  /\ {"main", "worker"} \subseteq Loggers

Registered(r) == fast[role[r]] # 0      \* GetService of the role's class

(* What GetDependency of the framework's services gives.                   *)
Dependencies(r, workerDeps) ==
  CASE r = "Log" -> <<"Platform">>
    [] r = "Asset" -> <<"Platform">>
    [] r = "Config" -> <<"Asset">>
    [] r = "Worker" -> workerDeps
    [] OTHER -> <<>>

Configured(a, workerDeps) ==
  LET roleOf(k) == CHOOSE r \in Roles : a[r] = k
      D == [k \in {a[r] : r \in Roles} |-> Dependencies(roleOf(k), workerDeps)] IN
  [objects |-> DOMAIN D, base |-> [k \in Classes |-> 0],
   deps |-> [k \in DOMAIN D |-> [i \in DOMAIN D[k] |-> a[D[k][i]]]],
   frameService |-> 0]

SystemInit ==
  /\ \E a \in Addresses, d \in WorkerDeps : role = a /\ NewManager(Configured(a, d))
  /\ LogInit
  /\ script = "off"
  /\ configFile \in ConfigFiles
  /\ core = FALSE /\ active = FALSE
  /\ told = 0

-----------------------------------------------------------------------------
(* A step of the main thread, which is not in a log call.                  *)
MainGoesTo(from, to) ==
  /\ script = from /\ script' = to
  /\ Quiet("main")

(* System::Init: FoundationSDM::Init, AddServiceMgr, SetActiveServiceMgr.  *)
InitFoundation ==
  /\ MainGoesTo("off", "factory")
  /\ core' = TRUE /\ active' = TRUE
  /\ UNCHANGED <<role, configFile, told, vars, logVars>>

Register(r) ==
  /\ RegisterService(role[r])
  /\ UNCHANGED <<role, configFile, core, active, told, logVars>>

RegisterNothing ==
  UNCHANGED <<role, configFile, core, active, told, vars, logVars>>

(* System::Init: RegisterService(factoryServiceName), which registers      *)
(* nothing if no creator has that name.                                    *)
RegisterFactory ==
  MainGoesTo("factory", "platform") /\ (Register("Factory") \/ RegisterNothing)

(* ::Init: the services of the framework.                                  *)
RegisterFramework ==
  \/ MainGoesTo("platform", "log") /\ Register("Platform")
  \/ MainGoesTo("log", "asset") /\ Register("Log")
  \/ MainGoesTo("asset", "config") /\ Register("Asset")
  \/ MainGoesTo("config", "defaultFactory") /\ Register("Config")

DefaultFactory ==
  /\ MainGoesTo("defaultFactory", "app")
  /\ IF Registered("Factory") THEN RegisterNothing ELSE Register("Factory")

(* Application::InitService registers the program's services, or some;     *)
(* the others come from the configuration file.                            *)
InitService ==
  MainGoesTo("app", "init") /\ (Register("Worker") \/ RegisterNothing)

(* ServiceMgr::Init, and the log call of BuildDep for each service.        *)
BuildDep ==
  /\ MainGoesTo("init", "order")
  /\ InitServices
  /\ UNCHANGED <<role, configFile, core, active, told, logVars>>

LogOpOrder ==
  /\ script = "order" /\ told < Len(opList)
  /\ told' = told + 1
  /\ SetLogInfo("main", "opOrder")
  /\ UNCHANGED <<script, role, configFile, core, active, vars>>

(* OnInit of LogService and ConfigService (AddConfiguration); the others   *)
(* do not log.                                                             *)
OnInitService ==
  /\ script = "order" /\ told = Len(opList)
  /\ Quiet("main")
  /\ OnInit
  /\ LET s == opList[main.pos] IN
     IF s = role["Log"] THEN OpenLogger("main", Registered("Platform"))
     ELSE IF s = role["Config"] /\ configFile = "missing" THEN SetLogInfo("main", "configError")
     ELSE UNCHANGED logVars
  /\ UNCHANGED systemVars

InitReturns ==
  /\ MainGoesTo("order", "inject")
  /\ InitDone
  /\ UNCHANGED <<role, configFile, core, active, told, logVars>>

(* InjectService: without a configuration GetConfig returns the number 0,  *)
(* which is not null and has no element "XLNAppConfig": the subscript      *)
(* throws, and nothing catches.                                            *)
InjectService ==
  \/ /\ configFile = "missing"
     /\ MainGoesTo("inject", "threw")
     /\ RegisterNothing
  \/ /\ configFile = "noServices"
     /\ MainGoesTo("inject", "appInit")
     /\ RegisterNothing
  \/ /\ configFile = "worker" /\ Registered("Worker")
     /\ MainGoesTo("inject", "appInit")
     /\ RegisterNothing
  \/ /\ configFile = "worker" /\ ~Registered("Worker")
     /\ MainGoesTo("inject", "enlist")
     /\ Register("Worker")

InjectedService ==
  /\ MainGoesTo("enlist", "appInit")
  /\ Enlist
  /\ UNCHANGED <<role, configFile, core, active, told, logVars>>

(* Application::Init, then "System Inited..".                              *)
InitApplication ==
  /\ script = "appInit" /\ script' = "up"
  /\ SetLogInfo("main", "inited")
  /\ UNCHANGED <<role, configFile, core, active, told, vars>>

(* System::Shutdown, after Main: ServiceMgr::ShutDown ...                  *)
Shutdown ==
  /\ MainGoesTo("up", "shutdown")
  /\ ShutDown
  /\ UNCHANGED <<role, configFile, core, active, told, logVars>>

(* ... where the OnDestroy of Worker joins its thread ...                  *)
OnDestroyService ==
  /\ script = "shutdown"
  /\ OnDestroy
  /\ opList[main.pos] = role["Worker"] => Quiet("worker")
  /\ IF opList[main.pos] = role["Log"] THEN FlushLogger ELSE UNCHANGED logVars
  /\ UNCHANGED systemVars

(* ... and FoundationSDM::ShutDown, which leaves ms_ActiveServiceMgr.      *)
ShutDownFoundation ==
  /\ MainGoesTo("shutdown", "down")
  /\ Clear
  /\ core' = FALSE
  /\ UNCHANGED <<role, configFile, active, told, logVars>>

SystemMain ==
  \/ InitFoundation \/ RegisterFactory \/ RegisterFramework \/ DefaultFactory
  \/ InitService \/ BuildDep \/ LogOpOrder \/ OnInitService \/ InitReturns
  \/ InjectService \/ InjectedService \/ InitApplication
  \/ Shutdown \/ OnDestroyService \/ ShutDownFoundation

(* The thread of Worker, which ends when OnDestroy has joined it.          *)
WorkerLogs ==
  /\ script # "threw"
  /\ life[role["Worker"]] = "inited"
  /\ \/ \E site \in {"workInfo", "workError"} : SetLogInfo("worker", site)
     \/ Quiet("worker") /\ \E level \in {LL_LOG_INFO, LL_LOG_WARNING} : SetLogLevel(level)
  /\ UNCHANGED <<systemVars, vars>>

InLog(t) ==
  /\ script # "threw"
  /\ LogCall(t, core /\ Registered("Log"), life[role["Log"]] = "destroyed")
  /\ UNCHANGED <<systemVars, vars>>

SystemNext ==
  /\ ~broken /\ ~danglingLog
  /\ SystemMain \/ WorkerLogs \/ \E t \in Loggers : InLog(t)

(* The main thread goes on, but Main may stay "up" for ever.  The only step *)
(* from "init" is BuildDep.                                                *)
SystemFairness ==
  /\ WF_<<systemVars, vars, logVars>>(
       script \notin {"up", "init"} /\ ~broken /\ ~danglingLog /\ SystemMain)
  /\ WF_script(script = "init" /\ script' = "order")
  /\ \A t \in Loggers : WF_<<systemVars, vars, logVars>>(~broken /\ ~danglingLog /\ InLog(t))

SystemSpec == SystemInit /\ [][SystemNext]_<<systemVars, vars, logVars>> /\ SystemFairness

-----------------------------------------------------------------------------
(* Properties.                                                             *)

(* If the services whose threads log depend on the log service (as those   *)
(* of WorkerDeps do), no log call uses the log service after it is deleted, *)
(* although DoLog keeps it for ever, and what was logged before is in the  *)
(* file when the log service is gone; and each record carries its own      *)
(* place.                                                                  *)
LogIsSound ==
  /\ ~danglingLog
  /\ script \in {"shutdown", "down"} /\ life[role["Log"]] = "destroyed" => buffered = {}
  /\ RecordsAreOwn

(* System::Init returns, or throws when the configuration file is missing; *)
(* System::Shutdown returns, joining the threads of the services, be it    *)
(* the frame thread or one that is in the middle of a log call, unless the *)
(* frame thread has called a deleted service (see TicksOnlyLive).          *)
SystemReturns ==
  /\ (script = "factory" ~> script \in {"up", "threw"})
  /\ (Contract /\ main.pc = "shutdown" ~> main.pc = "down" \/ broken)
=============================================================================
