\* Every dependency graph of three classes with one derivation, and some systems
\* whose frame thread runs while the main thread initialises and shuts down; or the
\* start and stop of a program, with a thread that logs; or the server's two pools
\* with two I/O threads; or two calls of a gRPC client, and a server that is started
\* twice.
CONSTANTS
  Classes = {1, 2, 3, 4, 5, 6}
  Configurations <- AllConfigurations
  MaxSetups = 1
  Contract = TRUE
  Addresses <- SomeAddresses
  WorkerDeps <- LoggingWorkers
  ConfigFiles = {"missing", "noServices", "worker"}
  Loggers = {"main", "worker"}
  Level <- SiteLevels
  Pools = {io, acceptor}
  IO = io
  Acceptor = acceptor
  Threads = {1, 2, 3}
  PickPeriod = 2
  None = None
  IO_WORKER_COUNT = 2
  Funcs = {f, g}
  RpcCalls = {1, 2}
  MaxStarts = 2
SPECIFICATION MCSpec
INVARIANTS
  DependenciesAlive InitedOnce LookupIsExact TicksOnlyLive LogIsSound
  ListedThreadsRun ServingIsComplete
PROPERTIES SystemReturns ServerStops EveryCallEnds
\* The process ends after ShutDown, after the executors are destroyed and after gRPC
\* is shut down.
CHECK_DEADLOCK FALSE
