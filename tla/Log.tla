-------------------------------- MODULE Log --------------------------------
(***************************************************************************)
(* Logging (Core/Foundation/Log.cpp) and the log service (Core/Foundation/ *)
(* Service/LogService.cpp, LogServiceAndroid.cpp).  XLN_LOGE(...) and its  *)
(* kin first put file and line of the call into thread-local variables,    *)
(* then format a record and hand it to the log service, which DoLog looks  *)
(* up once and keeps.  The service writes to a file, buffered by spdlog up *)
(* to the next warning.  A site is a place in the code that logs.          *)
(***************************************************************************)
EXTENDS Naturals

CONSTANTS
  Loggers,      \* the threads that log
  Level         \* the level of each site, 0..3 from LL_LOG_INFO to LL_LOG_ERROR

Sites == DOMAIN Level
LL_LOG_INFO == 0
LL_LOG_WARNING == 2
NoSite == "none"

VARIABLES
  logLevel,     \* s_CurLogLevel
  logService,   \* s_LogService: has DoLog found a log service
  curInfo,      \* s_CurFileName, s_CurFuncName, s_CurLineNum of each thread
  call,         \* the call each thread is in: where, from which site, its record
  logger,       \* s_Logger is open
  buffered,     \* the sites with records that spdlog has not written to the file yet
  danglingLog   \* a log service was used after it was deleted

logVars == <<logLevel, logService, curInfo, call, logger, buffered, danglingLog>>
fileVars == <<logger, buffered>>

NoCall == [pc |-> "out", site |-> NoSite, record |-> NoSite]

LogInit ==
  /\ logLevel = LL_LOG_INFO
  /\ logService = FALSE
  /\ curInfo = [t \in Loggers |-> NoSite]
  /\ call = [t \in Loggers |-> NoCall]
  /\ logger = FALSE
  /\ buffered = {}
  /\ danglingLog = FALSE

Quiet(t) == call[t].pc = "out"

-----------------------------------------------------------------------------
(* Log::SetLogLevel.                                                       *)
SetLogLevel(level) ==
  /\ logLevel' = level
  /\ UNCHANGED <<logService, curInfo, call, fileVars, danglingLog>>

(* Fault: the variables are not thread-local.                              *)
SetLogInfoShared(t, site) ==
  /\ Quiet(t)
  /\ curInfo' = [u \in Loggers |-> site]
  /\ call' = [call EXCEPT ![t] = [pc |-> "format", site |-> site, record |-> NoSite]]
  /\ UNCHANGED <<logLevel, logService, fileVars, danglingLog>>

(* The macro: Log::SetLogInfo.                                             *)
SetLogInfo(t, site) ==
  /\ Quiet(t)
  /\ curInfo' = [curInfo EXCEPT ![t] = site]
  /\ call' = [call EXCEPT ![t] = [pc |-> "format", site |-> site, record |-> NoSite]]
  /\ UNCHANGED <<logLevel, logService, fileVars, danglingLog>>

(* The constructors LogInfo, LogDebug, LogWarning and LogError: the record *)
(* gets the place that the thread's variables name.                        *)
PrependLogInfo(t) ==
  /\ call[t].pc = "format"
  /\ call' = [call EXCEPT ![t] =
                IF logLevel <= Level[call[t].site]
                THEN [pc |-> "test", site |-> call[t].site, record |-> curInfo[t]]
                ELSE NoCall]
  /\ UNCHANGED <<logLevel, logService, curInfo, fileVars, danglingLog>>

LogInfo(t) == PrependLogInfo(t) /\ Level[call[t].site] = 0
LogDebug(t) == PrependLogInfo(t) /\ Level[call[t].site] = 1
LogWarning(t) == PrependLogInfo(t) /\ Level[call[t].site] = 2
LogError(t) == PrependLogInfo(t) /\ Level[call[t].site] = 3

(* DoLog: the first look at s_LogService, without the lock.                *)
TestLogService(t) ==
  /\ call[t].pc = "test"
  /\ call' = [call EXCEPT ![t].pc = IF logService THEN "log" ELSE "find"]
  /\ UNCHANGED <<logLevel, logService, curInfo, fileVars, danglingLog>>

(* DoLog, under s_CriticalSection: GetService<LogService>, if there is a   *)
(* core service manager.  A record that finds no log service is dropped.   *)
FindLogService(t, registered) ==
  /\ call[t].pc = "find"
  /\ logService' = (logService \/ registered)
  /\ call' = IF logService' THEN [call EXCEPT ![t].pc = "log"] ELSE [call EXCEPT ![t] = NoCall]
  /\ UNCHANGED <<logLevel, curInfo, fileVars, danglingLog>>

(* LogService::Log, which LogServiceAndroid::Log calls too.                *)
WriteLog(t, deleted) ==
  /\ call[t].pc = "log"
  /\ call' = [call EXCEPT ![t] = NoCall]
  /\ danglingLog' = (danglingLog \/ deleted)
  /\ buffered' = IF ~logger THEN buffered
                 ELSE IF Level[call[t].site] >= LL_LOG_WARNING THEN {}
                 ELSE buffered \cup {call[t].record}
  /\ UNCHANGED <<logLevel, logService, curInfo, logger>>

DoLog(t, registered, deleted) ==
  TestLogService(t) \/ FindLogService(t, registered) \/ WriteLog(t, deleted)

LogCall(t, registered, deleted) ==
  \/ LogInfo(t) \/ LogDebug(t) \/ LogWarning(t) \/ LogError(t)
  \/ DoLog(t, registered, deleted)

-----------------------------------------------------------------------------
(* LogService::OnInit: the file is opened if there is a platform service   *)
(* to name its directory; spdlog may throw, which is logged.               *)
OpenLogger(t, platform) ==
  \/ /\ platform
     /\ logger' = TRUE
     /\ UNCHANGED <<logLevel, logService, curInfo, call, buffered, danglingLog>>
  \/ /\ platform
     /\ SetLogInfo(t, "openFails")
  \/ /\ ~platform
     /\ UNCHANGED logVars

(* LogService::OnDestroy.                                                  *)
FlushLogger ==
  /\ buffered' = IF logger THEN {} ELSE buffered
  /\ UNCHANGED <<logLevel, logService, curInfo, call, logger, danglingLog>>

-----------------------------------------------------------------------------
(* A record names the place of the call that logs it, whatever other       *)
(* threads log meanwhile.                                                  *)
RecordsAreOwn == \A t \in Loggers : call[t].record \in {call[t].site, NoSite}
=============================================================================
