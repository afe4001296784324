-------------------------- MODULE DownloaderProofs --------------------------
(***************************************************************************)
(* A theorem of Downloader for any number of requests and handles and any  *)
(* limit: the tasks outlive their use.                                     *)
(*                                                                         *)
(* Argument.  A task is created, waits, runs on one handle, and only the   *)
(* end of that run makes its answer; only the answer frees it.  A handle   *)
(* is in the pool, or never created, or has one running task, which is the *)
(* one its buffers belong to.  So a task that waits or runs is unanswered, *)
(* and a handle that Obtain gives out belongs to nobody.                   *)
(***************************************************************************)
EXTENDS Downloader, SequenceTheorems, TLAPS

Distinct(s) == \A i, j \in 1..Len(s) : s[i] = s[j] => i = j
Elems(s) == {s[i] : i \in 1..Len(s)}
Runs == {running[h] : h \in Handles}

(* The types that the argument needs.                                      *)
Types ==
  /\ waiting \in Seq(Tasks)
  /\ pool \in Seq(Handles)
  /\ running \in [Handles -> Tasks \cup {None}]
  /\ data \in [Handles -> Tasks \cup {None}]
  /\ xfer \in [Handles -> {"none", "idle", "added", "open", "readable", "expired"}
                          \cup Results]
  /\ task \in [Tasks -> {"none", "live", "done", "freed"}]
  /\ future \in [Tasks -> {"none", "sent", "signalled", "held", "then", "dropped",
                           "answered"}]

(* Where the handles are.                                                  *)
HandlesInv ==
  /\ Distinct(pool)
  /\ \A h \in Elems(pool) : xfer[h] = "idle"
  /\ \A h \in Handles : running[h] = None <=> xfer[h] \in {"none", "idle"}
  /\ \A h \in Busy : data[h] = running[h]

(* Where the tasks are.                                                    *)
TasksInv ==
  /\ Distinct(waiting)
  /\ \A t \in Elems(waiting) : task[t] = "live" /\ t \notin Runs
  /\ \A h \in Busy : task[running[h]] = "live"
  /\ \A g, h \in Busy : running[g] = running[h] => g = h
  /\ \A t \in Tasks : task[t] = "none" <=> future[t] = "none"
  /\ \A t \in Tasks : task[t] = "freed" => future[t] = "answered"

DownloadInv == Types /\ HandlesInv /\ TasksInv

-----------------------------------------------------------------------------
(* Appending a new element keeps a sequence without repetitions so.        *)
LEMMA AppendKeeps ==
  ASSUME NEW S, NEW s \in Seq(S), NEW e \in S
  PROVE  /\ Append(s, e) \in Seq(S)
         /\ Elems(Append(s, e)) = Elems(s) \cup {e}
         /\ Distinct(s) /\ e \notin Elems(s) => Distinct(Append(s, e))
<1>. DEFINE n == Len(s)
            u == Append(s, e)
<1>1. /\ n \in Nat /\ u \in Seq(S) /\ Len(u) = n + 1
      /\ \A i \in 1..n : u[i] = s[i]
      /\ u[n + 1] = e
  OBVIOUS
<1>2. \A i \in 1..(n + 1) : i \in 1..n \/ i = n + 1
  BY <1>1
<1>3. 1..(n + 1) = 1..n \cup {n + 1}
  BY <1>1
<1>. HIDE DEF n, u
<1>4. Elems(u) = {u[i] : i \in 1..n} \cup {e}
  BY <1>1, <1>3 DEF Elems
<1>5. {u[i] : i \in 1..n} = {s[i] : i \in 1..n}
  BY <1>1
<1>6. ASSUME Distinct(s), e \notin Elems(s), NEW i \in 1..(n + 1), NEW j \in 1..(n + 1),
             u[i] = u[j]
      PROVE  i = j
  BY <1>1, <1>2, <1>6 DEF Distinct, Elems, n
<1>. QED
  BY <1>1, <1>4, <1>5, <1>6 DEF Distinct, Elems, n, u

(* So does taking its head away, which is then no element any more.        *)
LEMMA TailKeeps ==
  ASSUME NEW S, NEW s \in Seq(S), s # <<>>
  PROVE  /\ Tail(s) \in Seq(S)
         /\ Head(s) \in S /\ Head(s) \in Elems(s)
         /\ Elems(Tail(s)) \subseteq Elems(s)
         /\ Distinct(s) => Distinct(Tail(s)) /\ Head(s) \notin Elems(Tail(s))
<1>. DEFINE n == Len(s)
            u == Tail(s)
<1>1. /\ n \in Nat /\ n > 0 /\ u \in Seq(S) /\ Len(u) = n - 1
      /\ \A i \in 1..(n - 1) : u[i] = s[i + 1]
      /\ Head(s) = s[1] /\ Head(s) \in S
  BY EmptySeq, HeadTailProperties
<1>. HIDE DEF n, u
<1>2. \A i \in 1..(n - 1) : i + 1 \in 1..n /\ i + 1 # 1
  BY <1>1
<1>3. 1 \in 1..n
  BY <1>1
<1>4. Head(s) \in Elems(s) /\ Elems(u) \subseteq Elems(s)
  BY <1>1, <1>2, <1>3 DEF Elems, n
<1>5. ASSUME Distinct(s) PROVE Distinct(u) /\ Head(s) \notin Elems(u)
  <2>1. \A i \in 1..(n - 1) : s[i + 1] # s[1]
    BY <1>2, <1>3, <1>5 DEF Distinct, n
  <2>2. ASSUME NEW i \in 1..(n - 1), NEW j \in 1..(n - 1), u[i] = u[j] PROVE i = j
    <3>1. i + 1 = j + 1
      BY <1>1, <1>2, <1>5, <2>2 DEF Distinct, n
    <3>. QED
      BY <3>1
  <2>3. Distinct(u)
    BY <1>1, <2>2 DEF Distinct
  <2>4. Elems(u) = {u[i] : i \in 1..(n - 1)}
    BY <1>1 DEF Elems
  <2>. QED
    BY <1>1, <2>1, <2>3, <2>4
<1>. QED
  BY <1>1, <1>4, <1>5 DEF u

-----------------------------------------------------------------------------
(* At the start there is no request and no handle.                         *)
LEMMA InitInv == Init => DownloadInv
<1>. SUFFICES ASSUME Init PROVE DownloadInv
  OBVIOUS
<1>1. /\ waiting = <<>> /\ Len(waiting) = 0 /\ pool = <<>> /\ Len(pool) = 0
      /\ waiting \in Seq(Tasks) /\ pool \in Seq(Handles)
  BY DEF Init
<1>2. Types
  BY <1>1 DEF Init, Types
<1>3. HandlesInv
  BY <1>1 DEF Init, HandlesInv, Distinct, Elems, Busy
<1>4. TasksInv
  BY <1>1 DEF Init, TasksInv, Distinct, Elems, Busy
<1>. QED
  BY <1>2, <1>3, <1>4 DEF DownloadInv

(* The invariant is about these variables only.                            *)
LEMMA Unmoved ==
  DownloadInv /\ UNCHANGED <<waiting, running, pool, data, xfer, task, future>>
    => DownloadInv'
BY DEF DownloadInv, Types, HandlesInv, TasksInv, Distinct, Elems, Runs, Busy

(* The calls of a requester.                                               *)
LEMMA CallerKeeps ==
  ASSUME DownloadInv, NEW t \in Tasks, Caller(t)
  PROVE  DownloadInv'
<1>. USE DEF DownloadInv
<1>1. CASE RequestCDN(t)
  <2>1. /\ waiting' = Append(waiting, t) /\ task[t] = "none"
        /\ task' = [task EXCEPT ![t] = "live"]
        /\ future' = [future EXCEPT ![t] = "sent"]
        /\ UNCHANGED <<running, pool, data, xfer>>
    BY <1>1 DEF RequestCDN, curlVars, TasksInv
  <2>2. t \notin Elems(waiting) /\ t \notin Runs
    BY <2>1, DownloaderAssumption DEF TasksInv, Runs, Busy
  <2>3. /\ waiting' \in Seq(Tasks) /\ Distinct(waiting')
        /\ Elems(waiting') = Elems(waiting) \cup {t}
    BY <2>1, <2>2, AppendKeeps DEF Types, TasksInv
  <2>4. Types'
    BY <2>1, <2>3 DEF Types
  <2>5. HandlesInv'
    BY <2>1 DEF HandlesInv, Busy, Distinct, Elems
  <2>6. TasksInv'
    <3>1. Distinct(waiting)' /\ Elems(waiting)' = Elems(waiting) \cup {t} /\ Runs' = Runs
      BY <2>1, <2>3 DEF Distinct, Elems, Runs
    <3>2. \A u \in Tasks : u # t => task'[u] = task[u] /\ future'[u] = future[u]
      BY <2>1 DEF Types
    <3>3. task'[t] = "live" /\ future'[t] = "sent"
      BY <2>1 DEF Types
    <3>4. Busy' = Busy
      BY <2>1 DEF Busy
    <3>5. Elems(waiting) \subseteq Tasks
      BY DEF Types, Elems
    <3>6. \A h \in Busy : running[h] # t /\ running[h] \in Tasks
      BY <2>2 DEF Runs, Busy, Types
    <3>. QED
      BY <2>1, <2>2, <3>1, <3>2, <3>3, <3>4, <3>5, <3>6 DEF TasksInv
  <2>. QED
    BY <2>4, <2>5, <2>6
<1>2. CASE SignalLoop(t) \/ GetFuture(t) \/ Drop(t)
  <2>1. PICK f \in {"signalled", "held", "dropped"} :
          /\ future' = [future EXCEPT ![t] = f]
          /\ future[t] \notin {"none", "answered"}
          /\ UNCHANGED <<waiting, running, pool, data, xfer, task>>
    BY <1>2 DEF SignalLoop, GetFuture, Drop, queueVars, curlVars
  <2>2. Types' /\ HandlesInv'
    BY <2>1 DEF Types, HandlesInv, Busy, Distinct, Elems
  <2>3. TasksInv'
    BY <2>1 DEF Types, TasksInv, Busy, Distinct, Elems, Runs
  <2>. QED
    BY <2>2, <2>3
<1>3. CASE Then(t)
  <2>0. /\ future[t] = "held"
        /\ UNCHANGED <<waiting, running, pool, data, xfer>>
    BY <1>3 DEF Then, queueVars, curlVars
  <2>1. CASE task[t] = "done"
    <3>1. /\ future' = [future EXCEPT ![t] = "answered"]
          /\ task' = [task EXCEPT ![t] = "freed"]
      BY <1>3, <2>1 DEF Then
    <3>2. Types' /\ HandlesInv'
      BY <2>0, <3>1 DEF Types, HandlesInv, Busy, Distinct, Elems
    <3>3. TasksInv'
      BY <2>0, <2>1, <3>1 DEF Types, TasksInv, Busy, Distinct, Elems, Runs
    <3>. QED
      BY <3>2, <3>3
  <2>2. CASE task[t] # "done"
    <3>1. future' = [future EXCEPT ![t] = "then"] /\ task' = task
      BY <1>3, <2>2 DEF Then
    <3>2. Types' /\ HandlesInv'
      BY <2>0, <3>1 DEF Types, HandlesInv, Busy, Distinct, Elems
    <3>3. TasksInv'
      BY <2>0, <3>1 DEF Types, TasksInv, Busy, Distinct, Elems, Runs
    <3>. QED
      BY <3>2, <3>3
  <2>. QED
    BY <2>1, <2>2
<1>. QED
  BY <1>1, <1>2, <1>3 DEF Caller

-----------------------------------------------------------------------------
(* Curl changes the state of handles in the multi handle only, and leaves  *)
(* them there.                                                             *)
LEMMA CurlKeeps ==
  ASSUME DownloadInv,
         UNCHANGED <<waiting, running, pool, data, task, future>>,
         xfer' \in [Handles -> {"none", "idle", "added", "open", "readable", "expired"}
                               \cup Results],
         \A h \in Handles :
           \/ xfer'[h] = xfer[h]
           \/ xfer[h] \notin {"none", "idle"} /\ xfer'[h] \notin {"none", "idle"}
  PROVE  DownloadInv'
<1>1. Types'
  BY DEF DownloadInv, Types
<1>2. HandlesInv'
  <2>1. Elems(pool) \subseteq Handles
    BY DEF DownloadInv, Types, Elems
  <2>. QED
    BY <2>1 DEF DownloadInv, HandlesInv, Busy, Distinct, Elems
<1>3. TasksInv'
  BY DEF DownloadInv, TasksInv, Busy, Distinct, Elems, Runs
<1>. QED
  BY <1>1, <1>2, <1>3 DEF DownloadInv

(* OnTimer and OnSocketEvent: curl_multi_socket_action.                    *)
LEMMA ActionKeeps ==
  ASSUME DownloadInv, NEW ended, NEW opened, NEW pending,
         SocketAction(ended, opened, pending),
         \A h \in ended \cup opened : xfer[h] \notin {"none", "idle"},
         UNCHANGED <<waiting, running, pool, data, task, future>>
  PROVE  DownloadInv'
<1>1. PICK r \in Results :
        xfer' = [h \in Handles |-> CASE h \in ended  -> r
                                     [] h \in opened -> "open"
                                     [] OTHER        -> xfer[h]]
  BY DEF SocketAction
<1>2. \A h \in Handles :
        \/ xfer'[h] = xfer[h]
        \/ xfer[h] \notin {"none", "idle"} /\ xfer'[h] \in Results \cup {"open"}
  BY <1>1
<1>3. xfer' \in [Handles -> {"none", "idle", "added", "open", "readable", "expired"}
                            \cup Results]
  BY <1>1, <1>2 DEF DownloadInv, Types
<1>. QED
  BY <1>2, <1>3, CurlKeeps DEF Results

(* StartTransfer: the first task that waits gets a handle of nobody.       *)
LEMMA StartKeeps ==
  ASSUME DownloadInv, NEW h \in Handles, StartTransfer(h)
  PROVE  DownloadInv'
<1>. DEFINE t == Head(waiting)
<1>0. /\ waiting # <<>> /\ waiting' = Tail(waiting)
      /\ data' = [data EXCEPT ![h] = t]
      /\ xfer' = [xfer EXCEPT ![h] = "added"]
      /\ running' = [running EXCEPT ![h] = t]
      /\ UNCHANGED <<task, future>>
  BY DEF StartTransfer, SetCurl, taskVars
<1>1. /\ waiting' \in Seq(Tasks) /\ Distinct(waiting')
      /\ Elems(waiting') \subseteq Elems(waiting) \ {t}
      /\ t \in Tasks /\ t \in Elems(waiting)
  BY <1>0, TailKeeps DEF DownloadInv, Types, TasksInv
<1>2. /\ pool' \in Seq(Handles) /\ Distinct(pool')
      /\ Elems(pool') \subseteq Elems(pool) \ {h}
      /\ xfer[h] \in {"none", "idle"}
  <2>1. CASE pool # <<>>
    <3>1. h = Head(pool) /\ pool' = Tail(pool)
      BY <2>1 DEF StartTransfer, Obtain
    <3>. QED
      BY <2>1, <3>1, TailKeeps DEF DownloadInv, Types, HandlesInv
  <2>2. CASE pool = <<>>
    <3>1. xfer[h] = "none" /\ pool' = pool
      BY <2>2 DEF StartTransfer, Obtain
    <3>. QED
      BY <3>1 DEF DownloadInv, Types, HandlesInv
  <2>. QED
    BY <2>1, <2>2
<1>3. running[h] = None /\ task[t] = "live" /\ t \notin Runs /\ t # None
  BY <1>1, <1>2, DownloaderAssumption DEF DownloadInv, HandlesInv, TasksInv
<1>. HIDE DEF t
<1>4. /\ running'[h] = t /\ data'[h] = t /\ xfer'[h] = "added"
      /\ \A g \in Handles \ {h} : /\ running'[g] = running[g] /\ data'[g] = data[g]
                                  /\ xfer'[g] = xfer[g]
  BY <1>0 DEF DownloadInv, Types
<1>5. Types'
  BY <1>0, <1>1, <1>2 DEF DownloadInv, Types
<1>6. HandlesInv'
  <2>1. Distinct(pool)' /\ Elems(pool)' \subseteq Elems(pool) \ {h}
    BY <1>2 DEF Distinct, Elems
  <2>2. Elems(pool) \subseteq Handles
    BY DEF DownloadInv, Types, Elems
  <2>. QED
    BY <1>3, <1>4, <2>1, <2>2 DEF DownloadInv, HandlesInv, Busy
<1>7. TasksInv'
  <2>1. Distinct(waiting)' /\ Elems(waiting)' \subseteq Elems(waiting) \ {t}
    BY <1>1 DEF Distinct, Elems
  <2>2. Busy' = Busy \cup {h} /\ h \notin Busy
    BY <1>3, <1>4 DEF Busy
  <2>3. Runs' \subseteq Runs \cup {t}
    BY <1>4 DEF Runs
  <2>4. \A g \in Busy : running[g] # t
    BY <1>3 DEF Runs, Busy
  <2>. QED
    BY <1>0, <1>3, <1>4, <2>1, <2>2, <2>3, <2>4 DEF DownloadInv, TasksInv, Busy
<1>. QED
  BY <1>5, <1>6, <1>7 DEF DownloadInv

(* CheckSocket: a run ends, its task is answered, its handle is nobody's.  *)
LEMMA CheckKeeps ==
  ASSUME DownloadInv, NEW h \in Handles, CheckMessage(h)
  PROVE  DownloadInv'
<1>1. PICK t : t = running[h]
  OBVIOUS
<1>2. /\ xfer[h] \in Results /\ SetValue(t)
      /\ running' = [running EXCEPT ![h] = None]
      /\ xfer' = [xfer EXCEPT ![h] = "idle"]
      /\ pool' = Append(pool, h)
      /\ UNCHANGED <<waiting, data>>
  BY <1>1 DEF CheckMessage, Return
<1>3. xfer[h] \notin {"none", "idle"} /\ h \notin Elems(pool)
  BY <1>2 DEF Results, DownloadInv, HandlesInv
<1>4. t \in Tasks /\ h \in Busy /\ task[t] = "live" /\ t \notin Elems(waiting)
  BY <1>1, <1>3 DEF DownloadInv, Types, HandlesInv, TasksInv, Busy, Runs
<1>5. /\ pool' \in Seq(Handles) /\ Distinct(pool')
      /\ Elems(pool') = Elems(pool) \cup {h}
  BY <1>2, <1>3, AppendKeeps DEF DownloadInv, Types, HandlesInv
<1>6. /\ running'[h] = None /\ xfer'[h] = "idle"
      /\ \A g \in Handles \ {h} : running'[g] = running[g] /\ xfer'[g] = xfer[g]
  BY <1>2 DEF DownloadInv, Types
<1>7. /\ task'[t] \in {"done", "freed"} /\ future'[t] # "none"
      /\ task'[t] = "freed" => future'[t] = "answered"
      /\ \A u \in Tasks \ {t} : task'[u] = task[u] /\ future'[u] = future[u]
      /\ task' \in [Tasks -> {"none", "live", "done", "freed"}]
      /\ future' \in [Tasks -> {"none", "sent", "signalled", "held", "then", "dropped",
                                "answered"}]
  <2>1. CASE future[t] = "then"
    BY <1>2, <1>4, <2>1 DEF SetValue, DownloadInv, Types
  <2>2. CASE future[t] # "then"
    BY <1>2, <1>4, <2>2 DEF SetValue, DownloadInv, Types, TasksInv
  <2>. QED
    BY <2>1, <2>2
<1>8. Types'
  BY <1>2, <1>5, <1>7 DEF DownloadInv, Types
<1>9. Busy' = Busy \ {h}
  BY <1>6 DEF Busy
<1>10. HandlesInv'
  <2>1. Distinct(pool)' /\ Elems(pool)' = Elems(pool) \cup {h}
    BY <1>5 DEF Distinct, Elems
  <2>2. Elems(pool) \subseteq Handles
    BY DEF DownloadInv, Types, Elems
  <2>. QED
    BY <1>2, <1>3, <1>6, <1>9, <2>1, <2>2 DEF DownloadInv, HandlesInv, Busy
<1>11. TasksInv'
  <2>1. Distinct(waiting)' /\ Elems(waiting)' = Elems(waiting)
    BY <1>2 DEF DownloadInv, TasksInv, Distinct, Elems
  <2>2. Runs' \subseteq Runs \cup {None}
    BY <1>6 DEF Runs
  <2>3. Elems(waiting) \subseteq Tasks \ {t}
    BY <1>4 DEF DownloadInv, Types, Elems
  <2>4. \A g \in Busy \ {h} : running[g] # t /\ running[g] \in Tasks
    BY <1>1, <1>4 DEF DownloadInv, TasksInv, Types, Busy
  <2>5. \A g \in Busy' : g # h /\ g \in Busy /\ g \in Handles /\ running'[g] = running[g]
    BY <1>6, <1>9 DEF Busy
  <2>6. \A u \in Elems(waiting) : task'[u] = "live" /\ u \notin Runs'
    BY <1>7, <2>2, <2>3, DownloaderAssumption DEF DownloadInv, TasksInv
  <2>7. \A g \in Busy' : task'[running'[g]] = "live"
    BY <1>7, <2>4, <2>5 DEF DownloadInv, TasksInv
  <2>8. \A f, g \in Busy' : running'[f] = running'[g] => f = g
    BY <2>5 DEF DownloadInv, TasksInv
  <2>9. \A u \in Tasks : /\ task'[u] = "none" <=> future'[u] = "none"
                         /\ task'[u] = "freed" => future'[u] = "answered"
    BY <1>7 DEF DownloadInv, TasksInv
  <2>. QED
    BY <2>1, <2>6, <2>7, <2>8, <2>9 DEF TasksInv
<1>. QED
  BY <1>8, <1>10, <1>11 DEF DownloadInv

-----------------------------------------------------------------------------
(* Every step preserves the invariant.                                     *)
LEMMA NextInv == DownloadInv /\ [Next]_vars => DownloadInv'
<1>. SUFFICES ASSUME DownloadInv, [Next]_vars PROVE DownloadInv'
  OBVIOUS
<1>1. ASSUME NEW t \in Tasks, Caller(t) PROVE DownloadInv'
  BY <1>1, CallerKeeps
<1>2. ASSUME NEW h \in Handles, Network(h) PROVE DownloadInv'
  <2>1. PICK s \in {"readable", "expired"} : xfer' = [xfer EXCEPT ![h] = s]
    BY <1>2 DEF Network
  <2>2. UNCHANGED <<waiting, running, pool, data, task, future>> /\ xfer[h] = "open"
    BY <1>2 DEF Network, queueVars, taskVars
  <2>3. xfer' \in [Handles -> {"none", "idle", "added", "open", "readable", "expired"}
                              \cup Results]
    BY <2>1 DEF DownloadInv, Types
  <2>4. \A g \in Handles :
          \/ xfer'[g] = xfer[g]
          \/ xfer[g] \notin {"none", "idle"} /\ xfer'[g] \notin {"none", "idle"}
    BY <2>1, <2>2 DEF DownloadInv, Types
  <2>. QED
    BY <2>2, <2>3, <2>4, CurlKeeps
<1>3. ASSUME NEW h \in Handles, OnSocketEvent(h) PROVE DownloadInv'
  <2>1. /\ SocketAction({h}, {}, timer)
        /\ \A g \in {h} \cup {} : xfer[g] \notin {"none", "idle"}
        /\ UNCHANGED <<waiting, running, pool, data, task, future>>
    BY <1>3 DEF OnSocketEvent, queueVars, taskVars
  <2>. QED
    BY <2>1, ActionKeeps
<1>4. CASE OnTimer
  <2>1. PICK opened \in SUBSET {h \in Handles : xfer[h] = "added"} :
          SocketAction({h \in Handles : xfer[h] \in {"added", "expired"}} \ opened,
                       opened, FALSE)
    BY <1>4 DEF OnTimer
  <2>2. PICK ended : ended = {h \in Handles : xfer[h] \in {"added", "expired"}} \ opened
    OBVIOUS
  <2>3. \A h \in ended \cup opened : xfer[h] \notin {"none", "idle"}
    BY <2>2
  <2>4. UNCHANGED <<waiting, running, pool, data, task, future>>
    BY <1>4 DEF OnTimer, queueVars, taskVars
  <2>. QED
    BY <2>1, <2>2, <2>3, <2>4, ActionKeeps
<1>5. ASSUME NEW h \in Handles, StartTransfer(h) \/ CheckMessage(h) PROVE DownloadInv'
  BY <1>5, StartKeeps, CheckKeeps
<1>6. CASE Join
  <2>1. /\ waiting' = <<>> /\ UNCHANGED <<running, pool, data, xfer, task, future>>
        /\ waiting' \in Seq(Tasks) /\ Len(waiting') = 0
    BY <1>6 DEF Join, curlVars, taskVars
  <2>2. Types' /\ HandlesInv'
    BY <2>1 DEF DownloadInv, Types, HandlesInv, Busy, Distinct, Elems
  <2>3. TasksInv'
    BY <2>1 DEF DownloadInv, TasksInv, Busy, Distinct, Elems, Runs
  <2>. QED
    BY <2>2, <2>3 DEF DownloadInv
<1>7. CASE ThreadStart \/ OnInterrupt \/ InterruptDone \/ CheckDone \/ OnExit \/ ThreadEnd
           \/ Destroy \/ UNCHANGED vars
  <2>1. UNCHANGED <<waiting, running, pool, data, xfer, task, future>>
    BY <1>7 DEF ThreadStart, OnInterrupt, InterruptDone, CheckDone, OnExit, ThreadEnd,
                Destroy, vars, queueVars, curlVars, taskVars
  <2>. QED
    BY <2>1, Unmoved
<1>. QED
  BY <1>1, <1>2, <1>3, <1>4, <1>5, <1>6, <1>7 DEF Next, Callback

(* The invariant is more than enough.                                      *)
LEMMA InvEnough == DownloadInv => TaskOutlivesUse
<1>. SUFFICES ASSUME DownloadInv PROVE TaskOutlivesUse
  OBVIOUS
<1>1. \A t \in Tasks : future[t] = "signalled" => task[t] \in {"live", "done"}
  BY DEF DownloadInv, Types, TasksInv
<1>2. \A i \in 1..Len(waiting) : /\ task[waiting[i]] = "live"
                                 /\ waiting[i] \notin {running[h] : h \in Handles}
  BY DEF DownloadInv, TasksInv, Elems, Runs
<1>3. \A h \in Busy : /\ data[h] = running[h] /\ task[running[h]] = "live"
                      /\ \A g \in Busy : running[g] = running[h] => g = h
  BY DEF DownloadInv, HandlesInv, TasksInv
<1>4. \A h \in Busy : h \notin {pool[i] : i \in 1..Len(pool)}
  BY DEF DownloadInv, HandlesInv, Elems, Busy
<1>5. \A h \in Handles : xfer[h] \notin {"none", "idle"} => h \in Busy
  BY DEF DownloadInv, HandlesInv, Busy
<1>. QED
  BY <1>1, <1>2, <1>3, <1>4, <1>5 DEF TaskOutlivesUse

(* In whatever order requests, interrupts, timers, sockets and the         *)
(* destruction come: a task is alive between sendDownloadTask and          *)
(* getFuture, while it waits, and while curl writes into it, and a handle  *)
(* in use is in nobody else's hands.                                       *)
THEOREM TasksOutliveTheirUse == Spec => []TaskOutlivesUse
<1>1. Spec => []DownloadInv
  BY InitInv, NextInv, PTL DEF Spec
<1>. QED
  BY <1>1, InvEnough, PTL
=============================================================================
