----------------------------- MODULE WebViewIOS -----------------------------
(***************************************************************************)
(* The web view component on iOS (MyRCTWebView, MyRCTWebViewManager): the  *)
(* main thread asks the React side whether a page may be loaded and waits  *)
(* for the answer, 250 ms at most; the answer comes on the thread of the   *)
(* manager's exported methods, however late.                               *)
(*                                                                         *)
(* Each request makes a new NSConditionLock, whose condition is a random   *)
(* number that names the request; the numbers are taken to be different    *)
(* and not 0.  The answering thread reads _shouldStartLoadLock once for    *)
(* tryLockWhenCondition and again for unlockWithCondition.                 *)
(***************************************************************************)
EXTENDS Naturals

CONSTANT Requests \* requests, numbered in the order they are made

ASSUME RequestsAssumption == Requests \subseteq Nat \ {0}

VARIABLES
  lock,       \* _shouldStartLoadLock: the request it was made for; 0 is nil
  condition,  \* condition of each request's lock
  shouldStartLoad,
  waiting,    \* the request the main thread waits for, or 0
  asked,      \* requests the React side has been told of
  answer,     \* its answers: "none", "yes", "no"
  storing,    \* the answering thread: the request whose lock it holds, or 0
  stored,     \* ... and whether it has set _shouldStartLoad
  decision,   \* what shouldStartLoadForRequest has returned: "none", "yes",
              \* "no", "late" (the default)
  met         \* history: the request whose answer was being stored when this
              \* one's lock was made, or 0

iosVars == <<lock, condition, shouldStartLoad, waiting, asked, answer, storing, stored, decision, met>>

IOSInit ==
  /\ lock = 0
  /\ condition = [r \in Requests |-> r]
  /\ shouldStartLoad = "yes"
  /\ waiting = 0
  /\ asked = {}
  /\ answer = [r \in Requests |-> "none"]
  /\ storing = 0
  /\ stored = FALSE
  /\ decision = [r \in Requests |-> "none"]
  /\ met = [r \in Requests |-> 0]

-----------------------------------------------------------------------------
(* Main thread, shouldStartLoadForRequest: a new lock, ...                 *)
NewLock(r) ==
  /\ waiting = 0
  /\ decision[r] = "none"
  /\ \A q \in Requests : q < r => decision[q] # "none"
  /\ lock' = r
  /\ met' = [met EXCEPT ![r] = storing]
  /\ waiting' = r
  /\ UNCHANGED <<condition, shouldStartLoad, asked, answer, storing, stored, decision>>

(* ... YES by default, and the callback to the React side.                 *)
Ask ==
  /\ waiting # 0 /\ waiting \notin asked
  /\ shouldStartLoad' = "yes"
  /\ asked' = asked \cup {waiting}
  /\ UNCHANGED <<lock, condition, waiting, answer, storing, stored, decision, met>>

(* lockWhenCondition:0 succeeds in time; the lock is free then.            *)
TakeAnswer ==
  /\ waiting \in asked
  /\ condition[lock] = 0 /\ storing # lock
  /\ decision' = [decision EXCEPT ![waiting] = shouldStartLoad]
  /\ lock' = 0
  /\ waiting' = 0
  /\ UNCHANGED <<condition, shouldStartLoad, asked, answer, storing, stored, met>>

(* 250 ms are over: YES, and the lock stays where it is.                   *)
TimeOut ==
  /\ waiting \in asked
  /\ decision' = [decision EXCEPT ![waiting] = "late"]
  /\ waiting' = 0
  /\ UNCHANGED <<lock, condition, shouldStartLoad, asked, answer, storing, stored, met>>

-----------------------------------------------------------------------------
(* Fault: the number of the request is not compared.                       *)
CanLockAny(r) == lock # 0 /\ condition[lock] # 0 /\ storing = 0

(* The React side answers a request it has been told of, in any order.     *)
(* startLoadWithResult: tryLockWhenCondition fails for a lock of another   *)
(* request and for nil, and the answer is dropped.                         *)
CanLock(r) == lock # 0 /\ condition[lock] = r /\ storing = 0

StartLoadWithResult(r, result) ==
  /\ r \in asked /\ answer[r] = "none" /\ storing = 0
  /\ answer' = [answer EXCEPT ![r] = result]
  /\ storing' = IF CanLock(r) THEN r ELSE 0
  /\ stored' = FALSE
  /\ UNCHANGED <<lock, condition, shouldStartLoad, waiting, asked, decision, met>>

(* _shouldStartLoad = result, ...                                          *)
Store ==
  /\ storing # 0 /\ ~stored
  /\ shouldStartLoad' = answer[storing]
  /\ stored' = TRUE
  /\ UNCHANGED <<lock, condition, waiting, asked, answer, storing, decision, met>>

(* ... unlockWithCondition:0 of the lock that is there now.                *)
Unlock ==
  /\ stored
  /\ condition' = [r \in Requests |-> IF r = lock THEN 0 ELSE condition[r]]
  /\ storing' = 0
  /\ stored' = FALSE
  /\ UNCHANGED <<lock, shouldStartLoad, waiting, asked, answer, decision, met>>

IOSNext ==
  \/ \E r \in Requests : NewLock(r)
  \/ Ask \/ TakeAnswer \/ TimeOut
  \/ \E r \in Requests, result \in {"yes", "no"} : StartLoadWithResult(r, result)
  \/ Store \/ Unlock

IOSSpec == IOSInit /\ [][IOSNext]_iosVars

-----------------------------------------------------------------------------
(* "Block the main thread for a maximum of 250ms until the JS thread       *)
(* returns" (MyRCTWebViewManager.m:136): a decision that is not the        *)
(* default is the answer to the same request, however late or in which     *)
(* order the answers to earlier ones come, unless its lock was made while  *)
(* an answer was being stored (line 131 between lines 150 and 152).  Then  *)
(* the unlocking opens this lock, and the request gets that answer, or the *)
(* YES that Ask sets, and no third request's.                              *)
DecisionIsOwn ==
  \A r \in Requests : decision[r] \in {"yes", "no"} =>
    \/ decision[r] = answer[r]
    \/ met[r] # 0 /\ decision[r] \in {"yes", answer[met[r]]}

(* What that comment says, taken at its word: a decision other than the    *)
(* default is made when the JS thread has answered this request.           *)
WaitsForItsAnswer ==
  \A r \in Requests : decision[r] \in {"yes", "no"} => answer[r] # "none"
=============================================================================
