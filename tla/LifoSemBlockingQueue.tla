------------------------ MODULE LifoSemBlockingQueue ------------------------
(***************************************************************************)
(* The queue between the clients of a CPU thread pool and its threads      *)
(* (Core/Foundation/Task/LifoSemBlockingQueue.h): a folly::MPMCQueue of    *)
(* bounded capacity and a folly::LifoSem that counts the calls of Add.     *)
(*                                                                         *)
(* Every call of the queue or the semaphore is one step, so the calls of   *)
(* several actors interleave inside Add and Take.  The template parameter  *)
(* kBehavior is chosen initially; the case THROW of its switch has no      *)
(* break and goes on to the case BLOCK.  A folly write that fails          *)
(* spuriously while a read is in progress is left out: write fails only    *)
(* on a full queue.                                                        *)
(***************************************************************************)
EXTENDS Naturals, Sequences, FiniteSets

CONSTANTS
  Adders,     \* threads that call Add
  Takers,     \* threads that call Take; they may call Add too
  Items,      \* what is queued
  Behaviors,  \* kBehavior of the queues in use: "THROW" (the default), "BLOCK"
  Capacity,   \* capacity of m_Queue
  MaxSem,     \* the bound on sem: nobody begins to add beyond it
  NoItem      \* no item

Actors == Adders \cup Takers

ASSUME QueueAssumption ==
  /\ IsFiniteSet(Adders) /\ IsFiniteSet(Takers)
  /\ Behaviors \subseteq {"THROW", "BLOCK"}
  /\ Capacity \in Nat \ {0}
  /\ MaxSem \in Nat
  /\ NoItem \notin Items

VARIABLES
  behavior, \* kBehavior of the queue
  queue,    \* m_Queue
  sem,      \* the value of m_LifoSem
  point,    \* where each actor is in Add or Take
  arg       \* the item it adds, or has taken

vars == <<behavior, queue, sem, point, arg>>

Points == {"out",           \* in no call
           "write",         \* Add, case THROW: m_Queue.write
           "thrown",        \* Add has thrown QueueFullException
           "blockingWrite", \* Add, case BLOCK: m_Queue.blockingWrite
           "post",          \* Add: m_LifoSem.post
           "read",          \* Take: m_Queue.readIfNotEmpty
           "wait",          \* Take: m_LifoSem.wait
           "taken"}         \* Take has returned the item

Init ==
  /\ behavior \in Behaviors
  /\ queue = <<>>
  /\ sem = 0
  /\ point = [a \in Actors |-> "out"]
  /\ arg = [a \in Actors |-> NoItem]

Step(a, from, to) ==
  /\ point[a] = from
  /\ point' = [point EXCEPT ![a] = to]
  /\ behavior' = behavior

Full == Len(queue) >= Capacity

-----------------------------------------------------------------------------
(* Add(item): the switch on kBehavior.                                     *)
BeginAdd(a, i) ==
  /\ Step(a, "out", IF behavior = "THROW" THEN "write" ELSE "blockingWrite")
  /\ arg' = [arg EXCEPT ![a] = i]
  /\ UNCHANGED <<queue, sem>>

(* case THROW: write succeeded; there is no break.                         *)
Write(a) ==
  /\ ~Full
  /\ Step(a, "write", "blockingWrite")
  /\ queue' = Append(queue, arg[a])
  /\ UNCHANGED <<sem, arg>>

(* case THROW: write failed, throw QueueFullException.                     *)
Throw(a) ==
  /\ Full
  /\ Step(a, "write", "thrown")
  /\ UNCHANGED <<queue, sem, arg>>

(* Fault: Add returns without the post.                                    *)
BlockingWriteReturns(a) ==
  /\ ~Full
  /\ Step(a, "blockingWrite", "out")
  /\ queue' = Append(queue, arg[a])
  /\ arg' = [arg EXCEPT ![a] = NoItem]
  /\ UNCHANGED sem

(* Fault: last in, first out.                                              *)
BlockingWriteFront(a) ==
  /\ ~Full
  /\ Step(a, "blockingWrite", "post")
  /\ queue' = <<arg[a]>> \o queue
  /\ arg' = [arg EXCEPT ![a] = NoItem]
  /\ UNCHANGED sem

(* case BLOCK: blockingWrite waits for room.                               *)
BlockingWrite(a) ==
  /\ ~Full
  /\ Step(a, "blockingWrite", "post")
  /\ queue' = Append(queue, arg[a])
  /\ arg' = [arg EXCEPT ![a] = NoItem]
  /\ UNCHANGED sem

(* Fault: the post is lost.                                                *)
PostLost(a) ==
  /\ Step(a, "post", "out")
  /\ UNCHANGED <<queue, sem, arg>>

(* Add ends with m_LifoSem.post().                                         *)
Post(a) ==
  /\ Step(a, "post", "out")
  /\ sem' = sem + 1
  /\ UNCHANGED <<queue, arg>>

AddStep(a) == Write(a) \/ Throw(a) \/ BlockingWrite(a) \/ Post(a)

(* The caller of Add catches the exception.                                *)
Catch(a) ==
  /\ Step(a, "thrown", "out")
  /\ arg' = [arg EXCEPT ![a] = NoItem]
  /\ UNCHANGED <<queue, sem>>

-----------------------------------------------------------------------------
(* Take(): while(!readIfNotEmpty(item)) wait.                              *)
BeginTake(a) ==
  /\ Step(a, "out", "read")
  /\ UNCHANGED <<queue, sem, arg>>

Read(a) ==
  /\ queue # <<>>
  /\ Step(a, "read", "taken")
  /\ arg' = [arg EXCEPT ![a] = Head(queue)]
  /\ queue' = Tail(queue)
  /\ UNCHANGED sem

ReadEmpty(a) ==
  /\ queue = <<>>
  /\ Step(a, "read", "wait")
  /\ UNCHANGED <<queue, sem, arg>>

Wait(a) ==
  /\ sem > 0
  /\ Step(a, "wait", "read")
  /\ sem' = sem - 1
  /\ UNCHANGED <<queue, arg>>

TakeStep(a) == Read(a) \/ ReadEmpty(a) \/ Wait(a)

(* The caller of Take is done with the item.                               *)
Consume(a) ==
  /\ Step(a, "taken", "out")
  /\ arg' = [arg EXCEPT ![a] = NoItem]
  /\ UNCHANGED <<queue, sem>>

-----------------------------------------------------------------------------
(* The queue among callers that add an item only when it is nowhere (a     *)
(* Task is acquired from the pool of free Tasks) and add as often as they  *)
(* like.  MaxSem bounds the excess of the semaphore that Takes which find  *)
(* an item without waiting leave behind.                                   *)

InTransit(i) == \E a \in Actors : arg[a] = i
Queued(i) == \E n \in 1..Len(queue) : queue[n] = i

Next ==
  \/ \E a \in Adders :
       \/ \E i \in Items : ~InTransit(i) /\ ~Queued(i) /\ sem < MaxSem /\ BeginAdd(a, i)
       \/ AddStep(a)
       \/ Catch(a)
  \/ \E a \in Takers : BeginTake(a) \/ TakeStep(a) \/ Consume(a)

Spec == Init /\ [][Next]_vars

(* Calls go on and takers come back; a blockingWrite has a ticket in the   *)
(* MPMCQueue, so it is not overtaken for ever.                             *)
Fairness ==
  /\ \A a \in Adders : WF_vars(AddStep(a) \/ Catch(a)) /\ SF_vars(BlockingWrite(a))
  /\ \A a \in Takers : WF_vars(BeginTake(a) \/ TakeStep(a) \/ Consume(a))

FairSpec == Spec /\ Fairness

-----------------------------------------------------------------------------
TypeOK ==
  /\ behavior \in {"THROW", "BLOCK"}
  /\ queue \in Seq(Items)
  /\ Len(queue) <= Capacity
  /\ sem \in Nat
  /\ point \in [Actors -> Points]
  /\ arg \in [Actors -> Items \cup {NoItem}]

(* The work that is queued is covered: every queued item has a post in the *)
(* semaphore or on its way, or a taker about to read.                      *)
AtPoint(p) == {a \in Actors : point[a] = p}

Covered ==
  Len(queue) <= sem + Cardinality(AtPoint("post")) + Cardinality(AtPoint("read"))

(* With kBehavior = BLOCK no taker sleeps on work: when an item is queued  *)
(* and a taker waits, the semaphore lets it in, or a post or a read is     *)
(* still to come, although Take tests the queue before the semaphore and   *)
(* leaves posts behind when it need not wait.                              *)
NoSleepOnWork ==
  behavior = "BLOCK" /\ queue # <<>> /\ AtPoint("wait") # {} =>
    sem > 0 \/ AtPoint("post") # {} \/ AtPoint("read") # {}

(* Every Add that begins ends, by throwing or with its item taken (both    *)
(* copies of it, with kBehavior = THROW, although it posts only once),     *)
(* however many adders compete for room and takers for items.  THROW needs *)
(* more room than there are adders: they may all have a first copy in the  *)
(* queue before the first post.                                            *)
EveryItemTaken ==
  \A i \in Items : (InTransit(i) \/ Queued(i)) ~> ~(InTransit(i) \/ Queued(i))
=============================================================================
