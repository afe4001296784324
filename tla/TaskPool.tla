------------------------------ MODULE TaskPool ------------------------------
(***************************************************************************)
(* The free list behind TaskAllocator (Core/Utility/Pool.h, used as        *)
(* FreeList<Task, 2048>): a lock-free stack of N preallocated objects that *)
(* every thread of the program takes Tasks from and gives them back to.    *)
(*                                                                         *)
(* A Holder is one lifetime of a Task in flight: whoever calls Aquire, and *)
(* whoever later calls Release on the same object (in the program often    *)
(* another thread).  The number of Holders is the number of Tasks the      *)
(* program may keep alive at once.                                         *)
(*                                                                         *)
(* boost::lockfree::stack is atomic: empty, push and pop are one step      *)
(* each.  Aquire and Release are NOT: they are split where the code calls  *)
(* the stack or the heap, so that another thread runs in between.          *)
(***************************************************************************)
EXTENDS Naturals, Sequences, FiniteSets, Functions

CONSTANTS
  Holders,   \* lifetimes of Tasks in flight
  Heap,      \* addresses the heap can give for a Task
  N,         \* capacity of the stack and number of preallocated objects
  NoObj      \* the null pointer

ASSUME PoolAssumption ==
  /\ N \in Nat
  /\ IsFiniteSet(Holders)
  /\ IsFiniteSet(Heap)
  /\ NoObj \notin Heap

VARIABLES
  freelist,  \* m_FreeList, top of the stack first
  fresh,     \* addresses the heap has not given out
  pc,        \* where each holder is inside Aquire and Release
  obj,       \* the object of each holder (the local `ret' or `newObj')
  closed,    \* ~FreeList has begun (static destruction at exit)
  crowded    \* history: more than N Tasks have been in flight at once

vars == <<freelist, fresh, pc, obj, closed, crowded>>

PCs == {"idle",      \* outside, holds nothing
        "new",       \* saw an empty list: about to allocate
        "pushNew",   \* has allocated: about to push the new object
        "pop",       \* saw a non-empty list: about to pop
        "null",      \* popped nothing: constructs a Task at address 0
        "held",      \* Aquire returned, the Task is in use
        "destroyed"} \* Release has run ~T: about to push

-----------------------------------------------------------------------------
(* Fault: one off in the capacity.                                          *)
PushOnShort(s, o) == IF Len(s) < N - 1 THEN <<o>> \o s ELSE s

(* The stack.  A push on a full fixed-capacity stack fails; Release and     *)
(* Aquire ignore the result.                                                *)
PushOn(s, o) == IF Len(s) < N THEN <<o>> \o s ELSE s

Move(h, from, to) ==
  /\ pc[h] = from
  /\ pc' = [pc EXCEPT ![h] = to]

(* The Tasks in flight, from the call of Aquire to the end of Release.      *)
Busy == {h \in Holders : pc[h] # "idle"}

(* Fault: the constructor allocates one object less.                        *)
GrownShort == {s \in [1..(N - 1) -> Heap] : IsInjective(s)}

(* Grow, called by the constructor with targetSize = N and m_CurSize = 0.   *)
Grown == {s \in [1..N -> Heap] : IsInjective(s)}

Init ==
  /\ freelist \in Grown
  /\ fresh = Heap \ Range(freelist)
  /\ pc = [h \in Holders |-> "idle"]
  /\ obj = [h \in Holders |-> NoObj]
  /\ closed = FALSE
  /\ crowded = FALSE

(* Writing through the null pointer stops the process.                      *)
Alive == \A h \in Holders : pc[h] # "null"

-----------------------------------------------------------------------------
(* Aquire: if(m_FreeList.empty()) ... else fall through to the pop.         *)
AquireCheck(h) ==
  /\ ~closed
  /\ Move(h, "idle", IF freelist = <<>> THEN "new" ELSE "pop")
  /\ crowded' = (crowded \/ Cardinality(Busy') > N)
  /\ UNCHANGED <<freelist, fresh, obj, closed>>

(* Aquire, empty list: T* newObj = XLN_OBJ_NEW T().                         *)
AquireNew(h) ==
  /\ Move(h, "new", "pushNew")
  /\ \E o \in fresh :
        /\ fresh' = fresh \ {o}
        /\ obj' = [obj EXCEPT ![h] = o]
  /\ UNCHANGED <<freelist, closed, crowded>>

(* Aquire, empty list: push(newObj), then return the very same object.      *)
AquirePushNew(h) ==
  /\ Move(h, "pushNew", "held")
  /\ freelist' = PushOn(freelist, obj[h])
  /\ UNCHANGED <<fresh, obj, closed, crowded>>

(* Fault: the object is read but stays on the list.                         *)
AquirePopPeek(h) ==
  /\ freelist # <<>>
  /\ Move(h, "pop", "held")
  /\ obj' = [obj EXCEPT ![h] = Head(freelist)]
  /\ UNCHANGED <<freelist, fresh, closed, crowded>>

(* Aquire, non-empty list: pop(ret), then construct at ret.                 *)
AquirePop(h) ==
  /\ freelist # <<>>
  /\ Move(h, "pop", "held")
  /\ obj' = [obj EXCEPT ![h] = Head(freelist)]
  /\ freelist' = Tail(freelist)
  /\ UNCHANGED <<fresh, closed, crowded>>

(* Aquire: the list became empty since the check, pop leaves ret = 0.       *)
AquirePopNull(h) ==
  /\ freelist = <<>>
  /\ Move(h, "pop", "null")
  /\ UNCHANGED <<freelist, fresh, obj, closed, crowded>>

(* Release: releaseObj->~T().                                               *)
ReleaseDestroy(h) ==
  /\ Move(h, "held", "destroyed")
  /\ UNCHANGED <<freelist, fresh, obj, closed, crowded>>

(* Release: m_FreeList.push(releaseObj).                                    *)
ReleasePush(h) ==
  /\ Move(h, "destroyed", "idle")
  /\ freelist' = PushOn(freelist, obj[h])
  /\ obj' = [obj EXCEPT ![h] = NoObj]
  /\ UNCHANGED <<fresh, closed, crowded>>

(* ~FreeList calls Free once no thread uses the list any more.              *)
FreeBegin ==
  /\ ~closed
  /\ \A h \in Holders : pc[h] = "idle"
  /\ closed' = TRUE
  /\ UNCHANGED <<freelist, fresh, pc, obj, crowded>>

(* Free: one turn of the loop, pop and delete.                              *)
FreePop ==
  /\ closed
  /\ freelist # <<>>
  /\ freelist' = Tail(freelist)
  /\ fresh' = fresh \cup {Head(freelist)}
  /\ UNCHANGED <<pc, obj, closed, crowded>>

Aquire(h) ==
  AquireCheck(h) \/ AquireNew(h) \/ AquirePushNew(h) \/ AquirePop(h) \/ AquirePopNull(h)

Release(h) == ReleaseDestroy(h) \/ ReleasePush(h)

Next ==
  /\ Alive
  /\ \/ \E h \in Holders : Aquire(h) \/ Release(h)
     \/ FreeBegin
     \/ FreePop

Spec == Init /\ [][Next]_vars

-----------------------------------------------------------------------------
(* Properties.                                                              *)

TypeOK ==
  /\ freelist \in Seq(Heap)
  /\ fresh \in SUBSET Heap
  /\ pc \in [Holders -> PCs]
  /\ obj \in [Holders -> Heap \cup {NoObj}]
  /\ closed \in BOOLEAN
  /\ crowded \in BOOLEAN

Owns(h) == pc[h] \in {"pushNew", "held", "destroyed"}

(* The objects of the list and of the holders.                              *)
Owned == {obj[h] : h \in {g \in Holders : Owns(g)}}
Circulating == Range(freelist) \cup Owned

Exclusive ==
  /\ \A g, h \in Holders : Owns(g) /\ Owns(h) /\ g # h => obj[g] # obj[h]
  /\ Range(freelist) \cap Owned = {}
  /\ IsInjective(freelist)

(* While the program never had more than N Tasks in flight at once, no two  *)
(* of them are the same object, and none is on the free list, where the     *)
(* next Aquire would hand it out again, in any interleaving of the steps of *)
(* Aquire and Release and however often objects go round.                   *)
ExclusiveOwnership == ~crowded => Exclusive

(* Then pop never finds the list empty after empty() said it was not:       *)
(* Aquire never constructs a Task at the null pointer.                      *)
NoNullTask == ~crowded => \A h \in Holders : pc[h] # "null"

(* Then no push is refused and no object lost: every object the heap gave   *)
(* out is on the list or held, and when Free is done the heap has all of    *)
(* them back.                                                               *)
NothingLost ==
  ~crowded =>
    /\ Heap \ fresh = Circulating
    /\ closed /\ freelist = <<>> => fresh = Heap

=============================================================================
