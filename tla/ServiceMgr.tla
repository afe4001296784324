----------------------------- MODULE ServiceMgr -----------------------------
(***************************************************************************)
(* The service manager (Core/Foundation/ServiceMgr.cpp), the main thread   *)
(* that initialises and shuts it down (Core/Framework/System.cpp), and the *)
(* frame thread, which the frame service (ExecutorService) starts in its   *)
(* OnInit and stops in its OnDestroy, and which runs RunOnce every frame.  *)
(*                                                                         *)
(* A class (a ServiceID, the address of its RTTI) is a number, so that the *)
(* order of std::map is the order of numbers.  A class has at most one     *)
(* service object, and the object is named by its class.  Every call of a  *)
(* service's OnInit, OnTick, OnRender or OnDestroy is a step.  A call of a *)
(* destroyed or unregistered service sets broken, and the model stops.     *)
(*                                                                         *)
(* The frame thread reads the list without a lock while the main thread    *)
(* appends to it: it finds the new element or not, as push_back links it   *)
(* when it is complete.                                                    *)
(***************************************************************************)
EXTENDS Integers, Sequences, SequencesExt

CONSTANTS
  Classes,        \* ServiceIDs, ordered by address
  Configurations, \* [objects, base, deps, frameService]: the classes that are not
                  \* abstract, GetBaseRTTI and GetDependency of each class, and
                  \* the service that owns the frame thread, or 0
  MaxSetups,      \* bound on the registrations that are undone
  Contract        \* TRUE: the dependencies of services are registered and
                  \* not cyclic, and nothing is unregistered after Init

ASSUME ServiceMgrAssumption ==
  /\ Classes \subseteq Nat \ {0} /\ IsFiniteSet(Classes)
  /\ \A c \in Configurations :
       /\ c.objects \subseteq Classes /\ c.frameService \in c.objects \cup {0}
       /\ \A s \in c.objects : c.deps[s] \in Seq(Classes)
  /\ MaxSetups \in Nat
  /\ Contract \in BOOLEAN

VARIABLES
  objects,     \* the classes that are not abstract
  base,        \* GetBaseRTTI of each class, 0 at the root
  deps,        \* GetDependency of each class, a sequence
  frameService,\* the service that owns the frame thread, 0: none
  services,    \* the keys of m_Services
  order,       \* m_Order of their ServiceInfo
  fast,        \* m_FastSearchMap: the service of each class, 0: none
  opList,      \* m_ServiceOpList
  initialized, \* m_Initialized
  life,        \* of each service: absent, registered, inited, destroyed
  main,        \* where the main thread is, and in which element of opList,
               \* or which service it registers
  frame,       \* where the frame thread is, and in which element
  undone,      \* how many registrations were undone
  broken       \* undefined behaviour has occurred

config == <<objects, base, deps, frameService>>
maps == <<services, order, fast, opList>>
vars == <<config, maps, initialized, life, main, frame, undone, broken>>

NewManager(c) ==
  /\ objects = c.objects /\ base = c.base
  /\ deps = c.deps /\ frameService = c.frameService
  /\ services = {}
  /\ order = [s \in Classes |-> -1]
  /\ fast = [k \in Classes |-> 0]
  /\ opList = <<>>
  /\ initialized = FALSE
  /\ life = [s \in c.objects |-> "absent"]
  /\ main = [pc |-> "setup", pos |-> 0]
  /\ frame = [pc |-> "none", pos |-> 0]
  /\ undone = 0
  /\ broken = FALSE

Init == \E c \in Configurations : NewManager(c)

(* A class and its bases, up to the root (id = id->GetBaseRTTI()).         *)
Bases[c \in Classes] == IF base[c] = 0 THEN {} ELSE {base[c]} \cup Bases[base[c]]
Chain(c) == {c} \cup Bases[c]

(* The registered services that are a class: the search of                 *)
(* RecurrsiveBuildDep takes the first, GetService the last registered.     *)
Providers(c) == {s \in services : c \in Chain(s)}
First(S) == CHOOSE s \in S : \A t \in S : s <= t

-----------------------------------------------------------------------------
(* BuildDep.                                                               *)

(* Fault: the last dependency counts, not the deepest one.                 *)
LastDep(max, result) == 1 + result

DeepestDep(max, result) == IF max < 1 + result THEN 1 + result ELSE max

(* RecurrsiveBuildDep(parentIDs, info of the service), when it comes to    *)
(* dependency i and the deepest one so far is maxDep: the m_Order of all   *)
(* services after the call and what it returns.                            *)
Orders == [Classes -> Int]
Calls ==
  [order : Orders, service : services, parentIDs : SUBSET Classes, i : Nat \ {0}, maxDep : Int]

BuildDepFrom[c \in Calls] ==
  LET s == c.service IN
  IF c.i = 1 /\ c.order[s] # -1 THEN [order |-> c.order, result |-> c.order[s]]
  ELSE IF deps[s] = <<>> THEN [order |-> c.order, result |-> 0]
  ELSE IF c.i > Len(deps[s])
    THEN [order |-> [c.order EXCEPT ![s] = c.maxDep], result |-> c.maxDep]
  ELSE LET d == deps[s][c.i] IN
    IF d \in c.parentIDs \/ Providers(d) = {} THEN [order |-> c.order, result |-> -1]
    ELSE LET dep == BuildDepFrom[[order |-> c.order, service |-> First(Providers(d)),
                                  parentIDs |-> c.parentIDs \cup {d}, i |-> 1, maxDep |-> -1]]
         IN BuildDepFrom[[order |-> dep.order, service |-> s, parentIDs |-> c.parentIDs,
                          i |-> c.i + 1, maxDep |-> DeepestDep(c.maxDep, dep.result)]]

RecurrsiveBuildDep(ord, s, parentIDs) ==
  BuildDepFrom[[order |-> ord, service |-> s, parentIDs |-> parentIDs, i |-> 1, maxDep |-> -1]]

(* BuildDep: all services in the order of the map.                         *)
Builds == [order : Orders, todo : SUBSET services]

BuiltFrom[b \in Builds] ==
  IF b.todo = {} THEN b.order
  ELSE LET s == First(b.todo) IN
    BuiltFrom[[order |-> RecurrsiveBuildDep(b.order, s, {s}).order, todo |-> b.todo \ {s}]]

BuiltOrder == BuiltFrom[[order |-> order, todo |-> services]]

(* The op list: std::list::sort by m_Order rearranges the services, which  *)
(* BuildDep put there in the order of the map; it is stable.               *)
Before(ord, s, t) == ord[s] < ord[t] \/ (ord[s] = ord[t] /\ s < t)

SortedLists(ord) ==
  {q \in SetToSeqs(services) : \A i, j \in DOMAIN q : i < j => Before(ord, q[i], q[j])}

-----------------------------------------------------------------------------
(* Registration, by the main thread.                                       *)

(* RegisterService, OnPreInit and OnInit: a service registered before Init *)
(* waits for it; one registered later is initialised at once, whether the  *)
(* frame thread runs or not, and the frame service starts it.  Under the   *)
(* contract its dependencies are there.                                    *)
RegisterService(s) ==
  /\ main.pc \in {"setup", "running"}
  /\ s \notin services
  /\ life[s] = "absent"
  /\ IF initialized
     THEN /\ Contract => \A d \in ToSet(deps[s]) : Providers(d) # {}
          /\ life' = [life EXCEPT ![s] = "inited"]
          /\ frame' = IF s = frameService THEN [pc |-> "test", pos |-> 0] ELSE frame
          /\ main' = [pc |-> "enlist", pos |-> s]
          /\ UNCHANGED <<services, order, fast>>
     ELSE /\ services' = services \cup {s}
          /\ fast' = [c \in Classes |-> IF c \in Chain(s) THEN s ELSE fast[c]]
          /\ life' = [life EXCEPT ![s] = "registered"]
          /\ order' = [order EXCEPT ![s] = -1]
          /\ UNCHANGED <<main, frame>>
  /\ UNCHANGED <<config, opList, initialized, undone, broken>>

(* Fault: a late service is not put in the list.                           *)
EnlistNot ==
  /\ main.pc = "enlist"
  /\ LET s == main.pos IN
     /\ services' = services \cup {s}
     /\ fast' = [c \in Classes |-> IF c \in Chain(s) THEN s ELSE fast[c]]
  /\ main' = [pc |-> "running", pos |-> 0]
  /\ UNCHANGED <<config, order, opList, initialized, life, frame, undone, broken>>

(* RegisterService of a late service, after OnInit: it is put at the end   *)
(* of the list, with the order that the conversion of infinity() to an     *)
(* integer gives, 0 (numeric_limits<Int32> has no infinity), and found.    *)
Enlist ==
  /\ main.pc = "enlist"
  /\ LET s == main.pos IN
     /\ services' = services \cup {s}
     /\ fast' = [c \in Classes |-> IF c \in Chain(s) THEN s ELSE fast[c]]
     /\ order' = [order EXCEPT ![s] = 0]
     /\ opList' = Append(opList, s)
  /\ main' = [pc |-> "running", pos |-> 0]
  /\ UNCHANGED <<config, initialized, life, frame, undone, broken>>

(* Fault: the base classes still lead to the service.                      *)
UnRegisterServiceOnly(s) ==
  /\ main.pc \in IF Contract THEN {"setup"} ELSE {"setup", "running"}
  /\ s \in services
  /\ undone < MaxSetups
  /\ undone' = undone + 1
  /\ services' = services \ {s}
  /\ fast' = [fast EXCEPT ![s] = 0]
  /\ life' = [life EXCEPT ![s] = "absent"]
  /\ UNCHANGED <<config, order, opList, initialized, main, frame, broken>>

(* UnRegisterService: the op list keeps its entry.  The caller owns the    *)
(* service again and deletes it; an object of the class may come back.     *)
UnRegisterService(s) ==
  /\ main.pc \in IF Contract THEN {"setup"} ELSE {"setup", "running"}
  /\ s \in services
  /\ undone < MaxSetups
  /\ undone' = undone + 1
  /\ services' = services \ {s}
  /\ fast' = [c \in Classes |-> IF c \in Chain(s) THEN 0 ELSE fast[c]]
  /\ life' = [life EXCEPT ![s] = "absent"]
  /\ UNCHANGED <<config, order, opList, initialized, main, frame, broken>>

-----------------------------------------------------------------------------
(* Init and ShutDown, by the main thread.                                  *)

(* Under the contract dependencies are registered and not cyclic, whichever *)
(* provider of a class is meant (the check of RecurrsiveBuildDep compares   *)
(* classes, not the services it finds).                                     *)
Needed(s) == UNION {Providers(d) : d \in ToSet(deps[s])}
Acyclic == \A S \in SUBSET services \ {{}} : {s \in S : Needed(s) \cap S = {}} # {}

Provided == \A s \in services : \A d \in ToSet(deps[s]) : Providers(d) # {}

MayInit == Contract => Provided /\ Acyclic

(* ServiceMgr::Init: m_Initialized, BuildDep.                              *)
InitServices ==
  /\ main.pc = "setup"
  /\ services # {}
  /\ initialized' = TRUE
  /\ order' = BuiltOrder
  /\ opList' \in SortedLists(order')
  /\ MayInit
  /\ main' = [pc |-> "init", pos |-> 1]
  /\ UNCHANGED <<config, services, fast, life, frame, undone, broken>>

(* Init: OnInit of the services in the list.  ExecutorService::OnInit      *)
(* starts the frame thread.                                                *)
OnInit ==
  /\ main.pc = "init"
  /\ main.pos <= Len(opList)
  /\ LET s == opList[main.pos] IN
     /\ life' = [life EXCEPT ![s] = "inited"]
     /\ frame' = IF s = frameService THEN [pc |-> "test", pos |-> 0] ELSE frame
  /\ main' = [main EXCEPT !.pos = @ + 1]
  /\ UNCHANGED <<config, maps, initialized, undone, broken>>

InitDone ==
  /\ main.pc = "init"
  /\ main.pos > Len(opList)
  /\ main' = [pc |-> "running", pos |-> 0]
  /\ UNCHANGED <<config, maps, initialized, life, frame, undone, broken>>

(* ServiceMgr::ShutDown: OnDestroy of the services from the last to the    *)
(* first, and delete.                                                      *)
ShutDown ==
  /\ main.pc = "running"
  /\ main' = [pc |-> "shutdown", pos |-> Len(opList)]
  /\ UNCHANGED <<config, maps, initialized, life, frame, undone, broken>>

(* ExecutorService::OnDestroy sets m_ThreadExit and joins the frame thread. *)
StopFrame ==
  /\ main.pc = "shutdown"
  /\ main.pos > 0
  /\ opList[main.pos] = frameService
  /\ main' = [main EXCEPT !.pc = "join"]
  /\ UNCHANGED <<config, maps, initialized, life, frame, undone, broken>>

(* Fault: the frame thread is not joined.                                  *)
OnDestroyNoJoin ==
  /\ main.pos > 0
  /\ main.pc = "join" \/ (main.pc = "shutdown" /\ opList[main.pos] # frameService)
  /\ LET s == opList[main.pos] IN
     /\ broken' = (life[s] # "inited")
     /\ life' = [life EXCEPT ![s] = "destroyed"]
  /\ main' = [pc |-> "shutdown", pos |-> main.pos - 1]
  /\ UNCHANGED <<config, maps, initialized, frame, undone>>

OnDestroy ==
  /\ main.pos > 0
  /\ \/ main.pc = "shutdown" /\ opList[main.pos] # frameService
     \/ main.pc = "join" /\ frame.pc = "none"
  /\ LET s == opList[main.pos] IN
     /\ broken' = (life[s] # "inited")
     /\ life' = [life EXCEPT ![s] = "destroyed"]
  /\ main' = [pc |-> "shutdown", pos |-> main.pos - 1]
  /\ UNCHANGED <<config, maps, initialized, frame, undone>>

Clear ==
  /\ main.pc = "shutdown"
  /\ main.pos = 0
  /\ services' = {}
  /\ fast' = [c \in Classes |-> 0]
  /\ opList' = <<>>
  /\ main' = [pc |-> "down", pos |-> 0]
  /\ UNCHANGED <<config, order, initialized, life, frame, undone, broken>>

-----------------------------------------------------------------------------
(* Fault: the loop does not look at m_ThreadExit.                          *)
FrameTestNever ==
  /\ frame.pc = "test"
  /\ frame' = IF initialized THEN [pc |-> "tick", pos |-> 1] ELSE frame
  /\ UNCHANGED <<config, maps, initialized, life, main, undone, broken>>

(* The frame thread: while(!m_ThreadExit) RunOnce.                         *)
FrameTest ==
  /\ frame.pc = "test"
  /\ frame' = IF main.pc = "join" THEN [pc |-> "none", pos |-> 0]
              ELSE IF initialized THEN [pc |-> "tick", pos |-> 1] ELSE frame
  /\ UNCHANGED <<config, maps, initialized, life, main, undone, broken>>

(* RunOnce: OnTick of the next service in the list, and ++iter; after the  *)
(* last one the round of OnRender, then the end of the frame.              *)
Visit ==
  /\ frame.pc \in {"tick", "render"}
  /\ broken' = (life[opList[frame.pos]] \in {"destroyed", "absent"})
  /\ frame' = IF broken' THEN frame
              ELSE IF frame.pos < Len(opList) THEN [frame EXCEPT !.pos = @ + 1]
              ELSE IF frame.pc = "tick" THEN [pc |-> "render", pos |-> 1]
              ELSE [pc |-> "test", pos |-> 0]
  /\ UNCHANGED <<config, maps, initialized, life, main, undone>>

-----------------------------------------------------------------------------
Main ==
  \/ InitServices \/ OnInit \/ InitDone \/ Enlist
  \/ ShutDown \/ StopFrame \/ OnDestroy \/ Clear

Frame == FrameTest \/ Visit

Next ==
  /\ ~broken
  /\ \/ \E s \in objects : RegisterService(s) \/ UnRegisterService(s)
     \/ Main
     \/ Frame

Spec == Init /\ [][Next]_vars

(* Init, RegisterService and ShutDown go on once begun, and the frame      *)
(* thread runs.                                                            *)
Fairness ==
  /\ WF_vars(~broken /\ (OnInit \/ InitDone \/ Enlist \/ StopFrame \/ OnDestroy \/ Clear))
  /\ WF_vars(~broken /\ Frame)

FairSpec == Spec /\ Fairness

-----------------------------------------------------------------------------
(* Properties.                                                             *)
(* Under the contract, while a service is initialised so is a service of   *)
(* every class it depends on, of the class itself or derived from it: the  *)
(* order of RecurrsiveBuildDep, the sort and the reverse iteration of      *)
(* ShutDown agree, whatever the addresses of the classes and the order of  *)
(* registration.                                                           *)
DependenciesAlive ==
  Contract =>
    \A s \in services : life[s] = "inited" =>
      \A d \in ToSet(deps[s]) : \E t \in Providers(d) : life[t] = "inited"

(* Under the contract every registered service is initialised by Init or   *)
(* when it registers, and once: it is in the op list once.                 *)
InitedOnce ==
  Contract /\ main.pc = "running" =>
    /\ \A s \in services : life[s] = "inited"
    /\ ToSet(opList) = services
    /\ Len(opList) = Cardinality(services)

(* GetService returns only a registered service of the class that was asked *)
(* for, through registrations, UnRegisterService and ShutDown; and it       *)
(* returns one if there is one, except that UnRegisterService may take a    *)
(* base class away from its other providers.                                *)
LookupIsExact ==
  \A c \in Classes :
    /\ fast[c] # 0 => fast[c] \in Providers(c)
    /\ undone = 0 \/ Cardinality({s \in objects : c \in Chain(s)}) <= 1 =>
         (Providers(c) # {} => fast[c] # 0)

(* Behind the frame service in the list: a service that Init initialises   *)
(* when the frame thread runs already, and ShutDown destroys while it      *)
(* still runs.                                                             *)
Behind(i) == \E j \in 1..(i - 1) : opList[j] = frameService

(* The frame thread reads the list without a lock while the main thread    *)
(* initialises, registers and destroys services.  Under the contract it    *)
(* yet calls a service that comes before the frame service only while that *)
(* is initialised, however late the frame service is registered; nobody    *)
(* calls a deleted service, except the frame thread one behind its own,    *)
(* which it may also call too early.                                       *)
TicksOnlyLive ==
  Contract =>
    /\ frame.pc \in {"tick", "render"} =>
         \A i \in 1..Len(opList) : ~Behind(i) => life[opList[i]] = "inited"
    /\ broken => /\ frame.pc \in {"tick", "render"} /\ Behind(frame.pos)
                 /\ life[opList[frame.pos]] = "destroyed"

(* "this should crash!" (RecurrsiveBuildDep): Init does not go on to       *)
(* initialise the services when a dependency is not registered.            *)
MissingIsFatal == main.pc = "init" => Provided
=============================================================================
