--------------------------- MODULE ServicesProofs ---------------------------
(***************************************************************************)
(* Proofs about the service manager, for any classes, bases, dependencies  *)
(* and addresses: what GetService returns, and, for callers that keep to   *)
(* the contract, that every service is initialised once, after what it     *)
(* depends on, and which services the frame thread may call too early or   *)
(* too late; and about the log service of a program that starts and stops  *)
(* while other threads log.                                                *)
(***************************************************************************)
EXTENDS System, FiniteSetTheorems, SequenceTheorems, WellFoundedInduction, TLAPS

Once(s) == \A k, l \in DOMAIN s : s[k] = s[l] => k = l

Mains == [pc : {"setup", "init", "running", "enlist", "shutdown", "join", "down"}, pos : Nat]
InUse == {"init", "running", "enlist", "shutdown", "join"}

Types ==
  /\ objects \subseteq Classes /\ frameService \in objects \cup {0}
  /\ services \subseteq objects
  /\ fast \in [Classes -> objects \cup {0}]
  /\ opList \in Seq(objects)
  /\ initialized \in BOOLEAN /\ (initialized <=> main.pc # "setup")
  /\ life \in [objects -> {"absent", "registered", "inited", "destroyed"}]
  /\ main \in Mains /\ (main.pc = "enlist" => main.pos \in objects)
  /\ frame \in [pc : {"none", "test", "tick", "render"}, pos : Nat]
  /\ undone \in Nat /\ broken \in BOOLEAN

(* Between Init and the end of ShutDown the op list has every service once. *)
ListInv ==
  main.pc \in InUse => Once(opList) /\ ToSet(opList) = services /\ Len(opList) > 0

(* Init and ShutDown have come to element main.pos of the list; a service  *)
(* that registers late is initialised and not yet in it.                   *)
LifeInv ==
  /\ main.pc = "setup" => opList = <<>> /\ \A s \in services : life[s] = "registered"
  /\ main.pc = "init" =>
       /\ main.pos \in 1..(Len(opList) + 1)
       /\ \A i \in 1..Len(opList) : life[opList[i]] = IF i < main.pos THEN "inited" ELSE "registered"
  /\ main.pc \in {"running", "enlist"} => \A i \in 1..Len(opList) : life[opList[i]] = "inited"
  /\ main.pc = "enlist" => main.pos \notin services /\ life[main.pos] = "inited"
  /\ main.pc \in {"shutdown", "join"} =>
       /\ main.pos \in 0..Len(opList)
       /\ \A i \in 1..Len(opList) : life[opList[i]] = IF i <= main.pos THEN "inited" ELSE "destroyed"
  /\ main.pc = "join" => main.pos > 0

(* The frame service is among the first k of the list.                     *)
FrameAmong(k) == \E j \in 1..k : opList[j] = frameService

(* The frame thread runs from the OnInit of its service to its OnDestroy.  *)
FrameInv ==
  /\ frame.pc # "none" =>
       /\ main.pc \in InUse
       /\ main.pc = "init" => FrameAmong(main.pos - 1)
       /\ main.pc = "running" => FrameAmong(Len(opList))
       /\ main.pc = "enlist" => main.pos = frameService \/ FrameAmong(Len(opList))
       /\ main.pc \in {"shutdown", "join"} => FrameAmong(main.pos)
  /\ frame.pc \in {"tick", "render"} => frame.pos \in 1..Len(opList)

(* The frame thread has called a deleted service.                          *)
BrokenInv ==
  broken => /\ frame.pc \in {"tick", "render"} /\ Behind(frame.pos)
            /\ life[opList[frame.pos]] = "destroyed"

ContractInv == ListInv /\ LifeInv /\ FrameInv /\ BrokenInv

(* The dependencies of services are classes, and when Init has not begun   *)
(* no service has an order; when it has, every dependency of a service has *)
(* a provider before it in the op list.                                    *)
DepsBefore ==
  \A i \in DOMAIN opList : \A d \in ToSet(deps[opList[i]]) :
    \E j \in DOMAIN opList : j < i /\ opList[j] \in Providers(d)

DepInv ==
  /\ \A s \in objects : deps[s] \in Seq(Classes)
  /\ main.pc = "setup" => order \in Orders /\ \A s \in services : order[s] = -1
  /\ main.pc \in InUse => DepsBefore
  /\ main.pc = "enlist" => \A d \in ToSet(deps[main.pos]) : Providers(d) # {}
  /\ main.pc = "down" => services = {}

ManagerInv == Types /\ LookupIsExact /\ (Contract => ContractInv /\ DepInv)

-----------------------------------------------------------------------------
(* Sequences.                                                              *)

LEMMA AppendElement ==
  ASSUME NEW S, NEW s \in Seq(S), NEW e \in S
  PROVE  /\ Append(s, e) \in Seq(S) /\ Len(Append(s, e)) = Len(s) + 1
         /\ \A i \in 1..Len(s) : Append(s, e)[i] = s[i]
         /\ Append(s, e)[Len(s) + 1] = e
         /\ ToSet(Append(s, e)) = ToSet(s) \cup {e}
         /\ Once(s) /\ e \notin ToSet(s) => Once(Append(s, e))
<1>. DEFINE n == Len(s)
            u == Append(s, e)
<1>1. /\ n \in Nat /\ Len(u) = n + 1 /\ u \in Seq(S)
      /\ DOMAIN s = 1..n /\ DOMAIN u = 1..(n + 1)
      /\ \A i \in 1..n : u[i] = s[i]
      /\ u[n + 1] = e
  OBVIOUS
<1>2. \A i \in 1..(n + 1) : i \in 1..n \/ i = n + 1
  BY <1>1
<1>3. 1..n \subseteq 1..(n + 1) /\ n + 1 \in 1..(n + 1) /\ n + 1 \notin 1..n
  BY <1>1
<1>. HIDE DEF n, u
<1>4. ToSet(s) = {s[i] : i \in 1..n} /\ ToSet(u) = {u[i] : i \in 1..(n + 1)}
  BY <1>1 DEF ToSet
<1>5. ToSet(u) = ToSet(s) \cup {e}
  <2>1. \A x \in ToSet(u) : x \in ToSet(s) \cup {e}
    BY <1>1, <1>2, <1>4
  <2>2. \A x \in ToSet(s) \cup {e} : x \in ToSet(u)
    BY <1>1, <1>3, <1>4
  <2>. QED
    BY <2>1, <2>2
<1>6. Once(s) /\ e \notin ToSet(s) => Once(u)
  BY <1>1, <1>2, <1>4 DEF Once
<1>. QED
  BY <1>1, <1>5, <1>6 DEF n, u

(* A sequence without repetition has as many elements as positions.        *)
LEMMA OnceCounts ==
  ASSUME NEW S, NEW s \in Seq(S), Once(s)
  PROVE  IsFiniteSet(ToSet(s)) /\ Cardinality(ToSet(s)) = Len(s)
<1>1. Len(s) \in Nat /\ s \in [1..Len(s) -> S] /\ DOMAIN s = 1..Len(s)
  BY LenProperties
<1>2. ToSet(s) = {s[i] : i \in 1..Len(s)}
  BY <1>1 DEF ToSet
<1>3. s \in Bijection(1..Len(s), ToSet(s))
  <2>1. s \in [1..Len(s) -> ToSet(s)]
    BY <1>1, <1>2
  <2>2. \A k, l \in 1..Len(s) : s[k] = s[l] => k = l
    BY <1>1 DEF Once
  <2>3. \A x \in ToSet(s) : \E i \in 1..Len(s) : s[i] = x
    BY <1>2
  <2>. QED
    BY <2>1, <2>2, <2>3 DEF Bijection, Injection, Surjection, IsInjective
<1>4. ExistsBijection(1..Len(s), ToSet(s))
  BY <1>3 DEF ExistsBijection
<1>5. IsFiniteSet(1..Len(s)) /\ Cardinality(1..Len(s)) = Len(s)
  BY <1>1, FS_Interval
<1>. QED
  BY <1>1, <1>4, <1>5, FS_Bijection

(* A permutation of a finite set is a sequence of it with each element once. *)
LEMMA Permutation ==
  ASSUME NEW S, IsFiniteSet(S), NEW q \in SetToSeqs(S)
  PROVE  q \in Seq(S) /\ Len(q) = Cardinality(S) /\ Once(q) /\ ToSet(q) = S
<1>. DEFINE n == Cardinality(S)
<1>1. n \in Nat /\ q \in [1..n -> S] /\ \A i, j \in 1..n : i # j => q[i] # q[j]
  BY FS_CardinalityType DEF SetToSeqs
<1>2. q \in Seq(S) /\ Len(q) = n /\ DOMAIN q = 1..n
  BY <1>1, SeqDef
<1>3. Once(q)
  BY <1>1, <1>2 DEF Once
<1>4. ToSet(q) \subseteq S
  BY <1>1, <1>2 DEF ToSet
<1>5. Cardinality(ToSet(q)) = n
  BY <1>2, <1>3, OnceCounts
<1>. QED
  BY <1>2, <1>3, <1>4, <1>5, FS_Subset

-----------------------------------------------------------------------------
(* Recursion.                                                              *)

(* Some element of a set has the smallest measure.                         *)
LEMMA Smallest ==
  ASSUME NEW D, NEW m \in [D -> Nat], NEW T, T \subseteq D, T # {}
  PROVE  \E x \in T : \A y \in T : m[x] <= m[y]
<1>. DEFINE N == {m[x] : x \in T}
<1>1. N \subseteq Nat /\ N # {}
  OBVIOUS
<1>2. PICK n \in N : \A k \in N : ~(<<k, n>> \in OpToRel(<, Nat))
  <2>. HIDE DEF N
  <2>. QED
    BY <1>1, WFMin, NatLessThanWellFounded
<1>3. ASSUME NEW k \in N PROVE n <= k
  <2>. HIDE DEF N
  <2>1. k \in Nat /\ n \in Nat
    BY <1>1
  <2>2. k < n => <<k, n>> \in OpToRel(<, Nat)
    BY <2>1, Zenon DEF OpToRel
  <2>3. ~(k < n)
    BY <1>2, <2>2, Zenon
  <2>. QED
    BY <2>1, <2>3
<1>. QED
  BY <1>3

(* G makes of c and a function on D a value that depends only on what the  *)
(* function is at elements of smaller measure: then there is a function    *)
(* that G defines by recursion.                                            *)
Recursive(G, D, V, m) ==
  /\ m \in [D -> Nat] /\ G \in [D \X [D -> V] -> V]
  /\ \A c \in D : \A f, g \in [D -> V] :
       (\A y \in D : m[y] < m[c] => f[y] = g[y]) => G[<<c, f>>] = G[<<c, g>>]

Solution(f, G, D, V) == f \in [D -> V] /\ \A c \in D : f[c] = G[<<c, f>>]

LEMMA Recursion ==
  ASSUME NEW D, NEW V, NEW v0 \in V, NEW m, NEW G, Recursive(G, D, V, m)
  PROVE  \E f : Solution(f, G, D, V)
<1>. SUFFICES ASSUME m \in [D -> Nat], G \in [D \X [D -> V] -> V],
                     \A c \in D : \A f, g \in [D -> V] :
                       (\A y \in D : m[y] < m[c] => f[y] = g[y]) => G[<<c, f>>] = G[<<c, g>>]
              PROVE  \E f \in [D -> V] : \A c \in D : f[c] = G[<<c, f>>]
  BY DEF Recursive, Solution
<1>. DEFINE Upto(f, c) == \A y \in D : m[y] <= m[c] => f[y] = G[<<y, f>>]
            of(c) == CHOOSE f \in [D -> V] : Upto(f, c)
            Has(c) == \E f \in [D -> V] : Upto(f, c)
<1>1. ASSUME NEW f \in [D -> V], NEW g \in [D -> V], NEW c \in D, Upto(f, c), Upto(g, c)
      PROVE  f[c] = g[c]
  <2>. DEFINE Bad == {y \in D : m[y] <= m[c] /\ f[y] # g[y]}
  <2>. SUFFICES ASSUME Bad # {} PROVE FALSE
    OBVIOUS
  <2>1. PICK x \in Bad : \A y \in Bad : m[x] <= m[y]
    <3>. HIDE DEF Bad
    <3>1. Bad \subseteq D
      BY DEF Bad
    <3>. QED
      BY <3>1, Smallest
  <2>2. \A y \in D : m[y] < m[x] => f[y] = g[y]
    BY <2>1
  <2>3. G[<<x, f>>] = G[<<x, g>>]
    <3>. HIDE DEF Bad, Upto, of, Has
    <3>1. x \in D
      BY DEF Bad
    <3>. QED
      BY <2>2, <3>1
  <2>. QED
    BY <1>1, <2>3
<1>2. ASSUME NEW c \in D, Has(c) PROVE of(c) \in [D -> V] /\ Upto(of(c), c)
  <2>. HIDE DEF Upto
  <2>. QED
    BY <1>2
<1>3. ASSUME NEW c \in D, NEW y \in D, m[y] < m[c], Has(c), Has(y)
      PROVE  of(c)[y] = of(y)[y]
  <2>1. Upto(of(c), y)
    <3>1. Upto(of(c), c)
      <4>. HIDE DEF of, Has, Upto
      <4>. QED
        BY <1>2, <1>3
    <3>. HIDE DEF of, Has
    <3>2. \A z \in D : m[z] <= m[y] => m[z] <= m[c]
      BY <1>3
    <3>. QED
      BY <3>1, <3>2
  <2>. HIDE DEF of, Has, Upto
  <2>. QED
    BY <1>1, <1>2, <1>3, <2>1
<1>4. ASSUME NEW c \in D, \A y \in D : m[y] < m[c] => Has(y) PROVE Has(c)
  <2>. DEFINE g == [y \in D |-> IF m[y] < m[c] THEN of(y)[y] ELSE v0]
              h == [y \in D |-> IF m[y] <= m[c] THEN G[<<y, g>>] ELSE v0]
  <2>1. g \in [D -> V]
    <3>. HIDE DEF of, Has, Upto
    <3>. QED
      BY <1>2, <1>4
  <2>2. h \in [D -> V]
    <3>. HIDE DEF g
    <3>. QED
      BY <2>1
  <2>3. ASSUME NEW y \in D, m[y] < m[c] PROVE g[y] = G[<<y, g>>]
    <3>1. Has(y) /\ g[y] = of(y)[y]
      <4>. HIDE DEF of, Has, Upto
      <4>. QED
        BY <1>4, <2>3
    <3>2. \A z \in D : m[z] < m[y] => g[z] = of(y)[z]
      <4>. SUFFICES ASSUME NEW z \in D, m[z] < m[y] PROVE g[z] = of(y)[z]
        OBVIOUS
      <4>. HIDE DEF of, Has, Upto
      <4>1. m[z] < m[c] /\ Has(z)
        BY <1>4, <2>3
      <4>. QED
        BY <1>3, <3>1, <4>1
    <3>3. of(y) \in [D -> V] /\ of(y)[y] = G[<<y, of(y)>>]
      <4>1. of(y) \in [D -> V] /\ Upto(of(y), y)
        <5>. HIDE DEF of, Has, Upto
        <5>. QED
          BY <1>2, <3>1
      <4>. HIDE DEF of
      <4>. QED
        BY <4>1
    <3>. HIDE DEF g, of, Has, Upto
    <3>. QED
      BY <2>1, <3>1, <3>2, <3>3
  <2>4. \A y \in D : m[y] < m[c] => h[y] = g[y]
    <3>. SUFFICES ASSUME NEW y \in D, m[y] < m[c] PROVE h[y] = g[y]
      OBVIOUS
    <3>1. h[y] = G[<<y, g>>] /\ g[y] = G[<<y, g>>]
      <4>1. m[y] <= m[c]
        OBVIOUS
      <4>. HIDE DEF g
      <4>. QED
        BY <2>3, <4>1
    <3>. QED
      BY <3>1
  <2>5. Upto(h, c)
    <3>. SUFFICES ASSUME NEW y \in D, m[y] <= m[c] PROVE h[y] = G[<<y, h>>]
      OBVIOUS
    <3>1. h[y] = G[<<y, g>>]
      OBVIOUS
    <3>. HIDE DEF h, g
    <3>2. \A z \in D : m[z] < m[y] => h[z] = g[z]
      BY <2>4
    <3>. QED
      BY <2>1, <2>2, <3>1, <3>2
  <2>. HIDE DEF h, Upto
  <2>. QED
    BY <2>2, <2>5
<1>5. \A c \in D : Has(c)
  <2>. DEFINE None == {c \in D : ~Has(c)}
  <2>. SUFFICES ASSUME None # {} PROVE FALSE
    OBVIOUS
  <2>. HIDE DEF Has
  <2>1. PICK c \in None : \A y \in None : m[c] <= m[y]
    <3>. HIDE DEF None
    <3>1. None \subseteq D
      BY DEF None
    <3>. QED
      BY <3>1, Smallest
  <2>2. \A y \in D : m[y] < m[c] => Has(y)
    BY <2>1
  <2>. QED
    BY <1>4, <2>2
<1>. DEFINE r == [c \in D |-> of(c)[c]]
<1>6. r \in [D -> V]
  <2>. HIDE DEF of, Has, Upto
  <2>. QED
    BY <1>2, <1>5
<1>7. ASSUME NEW c \in D PROVE r[c] = G[<<c, r>>]
  <2>1. \A z \in D : m[z] < m[c] => r[z] = of(c)[z]
    <3>. HIDE DEF of, Has, Upto
    <3>. QED
      BY <1>3, <1>5
  <2>2. of(c) \in [D -> V] /\ of(c)[c] = G[<<c, of(c)>>]
    <3>1. of(c) \in [D -> V] /\ Upto(of(c), c)
      <4>. HIDE DEF of, Has, Upto
      <4>. QED
        BY <1>2, <1>5
    <3>. HIDE DEF of
    <3>. QED
      BY <3>1
  <2>3. r[c] = of(c)[c]
    OBVIOUS
  <2>. HIDE DEF r, of
  <2>. QED
    BY <1>6, <2>1, <2>2, <2>3
<1>. HIDE DEF r
<1>. QED
  BY <1>6, <1>7

-----------------------------------------------------------------------------
(* A manager that has just been made.                                      *)
LEMMA NewManagerInv ==
  ASSUME NEW c, c.objects \subseteq Classes, c.frameService \in c.objects \cup {0},
         \A s \in c.objects : c.deps[s] \in Seq(Classes),
         NewManager(c)
  PROVE  ManagerInv
<1>1. Types
  <2>1. opList \in Seq(objects) /\ fast \in [Classes -> objects \cup {0}]
    BY DEF NewManager
  <2>2. /\ main \in Mains
        /\ frame \in [pc : {"none", "test", "tick", "render"}, pos : Nat]
        /\ main.pc = "setup"
    BY DEF NewManager, Mains
  <2>3. initialized = FALSE /\ broken = FALSE
    BY DEF NewManager
  <2>. QED
    BY <2>1, <2>2, <2>3 DEF NewManager, Types
<1>2. LookupIsExact
  BY DEF NewManager, LookupIsExact, Providers
<1>3. ContractInv
  BY DEF NewManager, ContractInv, ListInv, LifeInv, FrameInv, BrokenInv, InUse
<1>4. DepInv
  <2>1. order \in Orders
    BY DEF NewManager, Orders
  <2>. QED
    BY <2>1 DEF NewManager, DepInv, InUse
<1>. QED
  BY <1>1, <1>2, <1>3, <1>4 DEF ManagerInv

-----------------------------------------------------------------------------
(* Types.                                                                  *)

LEMMA RegisterTypes ==
  ASSUME Types, NEW s \in objects, RegisterService(s) \/ UnRegisterService(s)
  PROVE  Types'
<1>1. CASE RegisterService(s)
  <2>1. objects' = objects /\ frameService' = frameService /\ opList' = opList
        /\ initialized' = initialized /\ undone' = undone /\ broken' = broken
    BY <1>1 DEF RegisterService, config
  <2>2. CASE initialized
    <3>1. /\ life' = [life EXCEPT ![s] = "inited"] /\ services' = services /\ fast' = fast
          /\ main' = [pc |-> "enlist", pos |-> s]
          /\ frame' = frame \/ frame' = [pc |-> "test", pos |-> 0]
      BY <1>1, <2>2 DEF RegisterService
    <3>2. main' \in Mains /\ main'.pc = "enlist" /\ main'.pos = s
      BY <3>1, ServiceMgrAssumption DEF Types, Mains
    <3>3. /\ frame' \in [pc : {"none", "test", "tick", "render"}, pos : Nat]
          /\ life' \in [objects -> {"absent", "registered", "inited", "destroyed"}]
      BY <3>1 DEF Types
    <3>. QED
      BY <2>1, <2>2, <3>1, <3>2, <3>3 DEF Types
  <2>3. CASE ~initialized
    <3>1. /\ life' = [life EXCEPT ![s] = "registered"] /\ main' = main /\ frame' = frame
          /\ services' = services \cup {s}
          /\ fast' = [c \in Classes |-> IF c \in Chain(s) THEN s ELSE fast[c]]
      BY <1>1, <2>3 DEF RegisterService
    <3>2. life' \in [objects -> {"absent", "registered", "inited", "destroyed"}]
      BY <3>1 DEF Types
    <3>3. fast' \in [Classes -> objects \cup {0}]
      BY <3>1 DEF Types
    <3>. QED
      BY <2>1, <2>3, <3>1, <3>2, <3>3 DEF Types
  <2>. QED
    BY <2>2, <2>3
<1>2. CASE UnRegisterService(s)
  BY <1>2 DEF UnRegisterService, Types, config
<1>. QED
  BY <1>1, <1>2

LEMMA MainTypes == Types /\ Main => Types'
<1>. SUFFICES ASSUME Types, Main PROVE Types'
  OBVIOUS
<1>1. CASE InitServices
  <2>1. IsFiniteSet(services)
    BY FS_Subset, ServiceMgrAssumption DEF Types
  <2>2. opList' \in Seq(services)
    BY <1>1, <2>1, Permutation DEF InitServices, SortedLists
  <2>3. opList' \in Seq(objects)
    BY <2>2 DEF Types
  <2>. QED
    BY <1>1, <2>3 DEF InitServices, Types, config, Mains
<1>2. CASE OnInit
  <2>1. life' = [life EXCEPT ![opList[main.pos]] = "inited"]
    BY <1>2 DEF OnInit
  <2>2. life' \in [objects -> {"absent", "registered", "inited", "destroyed"}]
    BY <2>1 DEF Types
  <2>3. frame' = frame \/ frame' = [pc |-> "test", pos |-> 0]
    BY <1>2 DEF OnInit
  <2>4. frame' \in [pc : {"none", "test", "tick", "render"}, pos : Nat]
    BY <2>3 DEF Types
  <2>5. main' = [main EXCEPT !.pos = main.pos + 1]
    BY <1>2 DEF OnInit
  <2>6. main' \in Mains /\ main'.pc = "init" /\ main.pc = "init"
    BY <1>2, <2>5 DEF OnInit, Types, Mains
  <2>. QED
    BY <1>2, <2>2, <2>4, <2>6 DEF OnInit, Types, config, maps
<1>3. CASE InitDone \/ ShutDown \/ StopFrame
  <2>1. Len(opList) \in Nat
    BY DEF Types
  <2>. QED
    BY <1>3, <2>1 DEF InitDone, ShutDown, StopFrame, Types, config, maps, Mains
<1>4. CASE OnDestroy
  <2>1. /\ broken' = (life[opList[main.pos]] # "inited")
        /\ life' = [life EXCEPT ![opList[main.pos]] = "destroyed"]
        /\ main' = [pc |-> "shutdown", pos |-> main.pos - 1] /\ main.pos > 0
        /\ main.pc \in {"shutdown", "join"}
    BY <1>4 DEF OnDestroy
  <2>2. broken' \in BOOLEAN
    <3>1. (life[opList[main.pos]] # "inited") \in BOOLEAN
      OBVIOUS
    <3>. QED
      BY <2>1, <3>1
  <2>3. life' \in [objects -> {"absent", "registered", "inited", "destroyed"}]
    BY <2>1 DEF Types
  <2>4. /\ main' \in Mains
        /\ main.pc # "setup" /\ main'.pc \notin {"setup", "enlist"}
    BY <2>1 DEF Types, Mains
  <2>. QED
    BY <1>4, <2>2, <2>3, <2>4 DEF OnDestroy, Types, config, maps
<1>5. CASE Clear
  BY <1>5 DEF Clear, Types, config, Mains
<1>6. CASE Enlist
  <2>. DEFINE s == main.pos
  <2>1. s \in objects /\ Append(opList, s) \in Seq(objects)
    BY <1>6, AppendElement DEF Enlist, Types
  <2>2. /\ services' = services \cup {s} /\ opList' = Append(opList, s)
        /\ fast' = [c \in Classes |-> IF c \in Chain(s) THEN s ELSE fast[c]]
        /\ main' = [pc |-> "running", pos |-> 0] /\ main.pc = "enlist"
        /\ UNCHANGED <<objects, frameService, initialized, life, frame, undone, broken>>
    BY <1>6 DEF Enlist, config
  <2>3. fast' \in [Classes -> objects \cup {0}]
    BY <2>1, <2>2 DEF Types
  <2>4. main' \in Mains /\ main'.pc = "running"
    BY <2>2 DEF Mains
  <2>. HIDE DEF s
  <2>. QED
    BY <2>1, <2>2, <2>3, <2>4 DEF Types
<1>. QED
  BY <1>1, <1>2, <1>3, <1>4, <1>5, <1>6 DEF Main

LEMMA FrameTypes == Types /\ Frame => Types'
<1>. SUFFICES ASSUME Types, Frame PROVE Types'
  OBVIOUS
<1>1. broken' \in BOOLEAN
  <2>1. CASE Visit
    <3>1. (life[opList[frame.pos]] \in {"destroyed", "absent"}) \in BOOLEAN
      OBVIOUS
    <3>2. broken' = (life[opList[frame.pos]] \in {"destroyed", "absent"})
      BY <2>1 DEF Visit
    <3>. QED
      BY <3>1, <3>2
  <2>2. CASE FrameTest
    BY <2>2 DEF FrameTest, Types
  <2>. QED
    BY <2>1, <2>2 DEF Frame
<1>2. frame' \in [pc : {"none", "test", "tick", "render"}, pos : Nat]
  BY DEF Types, Frame, FrameTest, Visit
<1>. QED
  BY <1>1, <1>2 DEF Types, Frame, FrameTest, Visit, config, maps

LEMMA NextTypes == Types /\ [Next]_vars => Types'
<1>1. Types /\ UNCHANGED vars => Types'
  BY DEF Types, vars, config, maps
<1>. QED
  BY <1>1, RegisterTypes, MainTypes, FrameTypes DEF Next

-----------------------------------------------------------------------------
(* GetService.                                                             *)

(* The base classes do not change.                                         *)
LEMMA SameChain == ASSUME UNCHANGED base PROVE \A c : Chain(c)' = Chain(c)
  BY DEF Chain, Bases

LEMMA TwoObjects ==
  ASSUME NEW S, IsFiniteSet(S), NEW x \in S, NEW y \in S, x # y
  PROVE  ~(Cardinality(S) <= 1)
<1>1. IsFiniteSet({x}) /\ Cardinality({x}) = 1
  BY FS_Singleton
<1>2. IsFiniteSet({x} \cup {y}) /\ Cardinality({x} \cup {y}) = 2
  <2>1. y \notin {x}
    BY x # y
  <2>2. IsFiniteSet({x} \cup {y}) /\ Cardinality({x} \cup {y}) = Cardinality({x}) + 1
    BY <1>1, <2>1, FS_AddElement
  <2>. QED
    BY <1>1, <2>2
<1>3. Cardinality({x} \cup {y}) <= Cardinality(S)
  BY <1>2, FS_Subset
<1>. QED
  BY <1>2, <1>3, FS_CardinalityType

LEMMA NextLookup == Types /\ LookupIsExact /\ [Next]_vars => LookupIsExact'
<1>. SUFFICES ASSUME Types, LookupIsExact, [Next]_vars PROVE LookupIsExact'
  OBVIOUS
<1>1. ASSUME UNCHANGED <<objects, base, services, fast, undone>> PROVE LookupIsExact'
  <2>1. \A c : Chain(c)' = Chain(c)
    BY <1>1, SameChain
  <2>. QED
    BY <1>1, <2>1 DEF LookupIsExact, Providers
<1>2. ASSUME NEW s \in objects, UNCHANGED <<objects, base, undone>>, services' = services \cup {s},
             \A c \in Classes : fast'[c] = IF c \in Chain(s) THEN s ELSE fast[c]
      PROVE  LookupIsExact'
  <2>1. /\ \A c : Chain(c)' = Chain(c)
        /\ objects' = objects /\ undone' = undone /\ services' = services \cup {s}
        /\ \A c \in Classes : fast'[c] = IF c \in Chain(s) THEN s ELSE fast[c]
    BY <1>2, SameChain
  <2>2. s # 0
    BY ServiceMgrAssumption DEF Types
  <2>3. \A c : Providers(c)' = IF c \in Chain(s) THEN Providers(c) \cup {s} ELSE Providers(c)
    BY <2>1 DEF Providers
  <2>4. ASSUME NEW c \in Classes, fast'[c] # 0 PROVE fast'[c] \in Providers(c)'
    BY <2>1, <2>3, <2>4 DEF LookupIsExact
  <2>5. ASSUME NEW c \in Classes, undone = 0 \/ Cardinality({t \in objects : c \in Chain(t)}) <= 1,
               Providers(c)' # {}
        PROVE  fast'[c] # 0
    BY <2>1, <2>2, <2>3, <2>5 DEF LookupIsExact
  <2>. QED
    BY <2>1, <2>4, <2>5 DEF LookupIsExact
<1>3. ASSUME NEW s \in objects, UnRegisterService(s) PROVE LookupIsExact'
  <2>1. /\ \A c : Chain(c)' = Chain(c)
        /\ objects' = objects /\ undone' # 0 /\ services' = services \ {s} /\ s \in services
        /\ \A c \in Classes : fast'[c] = IF c \in Chain(s) THEN 0 ELSE fast[c]
    BY <1>3, SameChain DEF UnRegisterService, config, Types
  <2>2. \A c : Providers(c)' = Providers(c) \ {s}
    BY <2>1 DEF Providers
  <2>3. ASSUME NEW c \in Classes, fast'[c] # 0 PROVE fast'[c] \in Providers(c)'
    BY <2>1, <2>2, <2>3 DEF LookupIsExact, Providers
  <2>4. ASSUME NEW c \in Classes, Cardinality({t \in objects : c \in Chain(t)}) <= 1,
               Providers(c)' # {}
        PROVE  fast'[c] # 0
    <3>. DEFINE all == {t \in objects : c \in Chain(t)}
    <3>1. PICK t \in Providers(c) : t # s
      BY <2>2, <2>4
    <3>2. IsFiniteSet(all)
      BY FS_Subset, ServiceMgrAssumption DEF Types
    <3>3. t \in all
      BY <3>1 DEF Types, Providers
    <3>4. CASE c \in Chain(s)
      <4>1. s \in all
        BY <3>4
      <4>. HIDE DEF all
      <4>. QED
        BY <2>4, <3>1, <3>2, <3>3, <4>1, TwoObjects DEF all
    <3>5. CASE c \notin Chain(s)
      BY <2>1, <2>4, <3>1, <3>5 DEF LookupIsExact
    <3>. QED
      BY <3>4, <3>5
  <2>. QED
    BY <2>1, <2>3, <2>4 DEF LookupIsExact
<1>4. CASE Clear
  BY <1>4 DEF Clear, LookupIsExact, Providers
<1>5. CASE Main /\ ~Clear /\ ~Enlist
  BY <1>1, <1>5 DEF Main, InitServices, OnInit, InitDone, ShutDown, StopFrame, OnDestroy, config, maps
<1>6. CASE Frame
  BY <1>1, <1>6 DEF Frame, FrameTest, Visit, config, maps
<1>7. CASE UNCHANGED vars
  BY <1>1, <1>7 DEF vars, config, maps
<1>8. ASSUME NEW s \in objects, RegisterService(s) PROVE LookupIsExact'
  <2>1. CASE initialized
    BY <1>1, <1>8, <2>1 DEF RegisterService, config
  <2>2. CASE ~initialized
    <3>1. /\ UNCHANGED <<objects, base, undone>> /\ services' = services \cup {s}
          /\ \A c \in Classes : fast'[c] = IF c \in Chain(s) THEN s ELSE fast[c]
      BY <1>8, <2>2 DEF RegisterService, config
    <3>. QED
      BY <1>2, <3>1
  <2>. QED
    BY <2>1, <2>2
<1>9. CASE Enlist
  <2>1. /\ UNCHANGED <<objects, base, undone>> /\ services' = services \cup {main.pos}
        /\ \A c \in Classes : fast'[c] = IF c \in Chain(main.pos) THEN main.pos ELSE fast[c]
        /\ main.pos \in objects
    BY <1>9 DEF Enlist, config, Types
  <2>. QED
    BY <1>2, <2>1
<1>. QED
  BY <1>3, <1>4, <1>5, <1>6, <1>7, <1>8, <1>9 DEF Next

-----------------------------------------------------------------------------
(* Callers that keep to the contract.                                      *)

(* While the frame thread runs, what comes before its service in the list  *)
(* is initialised.                                                         *)
LEMMA FrameSeesLive ==
  ASSUME Types, ContractInv, frame.pc # "none", NEW i \in 1..Len(opList), ~Behind(i)
  PROVE  life[opList[i]] = "inited"
<1>1. Len(opList) \in Nat /\ main.pos \in Nat /\ i \in Nat
  BY DEF Types, Mains
<1>2. \A k \in Int : FrameAmong(k) => i <= k
  <2>. SUFFICES ASSUME NEW k \in Int, NEW j \in 1..k, opList[j] = frameService PROVE i <= k
    BY DEF FrameAmong
  <2>1. ~(j \in 1..(i - 1))
    BY DEF Behind
  <2>. QED
    BY <1>1, <2>1
<1>3. main.pc \in InUse
  BY DEF ContractInv, FrameInv
<1>4. CASE main.pc = "init"
  <2>1. main.pos - 1 \in Int /\ FrameAmong(main.pos - 1)
    BY <1>1, <1>4 DEF ContractInv, FrameInv
  <2>2. i < main.pos
    BY <1>1, <1>2, <2>1
  <2>. QED
    BY <1>4, <2>2 DEF ContractInv, LifeInv
<1>5. CASE main.pc \in {"running", "enlist"}
  BY <1>5 DEF ContractInv, LifeInv
<1>6. CASE main.pc \in {"shutdown", "join"}
  <2>1. main.pos \in Int /\ FrameAmong(main.pos)
    BY <1>1, <1>6 DEF ContractInv, FrameInv
  <2>2. i <= main.pos
    BY <1>2, <2>1
  <2>. QED
    BY <1>6, <2>2 DEF ContractInv, LifeInv
<1>. QED
  BY <1>3, <1>4, <1>5, <1>6 DEF InUse

(* The list and the states of the services when one registers ...          *)
LEMMA RegisterContract ==
  ASSUME Types, ContractInv, Contract, ~broken, NEW s \in objects, RegisterService(s)
  PROVE  ContractInv'
<1>1. /\ frameService' = frameService /\ ~broken' /\ objects' = objects /\ opList' = opList
      /\ s \notin services /\ main.pc \in {"setup", "running"} /\ life[s] = "absent"
  BY DEF RegisterService, config
<1>2. CASE main.pc = "setup"
  <2>1. ~initialized
    BY <1>2 DEF Types
  <2>2. /\ main' = main /\ frame' = frame /\ life' = [life EXCEPT ![s] = "registered"]
        /\ services' = services \cup {s}
    BY <2>1 DEF RegisterService
  <2>3. \A t \in services' : life'[t] = "registered"
    BY <1>1, <1>2, <2>2 DEF ContractInv, LifeInv, Types
  <2>. QED
    BY <1>1, <1>2, <2>2, <2>3 DEF ContractInv, ListInv, LifeInv, FrameInv, BrokenInv, InUse
<1>3. CASE main.pc = "running"
  <2>1. initialized
    BY <1>3 DEF Types
  <2>2. /\ main' = [pc |-> "enlist", pos |-> s] /\ life' = [life EXCEPT ![s] = "inited"]
        /\ services' = services
        /\ frame' = IF s = frameService THEN [pc |-> "test", pos |-> 0] ELSE frame
    BY <2>1 DEF RegisterService
  <2>3. main'.pc = "enlist" /\ main'.pos = s /\ life'[s] = "inited"
    BY <2>2 DEF Types
  <2>4. \A i \in 1..Len(opList) : life'[opList[i]] = "inited"
    <3>1. \A i \in 1..Len(opList) : life[opList[i]] = "inited" /\ opList[i] \in objects
      BY <1>3 DEF ContractInv, LifeInv, Types
    <3>. QED
      BY <1>1, <2>2, <3>1 DEF Types
  <2>5. ListInv' /\ LifeInv' /\ BrokenInv'
    BY <1>1, <1>3, <2>2, <2>3, <2>4 DEF ContractInv, ListInv, LifeInv, BrokenInv, InUse
  <2>6. FrameInv'
    <3>1. CASE s = frameService
      BY <1>1, <2>2, <2>3, <3>1 DEF FrameInv, InUse
    <3>2. CASE s # frameService
      BY <1>1, <1>3, <2>2, <2>3, <3>2 DEF ContractInv, FrameInv, FrameAmong, InUse
    <3>. QED
      BY <3>1, <3>2
  <2>. QED
    BY <2>5, <2>6 DEF ContractInv
<1>. QED
  BY <1>1, <1>2, <1>3

(* ... and when it is put in the list.                                     *)
LEMMA EnlistContract ==
  ASSUME Types, ContractInv, ~broken, Enlist
  PROVE  ContractInv'
<1>. DEFINE s == main.pos
            n == Len(opList)
<1>1. /\ main.pc = "enlist" /\ main'.pc = "running"
      /\ opList' = Append(opList, s) /\ services' = services \cup {s}
      /\ life' = life /\ frame' = frame /\ frameService' = frameService /\ ~broken'
  BY DEF Enlist, config
<1>2. /\ s \in objects /\ s \notin services /\ life[s] = "inited"
      /\ Once(opList) /\ ToSet(opList) = services /\ opList \in Seq(objects) /\ n \in Nat
      /\ \A i \in 1..n : life[opList[i]] = "inited"
  BY <1>1 DEF ContractInv, ListInv, LifeInv, Types, InUse
<1>. HIDE DEF s
<1>3. /\ Once(opList') /\ ToSet(opList') = services'
      /\ Len(opList') = n + 1
      /\ \A i \in 1..n : opList'[i] = opList[i]
      /\ opList'[n + 1] = s
  BY <1>1, <1>2, AppendElement
<1>. HIDE DEF n
<1>4. \A i \in 1..(n + 1) : life'[opList'[i]] = "inited"
  <2>. TAKE i \in 1..(n + 1)
  <2>1. i \in 1..n \/ i = n + 1
    BY <1>2
  <2>. QED
    BY <1>1, <1>2, <1>3, <2>1
<1>5. FrameInv'
  <2>1. frame.pc # "none" => s = frameService \/ FrameAmong(n)
    BY <1>1 DEF ContractInv, FrameInv, s, n
  <2>2. ASSUME s = frameService \/ FrameAmong(n)
        PROVE  \E j \in 1..(n + 1) : opList'[j] = frameService
    <3>1. CASE s = frameService
      BY <1>2, <1>3, <3>1
    <3>2. CASE FrameAmong(n)
      <4>1. PICK j \in 1..n : opList[j] = frameService
        BY <3>2 DEF FrameAmong
      <4>. QED
        BY <1>2, <1>3, <4>1
    <3>. QED
      BY <2>2, <3>1, <3>2
  <2>3. frame.pc # "none" => FrameAmong(Len(opList))'
    BY <1>1, <1>3, <2>1, <2>2 DEF FrameAmong
  <2>4. frame.pc \in {"tick", "render"} => frame.pos \in 1..(n + 1)
    BY <1>2 DEF ContractInv, FrameInv, n
  <2>. QED
    BY <1>1, <1>3, <2>3, <2>4 DEF FrameInv, InUse
<1>6. Len(opList') > 0
  BY <1>2, <1>3
<1>. QED
  BY <1>1, <1>3, <1>4, <1>5, <1>6 DEF ContractInv, ListInv, LifeInv, BrokenInv

LEMMA UnRegisterContract ==
  ASSUME Types, ContractInv, Contract, ~broken, NEW s \in objects, UnRegisterService(s)
  PROVE  ContractInv'
<1>1. /\ main' = main /\ frame' = frame /\ frameService' = frameService /\ ~broken'
      /\ opList' = opList /\ services' = services \ {s} /\ life' = [life EXCEPT ![s] = "absent"]
      /\ main.pc = "setup"
  BY DEF UnRegisterService, config
<1>2. \A t \in services' : life'[t] = "registered"
  BY <1>1 DEF ContractInv, LifeInv, Types
<1>. QED
  BY <1>1, <1>2 DEF ContractInv, ListInv, LifeInv, FrameInv, BrokenInv, InUse

LEMMA InitServicesContract ==
  ASSUME Types, ContractInv, Contract, ~broken, InitServices
  PROVE  ContractInv'
<1>1. /\ main.pc = "setup" /\ main' = [pc |-> "init", pos |-> 1] /\ services # {}
      /\ frame' = frame /\ frameService' = frameService /\ ~broken'
      /\ services' = services /\ life' = life
  BY DEF InitServices, config
<1>2. IsFiniteSet(services)
  BY FS_Subset, ServiceMgrAssumption DEF Types
<1>3. /\ opList' \in Seq(services) /\ Len(opList') = Cardinality(services)
      /\ Once(opList') /\ ToSet(opList') = services
  BY <1>2, Permutation DEF InitServices, SortedLists
<1>4. Len(opList') \in Nat /\ Len(opList') # 0
  BY <1>1, <1>2, <1>3, FS_EmptySet
<1>5. \A i \in 1..Len(opList') : life'[opList'[i]] = "registered"
  <2>. TAKE i \in 1..Len(opList')
  <2>1. opList'[i] \in services
    BY <1>3
  <2>. QED
    BY <1>1, <2>1 DEF ContractInv, LifeInv
<1>6. frame.pc = "none" /\ 1 \in 1..(Len(opList') + 1) /\ 1 # Len(opList') + 1
  BY <1>1, <1>4 DEF ContractInv, FrameInv, InUse
<1>. QED
  BY <1>1, <1>3, <1>4, <1>5, <1>6 DEF ContractInv, ListInv, LifeInv, FrameInv, BrokenInv, InUse

LEMMA OnInitContract ==
  ASSUME Types, ContractInv, ~broken, OnInit
  PROVE  ContractInv'
<1>. DEFINE n == Len(opList)
            k == main.pos
<1>1. /\ main.pc = "init" /\ k \in 1..n /\ n \in Nat /\ opList \in Seq(objects)
      /\ main'.pc = "init" /\ main'.pos = k + 1
      /\ life' = [life EXCEPT ![opList[k]] = "inited"]
      /\ frame' = IF opList[k] = frameService THEN [pc |-> "test", pos |-> 0] ELSE frame
      /\ opList' = opList /\ services' = services /\ frameService' = frameService
      /\ ~broken'
  <2>1. main.pc = "init" /\ k <= n /\ main' = [main EXCEPT !.pos = k + 1]
    BY DEF OnInit
  <2>2. main'.pc = "init" /\ main'.pos = k + 1 /\ k >= 1 /\ k \in Nat
    BY <2>1 DEF Types, ContractInv, LifeInv, Mains
  <2>. QED
    BY <2>1, <2>2 DEF OnInit, config, maps, Types
<1>2. /\ Once(opList) /\ ToSet(opList) = services /\ n > 0
      /\ \A i \in 1..n : life[opList[i]] = IF i < k THEN "inited" ELSE "registered"
      /\ \A i \in 1..n : opList[i] \in objects
  BY <1>1 DEF ContractInv, ListInv, LifeInv, InUse
<1>3. /\ frame.pc # "none" => FrameAmong(k - 1)
      /\ frame.pc \in {"tick", "render"} => frame.pos \in 1..n
  BY <1>1 DEF ContractInv, FrameInv
<1>. HIDE DEF k, n
<1>4. \A i \in 1..n : life'[opList[i]] = IF i < k + 1 THEN "inited" ELSE "registered"
  <2>. TAKE i \in 1..n
  <2>1. i # k => opList[i] # opList[k]
    BY <1>1, <1>2 DEF Once, n
  <2>. QED
    BY <1>1, <1>2, <2>1 DEF Types
<1>5. /\ frame'.pc # "none" => \E j \in 1..k : opList[j] = frameService
      /\ frame'.pc \in {"tick", "render"} => frame'.pos \in 1..n
  <2>1. CASE opList[k] = frameService
    <3>1. frame'.pc = "test"
      BY <1>1, <2>1
    <3>. QED
      BY <1>1, <2>1, <3>1
  <2>2. CASE opList[k] # frameService
    <3>1. frame' = frame
      BY <1>1, <2>2
    <3>2. FrameAmong(k - 1) => \E j \in 1..k : opList[j] = frameService
      BY <1>1 DEF FrameAmong
    <3>. QED
      BY <1>3, <3>1, <3>2
  <2>. QED
    BY <2>1, <2>2
<1>6. (k + 1) - 1 = k /\ k + 1 \in 1..(n + 1)
  BY <1>1
<1>7. FrameInv'
  BY <1>1, <1>5, <1>6 DEF FrameInv, FrameAmong, InUse, n
<1>. QED
  BY <1>1, <1>2, <1>4, <1>6, <1>7 DEF ContractInv, ListInv, LifeInv, BrokenInv, n

(* Init has come to the end of the list, or ShutDown begins at it.         *)
LEMMA InitDoneContract ==
  ASSUME Types, ContractInv, ~broken, InitDone
  PROVE  ContractInv'
<1>1. /\ main.pc = "init" /\ main'.pc = "running" /\ main.pos > Len(opList)
      /\ opList' = opList /\ services' = services /\ frameService' = frameService
      /\ ~broken' /\ life' = life /\ frame' = frame
  BY DEF InitDone, config, maps
<1>2. /\ main.pos = Len(opList) + 1 /\ main.pos - 1 = Len(opList)
      /\ \A i \in 1..Len(opList) : life[opList[i]] = "inited"
  BY <1>1 DEF ContractInv, LifeInv, Types
<1>3. FrameInv'
  <2>1. frame.pc # "none" => FrameAmong(Len(opList))
    <3>1. frame.pc # "none" => FrameAmong(main.pos - 1)
      BY <1>1 DEF ContractInv, FrameInv
    <3>. QED
      BY <1>2, <3>1
  <2>. QED
    BY <1>1, <2>1 DEF ContractInv, FrameInv, FrameAmong, InUse
<1>. QED
  BY <1>1, <1>2, <1>3 DEF ContractInv, ListInv, LifeInv, BrokenInv, InUse

LEMMA ShutDownContract ==
  ASSUME Types, ContractInv, ~broken, ShutDown
  PROVE  ContractInv'
<1>1. /\ main.pc = "running" /\ main'.pc = "shutdown" /\ main'.pos = Len(opList)
      /\ opList' = opList /\ services' = services /\ frameService' = frameService
      /\ ~broken' /\ life' = life /\ frame' = frame
  BY DEF ShutDown, config, maps
<1>2. /\ Len(opList) \in 0..Len(opList)
      /\ \A i \in 1..Len(opList) : i <= Len(opList) /\ life[opList[i]] = "inited"
  BY <1>1 DEF ContractInv, LifeInv, Types
<1>3. FrameInv'
  BY <1>1 DEF ContractInv, FrameInv, FrameAmong, InUse
<1>. QED
  BY <1>1, <1>2, <1>3 DEF ContractInv, ListInv, LifeInv, BrokenInv, InUse

LEMMA StopFrameContract ==
  ASSUME Types, ContractInv, ~broken, StopFrame
  PROVE  ContractInv'
<1>1. /\ main.pc = "shutdown" /\ main' = [main EXCEPT !.pc = "join"] /\ main.pos > 0
      /\ opList' = opList /\ services' = services /\ frameService' = frameService
      /\ ~broken' /\ life' = life /\ frame' = frame
  BY DEF StopFrame, config, maps
<1>2. main'.pc = "join" /\ main'.pos = main.pos
  BY <1>1 DEF Types, Mains
<1>3. FrameInv'
  BY <1>1, <1>2 DEF ContractInv, FrameInv, FrameAmong, InUse
<1>. QED
  BY <1>1, <1>2, <1>3 DEF ContractInv, ListInv, LifeInv, BrokenInv, InUse

(* The service destroyed is not the frame thread's, which comes before it, *)
(* unless the thread has been joined.                                      *)
LEMMA OnDestroyContract ==
  ASSUME Types, ContractInv, ~broken, OnDestroy
  PROVE  ContractInv'
<1>. DEFINE n == Len(opList)
            k == main.pos
<1>1. /\ main.pc \in {"shutdown", "join"} /\ k > 0
      /\ main.pc = "shutdown" => opList[k] # frameService
      /\ main.pc = "join" => frame.pc = "none"
      /\ broken' = (life[opList[k]] # "inited")
      /\ life' = [life EXCEPT ![opList[k]] = "destroyed"]
      /\ main'.pc = "shutdown" /\ main'.pos = k - 1
      /\ opList' = opList /\ services' = services /\ frameService' = frameService
      /\ frame' = frame
  BY DEF OnDestroy, config, maps
<1>2. n \in Nat /\ k \in 0..n /\ DOMAIN opList = 1..n /\ opList \in Seq(objects)
  BY <1>1 DEF Types, ContractInv, LifeInv
<1>3. k \in 1..n
  BY <1>1, <1>2
<1>4. \A i \in 1..n : life[opList[i]] = IF i <= k THEN "inited" ELSE "destroyed"
  BY <1>1 DEF ContractInv, LifeInv
<1>5. Once(opList) /\ ToSet(opList) = services /\ n > 0
  BY <1>1 DEF ContractInv, ListInv, InUse
<1>6. /\ frame.pc # "none" => FrameAmong(k)
      /\ frame.pc \in {"tick", "render"} => frame.pos \in 1..n
  BY <1>1 DEF ContractInv, FrameInv
<1>. HIDE DEF k, n
<1>7. ~broken'
  <2>1. life[opList[k]] = "inited"
    BY <1>2, <1>3, <1>4
  <2>. QED
    BY <1>1, <2>1
<1>8. \A i \in 1..n : life'[opList[i]] = IF i <= k - 1 THEN "inited" ELSE "destroyed"
  <2>. TAKE i \in 1..n
  <2>1. i # k => opList[i] # opList[k]
    BY <1>2, <1>3, <1>5 DEF Once
  <2>2. opList[i] \in objects
    BY <1>2 DEF n
  <2>. QED
    BY <1>1, <1>2, <1>3, <1>4, <2>1, <2>2 DEF Types
<1>9. k - 1 \in 0..n
  BY <1>2, <1>3
<1>10. FrameInv'
  <2>1. ASSUME frame.pc # "none" PROVE FrameAmong(k - 1)
    <3>1. opList[k] # frameService
      BY <1>1, <2>1
    <3>2. PICK j \in 1..k : opList[j] = frameService
      BY <1>6, <2>1 DEF FrameAmong
    <3>3. j \in 1..(k - 1)
      BY <1>3, <3>1, <3>2
    <3>. QED
      BY <3>2, <3>3 DEF FrameAmong
  <2>. QED
    BY <1>1, <1>6, <2>1 DEF FrameInv, FrameAmong, InUse, n
<1>. QED
  BY <1>1, <1>5, <1>7, <1>8, <1>9, <1>10 DEF ContractInv, ListInv, LifeInv, BrokenInv, n

LEMMA ClearContract ==
  ASSUME Types, ContractInv, ~broken, Clear
  PROVE  ContractInv'
<1>1. /\ main.pc = "shutdown" /\ main.pos = 0 /\ main'.pc = "down"
      /\ frame' = frame /\ ~broken' /\ services' = {} /\ frameService' = frameService
  BY DEF Clear, config
<1>2. frame.pc = "none"
  BY <1>1 DEF ContractInv, FrameInv, FrameAmong
<1>. QED
  BY <1>1, <1>2 DEF ContractInv, ListInv, LifeInv, FrameInv, BrokenInv, InUse

LEMMA FrameContract ==
  ASSUME Types, ContractInv, ~broken, Frame
  PROVE  ContractInv'
<1>1. /\ main' = main /\ opList' = opList /\ services' = services
      /\ frameService' = frameService /\ life' = life
      /\ frame.pc # "none"
  BY DEF Frame, FrameTest, Visit, config, maps
<1>2. ListInv' /\ LifeInv'
  BY <1>1 DEF ContractInv, ListInv, LifeInv
<1>3. Len(opList) \in Nat /\ Len(opList) > 0 /\ main.pc \in InUse
  BY <1>1 DEF ContractInv, ListInv, FrameInv, Types
<1>4. CASE FrameTest
  <2>1. /\ ~broken' /\ frame.pc = "test"
        /\ \/ frame' = [pc |-> "none", pos |-> 0] \/ frame' = frame
           \/ frame' = [pc |-> "tick", pos |-> 1]
    BY <1>4 DEF FrameTest
  <2>2. frame'.pc \in {"tick", "render"} => frame'.pos \in 1..Len(opList)
    BY <1>3, <2>1
  <2>. QED
    BY <1>1, <1>2, <2>1, <2>2 DEF ContractInv, FrameInv, FrameAmong, BrokenInv
<1>5. CASE Visit
  <2>1. /\ frame.pc \in {"tick", "render"} /\ frame.pos \in 1..Len(opList)
        /\ broken' = (life[opList[frame.pos]] \in {"destroyed", "absent"})
        /\ frame' = IF broken' THEN frame
                    ELSE IF frame.pos < Len(opList) THEN [frame EXCEPT !.pos = frame.pos + 1]
                    ELSE IF frame.pc = "tick" THEN [pc |-> "render", pos |-> 1]
                    ELSE [pc |-> "test", pos |-> 0]
    BY <1>5 DEF Visit, ContractInv, FrameInv
  <2>2. frame'.pc \in {"tick", "render"} => frame'.pos \in 1..Len(opList)
    BY <1>3, <2>1 DEF Types
  <2>3. FrameInv'
    BY <1>1, <2>2 DEF ContractInv, FrameInv, FrameAmong
  <2>4. ASSUME broken' PROVE frame' = frame /\ Behind(frame.pos) /\ life[opList[frame.pos]] = "destroyed"
    <3>1. frame' = frame /\ life[opList[frame.pos]] \in {"destroyed", "absent"}
      BY <2>1, <2>4
    <3>2. Behind(frame.pos)
      BY <1>1, <2>1, <3>1, FrameSeesLive
    <3>3. life[opList[frame.pos]] \in {"registered", "inited", "destroyed"}
      BY <1>3, <2>1 DEF ContractInv, LifeInv, InUse
    <3>. QED
      BY <3>1, <3>2, <3>3
  <2>5. BrokenInv'
    BY <1>1, <2>1, <2>4 DEF BrokenInv, Behind
  <2>. QED
    BY <1>2, <2>3, <2>5 DEF ContractInv
<1>. QED
  BY <1>4, <1>5 DEF Frame

LEMMA NextContract == Types /\ ContractInv /\ Contract /\ [Next]_vars => ContractInv'
<1>. SUFFICES ASSUME Types, ContractInv, Contract, [Next]_vars PROVE ContractInv'
  OBVIOUS
<1>1. CASE UNCHANGED vars
  BY <1>1 DEF vars, config, maps, ContractInv, ListInv, LifeInv, FrameInv, BrokenInv,
              FrameAmong, Behind
<1>2. ASSUME Next PROVE ~broken
  BY <1>2 DEF Next
<1>3. CASE Next /\ Main
  BY <1>2, <1>3, InitServicesContract, OnInitContract, InitDoneContract, EnlistContract,
     ShutDownContract, StopFrameContract, OnDestroyContract, ClearContract DEF Main
<1>. QED
  BY <1>1, <1>2, <1>3, RegisterContract, UnRegisterContract, FrameContract DEF Next

-----------------------------------------------------------------------------
(* What Init may assume of the services.                                   *)
Buildable ==
  /\ services \subseteq Nat /\ IsFiniteSet(services)
  /\ \A s \in services : deps[s] \in Seq(Classes) /\ s \in Classes
  /\ Provided /\ Acyclic

Dep(s, i) == First(Providers(deps[s][i]))

(* A height of the services such that there is room below each for its own *)
(* dependencies, one after the other, and for what they depend on.         *)
IsHeight(h, S) ==
  /\ h \in [S -> Nat]
  /\ \A s \in S : h[s] > Len(deps[s])
  /\ \A s \in S : \A t \in Needed(s) : t \in S /\ h[t] + Len(deps[s]) < h[s]

(* A service is higher than what it needs: the services without a cycle can be *)
(* picked one after another, each when all it needs has been.              *)
LEMMA Heights ==
  ASSUME Buildable
  PROVE  \E h : IsHeight(h, services)
<1>. DEFINE Cut(S, N) == \E h : IsHeight(h, S) /\ \A s \in S : h[s] <= N
            Left == {T \in SUBSET services : \E N \in Nat : Cut(services \ T, N)}
            card == [T \in SUBSET services |-> Cardinality(T)]
<1>1. \A T \in SUBSET services : IsFiniteSet(T) /\ Cardinality(T) \in Nat
  BY FS_Subset, FS_CardinalityType DEF Buildable
<1>2. services \in Left
  <2>. DEFINE e == [x \in {} |-> 0]
  <2>1. IsHeight(e, {})
    BY DEF IsHeight
  <2>2. Cut({}, 0)
    <3>. HIDE DEF e
    <3>. QED
      BY <2>1
  <2>3. services \ services = {}
    OBVIOUS
  <2>. HIDE DEF Cut
  <2>. QED
    BY <2>2, <2>3
<1>3. PICK T \in Left : \A U \in Left : card[T] <= card[U]
  <2>. HIDE DEF Left
  <2>1. Left \subseteq SUBSET services /\ card \in [SUBSET services -> Nat]
    BY <1>1 DEF Left
  <2>. HIDE DEF card
  <2>. QED
    BY <1>2, <2>1, Smallest
<1>4. PICK N \in Nat : Cut(services \ T, N)
  OBVIOUS
<1>5. CASE T = {}
  BY <1>4, <1>5
<1>6. CASE T # {}
  <2>1. PICK s \in T : Needed(s) \cap T = {}
    BY <1>6 DEF Buildable, Acyclic
  <2>. DEFINE S == services \ T
              l == Len(deps[s])
  <2>2. PICK h : IsHeight(h, S) /\ \A u \in S : h[u] <= N
    BY <1>4
  <2>. DEFINE g == [u \in S \cup {s} |-> IF u = s THEN N + l + 1 ELSE h[u]]
  <2>3. l \in Nat
    BY DEF Buildable
  <2>4. Needed(s) \subseteq S
    BY <2>1 DEF Needed, Providers
  <2>5. IsHeight(g, S \cup {s})
    <3>1. \A u \in S \cup {s} : Len(deps[u]) \in Nat
      BY DEF Buildable
    <3>2. s \notin S
      OBVIOUS
    <3>. HIDE DEF S
    <3>3. h \in [S -> Nat] /\ g \in [S \cup {s} -> Nat]
      BY <2>2, <2>3 DEF IsHeight
    <3>4. \A u \in S : g[u] = h[u]
      BY <3>2
    <3>5. g[s] = N + l + 1
      OBVIOUS
    <3>. HIDE DEF g
    <3>6. ASSUME NEW t \in Needed(s) PROVE t \in S /\ g[t] + l < g[s]
      BY <2>2, <2>3, <2>4, <3>3, <3>4, <3>5
    <3>. QED
      BY <2>2, <2>3, <3>1, <3>3, <3>4, <3>5, <3>6 DEF IsHeight
  <2>6. \A u \in S \cup {s} : g[u] <= N + l + 1
    BY <2>2, <2>3 DEF IsHeight
  <2>7. S \cup {s} = services \ (T \ {s})
    OBVIOUS
  <2>8. T \ {s} \in Left
    <3>1. Cut(services \ (T \ {s}), N + l + 1)
      <4>. HIDE DEF g
      <4>. QED
        BY <2>5, <2>6, <2>7
    <3>. HIDE DEF Cut
    <3>. QED
      BY <2>3, <3>1
  <2>9. Cardinality(T \ {s}) = Cardinality(T) - 1
    BY <1>1, FS_RemoveElement
  <2>10. card[T] <= card[T \ {s}]
    <3>. HIDE DEF card, Left
    <3>. QED
      BY <1>3, <2>8
  <2>11. T \subseteq services
    OBVIOUS
  <2>. HIDE DEF Left
  <2>. QED
    BY <1>1, <2>9, <2>10, <2>11
<1>. QED
  BY <1>5, <1>6

-----------------------------------------------------------------------------
(* RecurrsiveBuildDep, as a function of its call, satisfies its definition: *)
(* it ends, since it goes down the heights.                                *)
Results == [order : Orders, result : Int]

CallResult(f, c) ==
  LET s == c.service IN
  IF c.i = 1 /\ c.order[s] # -1 THEN [order |-> c.order, result |-> c.order[s]]
  ELSE IF deps[s] = <<>> THEN [order |-> c.order, result |-> 0]
  ELSE IF c.i > Len(deps[s])
    THEN [order |-> [c.order EXCEPT ![s] = c.maxDep], result |-> c.maxDep]
  ELSE LET d == deps[s][c.i] IN
    IF d \in c.parentIDs \/ Providers(d) = {} THEN [order |-> c.order, result |-> -1]
    ELSE LET dep == f[[order |-> c.order, service |-> First(Providers(d)),
                       parentIDs |-> c.parentIDs \cup {d}, i |-> 1, maxDep |-> -1]]
         IN f[[order |-> dep.order, service |-> s, parentIDs |-> c.parentIDs,
               i |-> c.i + 1, maxDep |-> DeepestDep(c.maxDep, dep.result)]]

(* The calls that a call makes.                                            *)
DepCall(c) ==
  LET d == deps[c.service][c.i] IN
  [order |-> c.order, service |-> First(Providers(d)),
   parentIDs |-> c.parentIDs \cup {d}, i |-> 1, maxDep |-> -1]

NextCall(c, dep) ==
  [order |-> dep.order, service |-> c.service, parentIDs |-> c.parentIDs,
   i |-> c.i + 1, maxDep |-> DeepestDep(c.maxDep, dep.result)]

LEMMA FirstIsIn ==
  ASSUME NEW S, S \subseteq Nat, S # {}
  PROVE  First(S) \in S
<1>. DEFINE id == [x \in Nat |-> x]
<1>1. PICK x \in S : \A y \in S : id[x] <= id[y]
  <2>1. id \in [Nat -> Nat]
    OBVIOUS
  <2>. HIDE DEF id
  <2>. QED
    BY <2>1, Smallest
<1>2. \A y \in S : x <= y
  BY <1>1
<1>. QED
  BY <1>2 DEF First

(* The first provider of a dependency is a service that is needed.         *)
LEMMA DepIsService ==
  ASSUME Buildable, NEW s \in services, NEW i \in 1..Len(deps[s])
  PROVE  /\ deps[s][i] \in Classes /\ deps[s][i] \in ToSet(deps[s])
         /\ Providers(deps[s][i]) # {}
         /\ Dep(s, i) \in Providers(deps[s][i])
         /\ Dep(s, i) \in services /\ Dep(s, i) \in Needed(s)
<1>1. deps[s][i] \in Classes /\ deps[s][i] \in ToSet(deps[s])
  BY DEF Buildable, ToSet
<1>2. Providers(deps[s][i]) # {} /\ Providers(deps[s][i]) \subseteq services
  BY <1>1 DEF Buildable, Provided, Providers
<1>3. Dep(s, i) \in Providers(deps[s][i])
  BY <1>2, FirstIsIn DEF Dep, Buildable
<1>. QED
  BY <1>1, <1>2, <1>3 DEF Needed

(* How much a call still has to do.                                        *)
Work(h) ==
  [c \in Calls |->
     IF c.i <= Len(deps[c.service]) THEN h[c.service] - c.i
     ELSE h[c.service] - Len(deps[c.service]) - 1]

(* The calls that a call makes are calls again, with less left to do.      *)
LEMMA CallsAreTyped ==
  ASSUME Buildable, NEW c \in Calls, deps[c.service] # <<>>, c.i <= Len(deps[c.service])
  PROVE  /\ DepCall(c) \in Calls /\ DepCall(c).service = Dep(c.service, c.i)
         /\ \A dep \in Results : NextCall(c, dep) \in Calls
<1>. DEFINE s == c.service
            d == deps[s][c.i]
<1>1. s \in services /\ c.i \in 1..Len(deps[s]) /\ c.parentIDs \subseteq Classes /\ c.order \in Orders
  BY DEF Calls, Buildable
<1>2. d \in Classes /\ First(Providers(d)) \in services
  BY <1>1, DepIsService DEF Dep
<1>3. DepCall(c) \in Calls
  BY <1>1, <1>2 DEF DepCall, Calls
<1>4. \A dep \in Results : DeepestDep(c.maxDep, dep.result) \in Int
  BY DEF DeepestDep, Results, Calls
<1>5. \A dep \in Results : NextCall(c, dep) \in Calls
  BY <1>1, <1>4 DEF NextCall, Calls, Results
<1>. QED
  BY <1>3, <1>5 DEF DepCall, Dep

LEMMA WorkIsNat ==
  ASSUME Buildable, NEW h, IsHeight(h, services)
  PROVE  Work(h) \in [Calls -> Nat]
<1>1. \A s \in services : h[s] \in Nat /\ Len(deps[s]) \in Nat /\ h[s] > Len(deps[s])
  BY DEF IsHeight, Buildable
<1>2. \A b \in Calls : b.service \in services /\ b.i \in Nat
  BY DEF Calls
<1>. QED
  BY <1>1, <1>2 DEF Work

LEMMA WorkDecreases ==
  ASSUME Buildable, NEW h, IsHeight(h, services),
         NEW c \in Calls, deps[c.service] # <<>>, c.i <= Len(deps[c.service])
  PROVE  /\ Work(h) \in [Calls -> Nat]
         /\ Work(h)[DepCall(c)] < Work(h)[c]
         /\ \A dep \in Results : Work(h)[NextCall(c, dep)] < Work(h)[c]
<1>1. \A s \in services : h[s] \in Nat /\ Len(deps[s]) \in Nat /\ h[s] > Len(deps[s])
  BY DEF IsHeight, Buildable
<1>2. Work(h) \in [Calls -> Nat]
  BY WorkIsNat
<1>. DEFINE s == c.service
            t == Dep(s, c.i)
<1>3. s \in services /\ c.i \in 1..Len(deps[s])
  BY DEF Calls, Buildable
<1>4. t \in services /\ h[t] + Len(deps[s]) < h[s]
  BY <1>3, DepIsService DEF IsHeight
<1>5. Work(h)[c] = h[s] - c.i
  BY DEF Work
<1>6. Work(h)[DepCall(c)] < Work(h)[c]
  <2>1. DepCall(c) \in Calls /\ DepCall(c).service = t /\ DepCall(c).i = 1
    BY CallsAreTyped DEF DepCall
  <2>2. Work(h)[DepCall(c)] = IF 1 <= Len(deps[t]) THEN h[t] - 1 ELSE h[t] - Len(deps[t]) - 1
    BY <2>1 DEF Work
  <2>. HIDE DEF t
  <2>. QED
    BY <1>1, <1>3, <1>4, <1>5, <2>2
<1>7. ASSUME NEW dep \in Results PROVE Work(h)[NextCall(c, dep)] < Work(h)[c]
  <2>1. NextCall(c, dep) \in Calls /\ NextCall(c, dep).service = s /\ NextCall(c, dep).i = c.i + 1
    BY CallsAreTyped DEF NextCall
  <2>2. Work(h)[NextCall(c, dep)]
          = IF c.i + 1 <= Len(deps[s]) THEN h[s] - (c.i + 1) ELSE h[s] - Len(deps[s]) - 1
    BY <2>1 DEF Work
  <2>. QED
    BY <1>1, <1>3, <1>5, <2>2
<1>. QED
  BY <1>2, <1>6, <1>7

(* What a call returns depends on the calls it makes.                      *)
LEMMA ResultIsTyped ==
  ASSUME Buildable, NEW f, NEW c \in Calls,
         deps[c.service] # <<>> /\ c.i <= Len(deps[c.service]) =>
           f[NextCall(c, f[DepCall(c)])] \in Results
  PROVE  CallResult(f, c) \in Results
<1>. DEFINE s == c.service
<1>1. s \in services /\ s \in Classes /\ c.order \in Orders /\ c.maxDep \in Int /\ c.i \in Nat
      /\ c.order[s] \in Int
  BY DEF Calls, Buildable, Orders
<1>2. [c.order EXCEPT ![s] = c.maxDep] \in Orders
  BY <1>1 DEF Orders
<1>3. CASE c.i = 1 /\ c.order[s] # -1
  BY <1>1, <1>3 DEF CallResult, Results
<1>4. CASE ~(c.i = 1 /\ c.order[s] # -1) /\ deps[s] = <<>>
  BY <1>1, <1>4 DEF CallResult, Results
<1>5. CASE ~(c.i = 1 /\ c.order[s] # -1) /\ deps[s] # <<>> /\ c.i > Len(deps[s])
  BY <1>1, <1>2, <1>5 DEF CallResult, Results
<1>6. CASE ~(c.i = 1 /\ c.order[s] # -1) /\ deps[s] # <<>> /\ ~(c.i > Len(deps[s]))
  <2>1. c.i <= Len(deps[s])
    BY <1>1, <1>6 DEF Buildable
  <2>2. [order |-> c.order, result |-> -1] \in Results
    BY <1>1 DEF Results
  <2>. QED
    BY <1>6, <2>1, <2>2 DEF CallResult, NextCall, DepCall
<1>. QED
  BY <1>3, <1>4, <1>5, <1>6

LEMMA ResultDepends ==
  ASSUME Buildable, NEW f \in [Calls -> Results], NEW g \in [Calls -> Results], NEW c \in Calls,
         deps[c.service] # <<>> /\ c.i <= Len(deps[c.service]) =>
           /\ f[DepCall(c)] = g[DepCall(c)]
           /\ f[NextCall(c, f[DepCall(c)])] = g[NextCall(c, f[DepCall(c)])]
  PROVE  CallResult(f, c) = CallResult(g, c)
<1>1. c.i \in Nat /\ Len(deps[c.service]) \in Nat
  BY DEF Calls, Buildable
<1>2. CASE deps[c.service] = <<>> \/ c.i > Len(deps[c.service])
  BY <1>2 DEF CallResult
<1>3. CASE deps[c.service] # <<>> /\ c.i <= Len(deps[c.service])
  BY <1>1, <1>3 DEF CallResult, DepCall, NextCall
<1>. QED
  BY <1>1, <1>2, <1>3

(* RecurrsiveBuildDep ends on every call and satisfies its definition.     *)
LEMMA BuildDepFromReturns ==
  ASSUME Buildable
  PROVE  /\ BuildDepFrom \in [Calls -> Results]
         /\ \A c \in Calls : BuildDepFrom[c] = CallResult(BuildDepFrom, c)
<1>. DEFINE F == [Calls -> Results]
            G == [p \in Calls \X F |-> CallResult(p[2], p[1])]
            v0 == [order |-> [k \in Classes |-> -1], result |-> 0]
<1>1. PICK h : IsHeight(h, services)
  BY Heights
<1>2. v0 \in Results
  BY DEF Results, Orders
<1>3. G \in [Calls \X F -> Results] /\ \A c \in Calls : \A f \in F : G[<<c, f>>] = CallResult(f, c)
  BY ResultIsTyped, CallsAreTyped
<1>4. ASSUME NEW c \in Calls, NEW f \in F, NEW g \in F,
             \A b \in Calls : Work(h)[b] < Work(h)[c] => f[b] = g[b]
      PROVE  G[<<c, f>>] = G[<<c, g>>]
  <2>1. CASE deps[c.service] # <<>> /\ c.i <= Len(deps[c.service])
    <3>1. /\ DepCall(c) \in Calls /\ f[DepCall(c)] \in Results
          /\ NextCall(c, f[DepCall(c)]) \in Calls
      BY <2>1, CallsAreTyped
    <3>2. /\ Work(h)[DepCall(c)] < Work(h)[c]
          /\ Work(h)[NextCall(c, f[DepCall(c)])] < Work(h)[c]
      BY <1>1, <2>1, <3>1, WorkDecreases
    <3>3. CallResult(f, c) = CallResult(g, c)
      BY <1>4, <3>1, <3>2, ResultDepends
    <3>. QED
      BY <1>3, <3>3
  <2>2. CASE ~(deps[c.service] # <<>> /\ c.i <= Len(deps[c.service]))
    BY <1>3, <2>2, ResultDepends
  <2>. QED
    BY <2>1, <2>2
<1>5. Work(h) \in [Calls -> Nat]
  BY <1>1, WorkIsNat
<1>6. PICK f \in F : \A c \in Calls : f[c] = G[<<c, f>>]
  <2>2. \A c \in Calls : \A e, g \in F :
          (\A b \in Calls : Work(h)[b] < Work(h)[c] => e[b] = g[b]) => G[<<c, e>>] = G[<<c, g>>]
    <3>. HIDE DEF G, F
    <3>. QED
      BY <1>4
  <2>3. G \in [Calls \X F -> Results]
    BY <1>3
  <2>. DEFINE m == Work(h)
              D == Calls
              V == Results
  <2>4. Recursive(G, D, V, m) /\ v0 \in V
    BY <1>2, <1>5, <2>2, <2>3 DEF Recursive
  <2>5. \E f : Solution(f, G, D, V)
    <3>. HIDE DEF G, v0, m, D, V
    <3>. QED
      BY <2>4, Recursion
  <2>. HIDE DEF G
  <2>. QED
    BY <2>5 DEF Solution
<1>7. f = [c \in Calls |-> CallResult(f, c)]
  BY <1>3, <1>6
<1>. DEFINE B == BuildDepFrom
<1>8. B = [c \in Calls |-> CallResult(B, c)]
  BY <1>7 DEF BuildDepFrom, CallResult
<1>9. \A c \in Calls : B[c] \in Results
  <2>. DEFINE Bad == {c \in Calls : B[c] \notin Results}
  <2>. SUFFICES ASSUME Bad # {} PROVE FALSE
    OBVIOUS
  <2>. HIDE DEF B
  <2>1. PICK c \in Bad : \A b \in Bad : Work(h)[c] <= Work(h)[b]
    <3>. DEFINE m == Work(h)
    <3>1. Bad \subseteq Calls /\ m \in [Calls -> Nat]
      BY <1>5
    <3>. HIDE DEF Bad, m
    <3>2. \E c \in Bad : \A b \in Bad : m[c] <= m[b]
      BY <3>1, Smallest
    <3>. QED
      BY <3>2 DEF m
  <2>2. \A b \in Calls : Work(h)[b] < Work(h)[c] => B[b] \in Results
    BY <1>5, <2>1
  <2>3. ASSUME deps[c.service] # <<>>, c.i <= Len(deps[c.service])
        PROVE  B[NextCall(c, B[DepCall(c)])] \in Results
    <3>1. B[DepCall(c)] \in Results
      BY <1>1, <2>2, <2>3, CallsAreTyped, WorkDecreases
    <3>. QED
      BY <1>1, <2>2, <2>3, <3>1, CallsAreTyped, WorkDecreases
  <2>4. CallResult(B, c) \in Results
    BY <2>3, ResultIsTyped
  <2>. QED
    BY <1>8, <2>4
<1>. QED
  BY <1>8, <1>9

-----------------------------------------------------------------------------
(* An order under which what has a place comes after what it depends on.   *)
Done(ord, s) == deps[s] = <<>> \/ ord[s] # -1

Good(ord) ==
  \A s \in services : ord[s] # -1 =>
    /\ deps[s] # <<>> /\ ord[s] >= 0
    /\ \A i \in 1..Len(deps[s]) : Done(ord, Dep(s, i)) /\ ord[Dep(s, i)] < ord[s]

(* A call that RecurrsiveBuildDep makes: the path that leads to it is      *)
(* above it, and the dependencies before the i-th have their place.        *)
Legal(h, c) ==
  LET s == c.service IN
  /\ Good(c.order)
  /\ \A p \in c.parentIDs : \E t \in Providers(p) : h[t] >= h[s]
  /\ c.i > 1 => /\ c.order[s] = -1 /\ c.maxDep >= 0
                /\ deps[s] # <<>> /\ c.i <= Len(deps[s]) + 1
  /\ \A j \in 1..Len(deps[s]) : j < c.i =>
       Done(c.order, Dep(s, j)) /\ c.order[Dep(s, j)] < c.maxDep

(* What it returns: the service has its place, others only below it.       *)
Returned(h, c, r) ==
  LET s == c.service IN
  /\ Good(r.order)
  /\ \A t \in services :
       /\ c.order[t] # -1 => r.order[t] = c.order[t]
       /\ t # s /\ h[t] >= h[s] => r.order[t] = c.order[t]
  /\ Done(r.order, s) /\ r.order[s] <= r.result /\ r.result >= 0

LEMMA NeededIsLower ==
  ASSUME Buildable, NEW h, IsHeight(h, services), NEW s \in services, NEW t \in Needed(s)
  PROVE  t \in services /\ h[t] \in Nat /\ h[s] \in Nat /\ h[t] < h[s] /\ s # t
<1>1. t \in services /\ h \in [services -> Nat] /\ h[t] + Len(deps[s]) < h[s]
  BY DEF IsHeight
<1>2. Len(deps[s]) \in Nat
  BY DEF Buildable
<1>. QED
  BY <1>1, <1>2

(* After its last dependency a service has its place: nothing that has a place *)
(* before it depends on it.                                                *)
LEMMA LastCall ==
  ASSUME Buildable, NEW h, IsHeight(h, services), NEW c \in Calls, Legal(h, c),
         deps[c.service] # <<>>, c.i > Len(deps[c.service])
  PROVE  Returned(h, c, [order |-> [c.order EXCEPT ![c.service] = c.maxDep], result |-> c.maxDep])
<1>. DEFINE s == c.service
            new == [c.order EXCEPT ![s] = c.maxDep]
<1>1. /\ s \in services /\ c.order \in Orders /\ c.maxDep \in Int /\ services \subseteq Classes
      /\ Len(deps[s]) \in Nat /\ Len(deps[s]) > 0 /\ c.i \in Nat
  BY DEF Calls, Buildable
<1>2. c.order[s] = -1 /\ c.maxDep >= 0
  BY <1>1 DEF Legal
<1>3. new[s] = c.maxDep /\ \A t \in services : t # s => new[t] = c.order[t]
  BY <1>1 DEF Orders
<1>4. \A j \in 1..Len(deps[s]) : Done(c.order, Dep(s, j)) /\ c.order[Dep(s, j)] < c.maxDep
  BY <1>1 DEF Legal
<1>5. \A u \in services : \A j \in 1..Len(deps[u]) : Dep(u, j) \in services
  BY DepIsService
<1>6. \A j \in 1..Len(deps[s]) : Dep(s, j) # s
  BY <1>1, DepIsService, NeededIsLower
<1>7. \A t \in services : Done(c.order, t) /\ t # s => Done(new, t) /\ new[t] = c.order[t]
  BY <1>3 DEF Done
<1>. HIDE DEF new
<1>8. Good(new)
  <2>. SUFFICES ASSUME NEW u \in services, new[u] # -1
       PROVE  /\ deps[u] # <<>> /\ new[u] >= 0
              /\ \A j \in 1..Len(deps[u]) : Done(new, Dep(u, j)) /\ new[Dep(u, j)] < new[u]
    BY DEF Good
  <2>1. CASE u = s
    BY <1>1, <1>2, <1>3, <1>4, <1>5, <1>6, <1>7, <2>1
  <2>2. CASE u # s
    <3>1. new[u] = c.order[u] /\ c.order[u] # -1 /\ Good(c.order)
      BY <1>3, <2>2 DEF Legal
    <3>2. ASSUME NEW j \in 1..Len(deps[u])
          PROVE  Done(new, Dep(u, j)) /\ new[Dep(u, j)] < new[u]
      <4>1. Done(c.order, Dep(u, j)) /\ c.order[Dep(u, j)] < c.order[u] /\ Dep(u, j) \in services
        BY <1>5, <3>1 DEF Good
      <4>2. Dep(u, j) # s
        BY <1>2, <4>1 DEF Done
      <4>. QED
        BY <1>7, <3>1, <4>1, <4>2
    <3>. QED
      BY <3>1, <3>2 DEF Good
  <2>. QED
    BY <2>1, <2>2
<1>. QED
  BY <1>1, <1>2, <1>3, <1>8 DEF Returned, Done, new

(* The cycle test of RecurrsiveBuildDep never strikes without a cycle: what a *)
(* service needs is below everything on the path to it.                    *)
LEMMA DepCallLegal ==
  ASSUME Buildable, NEW h, IsHeight(h, services), NEW c \in Calls, Legal(h, c),
         deps[c.service] # <<>>, c.i <= Len(deps[c.service])
  PROVE  /\ Legal(h, DepCall(c))
         /\ deps[c.service][c.i] \notin c.parentIDs /\ Providers(deps[c.service][c.i]) # {}
<1>. DEFINE s == c.service
            d == deps[s][c.i]
            t == Dep(s, c.i)
<1>1. s \in services /\ c.i \in 1..Len(deps[s])
  BY DEF Calls, Buildable
<1>2. /\ d \in ToSet(deps[s]) /\ Providers(d) # {} /\ t \in Providers(d) /\ t \in services
      /\ t \in Needed(s)
  BY <1>1, DepIsService
<1>3. \A u \in Providers(d) : h[u] < h[s] /\ h[u] \in Nat /\ h[s] \in Nat
  <2>. TAKE u \in Providers(d)
  <2>1. u \in Needed(s)
    BY <1>2 DEF Needed
  <2>. HIDE DEF d
  <2>. QED
    BY <1>1, <2>1, NeededIsLower
<1>4. \A p \in c.parentIDs : \E u \in Providers(p) : h[u] >= h[s] /\ h[u] \in Nat
  BY DEF Legal, IsHeight, Providers
<1>5. d \notin c.parentIDs
  BY <1>3, <1>4
<1>6. /\ DepCall(c).service = t /\ DepCall(c).i = 1 /\ DepCall(c).order = c.order
      /\ DepCall(c).parentIDs = c.parentIDs \cup {d}
  BY DEF DepCall, Dep
<1>7. \A p \in c.parentIDs \cup {d} : \E u \in Providers(p) : h[u] >= h[t]
  BY <1>2, <1>3, <1>4
<1>. HIDE DEF t, d
<1>8. Legal(h, DepCall(c))
  BY <1>6, <1>7 DEF Legal
<1>. QED
  BY <1>2, <1>5, <1>8 DEF d

(* The recursive call for one dependency leaves the service itself and those *)
(* that have a place alone.                                                *)
LEMMA NextCallLegal ==
  ASSUME Buildable, NEW h, IsHeight(h, services), NEW c \in Calls, Legal(h, c),
         deps[c.service] # <<>>, c.i <= Len(deps[c.service]), c.order[c.service] = -1,
         NEW r \in Results, Returned(h, DepCall(c), r)
  PROVE  Legal(h, NextCall(c, r))
<1>. DEFINE s == c.service
            t == Dep(s, c.i)
            max == DeepestDep(c.maxDep, r.result)
<1>1. /\ s \in services /\ c.i \in 1..Len(deps[s]) /\ Len(deps[s]) \in Nat /\ c.i \in Nat
      /\ r.order \in Orders /\ r.result \in Int /\ c.maxDep \in Int
      /\ c.order \in Orders /\ services \subseteq Classes
  BY DEF Calls, Buildable, Results
<1>2. t \in services /\ h[t] < h[s] /\ h[t] \in Nat /\ h[s] \in Nat /\ s # t
  <2>1. t \in Needed(s)
    BY <1>1, DepIsService
  <2>. HIDE DEF t
  <2>. QED
    BY <1>1, <2>1, NeededIsLower
<1>3. DepCall(c).service = t /\ DepCall(c).order = c.order
  BY DEF DepCall, Dep
<1>4. /\ Good(r.order) /\ Done(r.order, t) /\ r.order[t] <= r.result /\ r.result >= 0
      /\ r.order[s] = -1
      /\ \A u \in services : c.order[u] # -1 => r.order[u] = c.order[u]
  BY <1>1, <1>2, <1>3 DEF Returned
<1>5. max \in Int /\ max >= c.maxDep /\ max > r.result /\ max >= 0
  BY <1>1, <1>4 DEF DeepestDep
<1>. HIDE DEF max
<1>6. ASSUME NEW j \in 1..Len(deps[s]), j < c.i + 1
      PROVE  Done(r.order, Dep(s, j)) /\ r.order[Dep(s, j)] < max
  <2>1. Dep(s, j) \in services /\ r.order[Dep(s, j)] \in Int /\ c.order[Dep(s, j)] \in Int
    BY <1>1, DepIsService DEF Orders
  <2>2. CASE j = c.i
    BY <1>4, <1>5, <1>1, <2>1, <2>2
  <2>3. CASE j # c.i
    <3>1. Done(c.order, Dep(s, j)) /\ c.order[Dep(s, j)] < c.maxDep
      BY <1>1, <1>6, <2>3 DEF Legal
    <3>2. CASE c.order[Dep(s, j)] # -1
      BY <1>1, <1>4, <1>5, <2>1, <3>1, <3>2 DEF Done
    <3>3. CASE c.order[Dep(s, j)] = -1
      <4>1. deps[Dep(s, j)] = <<>>
        BY <3>1, <3>3 DEF Done
      <4>2. r.order[Dep(s, j)] = -1
        BY <1>4, <2>1, <4>1 DEF Good
      <4>. QED
        BY <1>5, <4>1, <4>2 DEF Done
    <3>. QED
      BY <3>2, <3>3
  <2>. QED
    BY <2>2, <2>3
<1>7. /\ NextCall(c, r).service = s /\ NextCall(c, r).i = c.i + 1 /\ NextCall(c, r).order = r.order
      /\ NextCall(c, r).parentIDs = c.parentIDs /\ NextCall(c, r).maxDep = max
  BY DEF NextCall, max
<1>8. \A p \in c.parentIDs : \E u \in Providers(p) : h[u] >= h[s]
  BY DEF Legal
<1>. QED
  BY <1>1, <1>4, <1>5, <1>6, <1>7, <1>8 DEF Legal

(* RecurrsiveBuildDep gives a service and all below it a place.            *)
LEMMA RecurrsiveBuildDepReturns ==
  ASSUME Buildable, NEW h, IsHeight(h, services), NEW c \in Calls, Legal(h, c)
  PROVE  Returned(h, c, BuildDepFrom[c])
<1>. DEFINE B == BuildDepFrom
            Bad == {b \in Calls : Legal(h, b) /\ ~Returned(h, b, B[b])}
<1>. SUFFICES ASSUME Bad # {} PROVE FALSE
  OBVIOUS
<1>1. PICK b \in Bad : \A e \in Bad : Work(h)[b] <= Work(h)[e]
  <2>. DEFINE m == Work(h)
  <2>1. m \in [Calls -> Nat]
    BY WorkIsNat
  <2>2. Bad \subseteq Calls
    OBVIOUS
  <2>. HIDE DEF Bad, m
  <2>3. \E e \in Bad : \A f \in Bad : m[e] <= m[f]
    BY <2>1, <2>2, Smallest
  <2>. QED
    BY <2>3 DEF m
<1>. DEFINE s == b.service
<1>2. b \in Calls /\ Legal(h, b) /\ ~Returned(h, b, B[b])
  OBVIOUS
<1>3. B \in [Calls -> Results] /\ B[b] = CallResult(B, b)
  BY <1>2, BuildDepFromReturns
<1>4. /\ s \in services /\ b.order \in Orders /\ b.order[s] \in Int /\ b.i \in Nat
      /\ Len(deps[s]) \in Nat
  <2>1. s \in services /\ b.order \in Orders /\ b.i \in Nat
    BY <1>2 DEF Calls
  <2>2. s \in Classes /\ deps[s] \in Seq(Classes)
    BY <2>1 DEF Buildable
  <2>. HIDE DEF s
  <2>. QED
    BY <2>1, <2>2 DEF Orders
<1>. HIDE DEF B
<1>5. CASE b.i = 1 /\ b.order[s] # -1
  <2>1. B[b] = [order |-> b.order, result |-> b.order[s]]
    BY <1>3, <1>5 DEF CallResult
  <2>2. Good(b.order) /\ b.order[s] >= 0
    BY <1>2, <1>4, <1>5 DEF Legal, Good
  <2>3. Returned(h, b, B[b])
    BY <1>4, <1>5, <2>1, <2>2 DEF Returned, Done
  <2>. QED
    BY <1>2, <2>3
<1>6. CASE ~(b.i = 1 /\ b.order[s] # -1) /\ deps[s] = <<>>
  <2>1. B[b] = [order |-> b.order, result |-> 0]
    BY <1>3, <1>6 DEF CallResult
  <2>2. Good(b.order) /\ b.order[s] = -1
    BY <1>2, <1>4, <1>6 DEF Legal, Good
  <2>3. Returned(h, b, B[b])
    BY <1>4, <1>6, <2>1, <2>2 DEF Returned, Done
  <2>. QED
    BY <1>2, <2>3
<1>7. CASE ~(b.i = 1 /\ b.order[s] # -1) /\ deps[s] # <<>> /\ b.i > Len(deps[s])
  <2>1. B[b] = [order |-> [b.order EXCEPT ![s] = b.maxDep], result |-> b.maxDep]
    BY <1>3, <1>7 DEF CallResult
  <2>2. Returned(h, b, B[b])
    BY <1>2, <1>7, <2>1, LastCall
  <2>. QED
    BY <1>2, <2>2
<1>8. CASE ~(b.i = 1 /\ b.order[s] # -1) /\ deps[s] # <<>> /\ ~(b.i > Len(deps[s]))
  <2>1. b.i <= Len(deps[s]) /\ b.order[s] = -1
    <3>1. b.i > 0
      BY <1>2 DEF Calls
    <3>. QED
      BY <1>2, <1>4, <1>8, <3>1 DEF Legal
  <2>. DEFINE r == B[DepCall(b)]
              n == NextCall(b, r)
              t == Dep(s, b.i)
  <2>2. /\ Legal(h, DepCall(b)) /\ deps[s][b.i] \notin b.parentIDs
        /\ Providers(deps[s][b.i]) # {}
    BY <1>2, <1>8, <2>1, DepCallLegal
  <2>3. B[b] = B[n]
    BY <1>3, <1>8, <2>2 DEF CallResult, DepCall, NextCall
  <2>4. DepCall(b) \in Calls /\ Work(h)[DepCall(b)] < Work(h)[b] /\ r \in Results
    BY <1>2, <1>3, <1>8, <2>1, CallsAreTyped, WorkDecreases
  <2>5. n \in Calls /\ Work(h)[n] < Work(h)[b] /\ Work(h) \in [Calls -> Nat]
    BY <1>2, <1>8, <2>1, <2>4, CallsAreTyped, WorkDecreases
  <2>6. Returned(h, DepCall(b), r)
    BY <1>1, <1>2, <2>2, <2>4, <2>5
  <2>7. Legal(h, n)
    BY <1>2, <1>8, <2>1, <2>4, <2>6, NextCallLegal
  <2>8. Returned(h, n, B[n])
    BY <1>1, <1>2, <2>5, <2>7
  <2>9. /\ n.service = s /\ n.order = r.order
        /\ DepCall(b).service = t /\ DepCall(b).order = b.order
    BY DEF NextCall, DepCall, Dep
  <2>10. t \in services /\ h[t] < h[s] /\ h[t] \in Nat /\ h[s] \in Nat
         /\ \A u \in services : h[u] \in Nat
    <3>1. b.i \in 1..Len(deps[s])
      BY <1>2, <1>4, <2>1 DEF Calls
    <3>2. t \in Needed(s)
      BY <1>4, <3>1, DepIsService
    <3>3. \A u \in services : h[u] \in Nat
      BY DEF IsHeight
    <3>. HIDE DEF t, s
    <3>. QED
      BY <1>4, <3>2, <3>3, NeededIsLower
  <2>. HIDE DEF n, r, t
  <2>11. Returned(h, b, B[n])
    <3>1. ASSUME NEW u \in services, u # s /\ h[u] >= h[s]
          PROVE  B[n].order[u] = b.order[u]
      <4>1. u # t /\ h[u] >= h[t]
        BY <2>10, <3>1
      <4>2. r.order[u] = b.order[u]
        BY <2>6, <2>9, <4>1 DEF Returned
      <4>. QED
        BY <2>8, <2>9, <3>1, <4>2 DEF Returned
    <3>2. ASSUME NEW u \in services, b.order[u] # -1
          PROVE  B[n].order[u] = b.order[u]
      BY <2>6, <2>8, <2>9, <3>2 DEF Returned
    <3>3. /\ Good(B[n].order) /\ Done(B[n].order, s) /\ B[n].order[s] <= B[n].result
          /\ B[n].result >= 0
      BY <2>8, <2>9 DEF Returned
    <3>. QED
      BY <3>1, <3>2, <3>3 DEF Returned
  <2>. QED
    BY <1>2, <2>3, <2>11
<1>. QED
  BY <1>5, <1>6, <1>7, <1>8

-----------------------------------------------------------------------------
(* BuildDep, service by service.                                           *)
NextBuild(b) ==
  [order |-> RecurrsiveBuildDep(b.order, First(b.todo), {First(b.todo)}).order,
   todo |-> b.todo \ {First(b.todo)}]

BuildResult(f, b) == IF b.todo = {} THEN b.order ELSE f[NextBuild(b)]

ToDo == [b \in Builds |-> Cardinality(b.todo)]

LEMMA NextBuildStep ==
  ASSUME Buildable, NEW b \in Builds, b.todo # {}
  PROVE  /\ First(b.todo) \in b.todo /\ First(b.todo) \in services
         /\ NextBuild(b) \in Builds /\ ToDo[NextBuild(b)] < ToDo[b]
         /\ Good(b.order) =>
              /\ Good(NextBuild(b).order) /\ Done(NextBuild(b).order, First(b.todo))
              /\ \A t \in services : b.order[t] # -1 => NextBuild(b).order[t] = b.order[t]
<1>. DEFINE s == First(b.todo)
            c == [order |-> b.order, service |-> s, parentIDs |-> {s}, i |-> 1, maxDep |-> -1]
<1>1. b.todo \subseteq services /\ b.order \in Orders
  BY DEF Builds
<1>2. s \in b.todo /\ s \in services /\ s \in Classes
  BY <1>1, FirstIsIn DEF Buildable
<1>3. c \in Calls /\ BuildDepFrom[c] \in Results
  <2>1. c \in Calls
    BY <1>1, <1>2 DEF Calls
  <2>. QED
    BY <2>1, BuildDepFromReturns
<1>4. NextBuild(b) = [order |-> BuildDepFrom[c].order, todo |-> b.todo \ {s}]
  BY DEF NextBuild, RecurrsiveBuildDep
<1>5. NextBuild(b) \in Builds
  BY <1>1, <1>3, <1>4 DEF Builds, Results
<1>6. ToDo[NextBuild(b)] < ToDo[b]
  <2>1. IsFiniteSet(b.todo)
    BY <1>1, FS_Subset DEF Buildable
  <2>2. Cardinality(b.todo \ {s}) = Cardinality(b.todo) - 1 /\ Cardinality(b.todo) \in Nat
    BY <1>2, <2>1, FS_RemoveElement, FS_CardinalityType
  <2>3. NextBuild(b).todo = b.todo \ {s}
    BY <1>4
  <2>4. ToDo[NextBuild(b)] = Cardinality(b.todo \ {s}) /\ ToDo[b] = Cardinality(b.todo)
    BY <1>5, <2>3 DEF ToDo
  <2>. HIDE DEF s
  <2>. QED
    BY <2>2, <2>4
<1>7. ASSUME Good(b.order)
      PROVE  /\ Good(NextBuild(b).order) /\ Done(NextBuild(b).order, s)
             /\ \A t \in services : b.order[t] # -1 => NextBuild(b).order[t] = b.order[t]
  <2>1. PICK h : IsHeight(h, services)
    BY Heights
  <2>2. s \in Providers(s) /\ h[s] >= h[s]
    BY <1>2, <2>1 DEF Providers, Chain, IsHeight
  <2>3. Legal(h, c)
    BY <1>7, <2>2 DEF Legal
  <2>4. Returned(h, c, BuildDepFrom[c])
    BY <1>3, <2>1, <2>3, RecurrsiveBuildDepReturns
  <2>. QED
    BY <1>4, <2>4 DEF Returned
<1>. QED
  BY <1>2, <1>5, <1>6, <1>7

(* BuildDep ends, and satisfies its definition.                            *)
LEMMA BuiltFromReturns ==
  ASSUME Buildable
  PROVE  /\ BuiltFrom \in [Builds -> Orders]
         /\ \A b \in Builds : BuiltFrom[b] = BuildResult(BuiltFrom, b)
<1>. DEFINE F == [Builds -> Orders]
            G == [p \in Builds \X F |-> BuildResult(p[2], p[1])]
            v0 == [k \in Classes |-> -1]
<1>1. ToDo \in [Builds -> Nat]
  BY FS_Subset, FS_CardinalityType DEF ToDo, Builds, Buildable
<1>2. v0 \in Orders
  BY DEF Orders
<1>3. G \in [Builds \X F -> Orders] /\ \A b \in Builds : \A f \in F : G[<<b, f>>] = BuildResult(f, b)
  <2>1. \A b \in Builds : \A f \in F : BuildResult(f, b) \in Orders
    BY NextBuildStep DEF BuildResult, Builds
  <2>. QED
    BY <2>1
<1>4. \A b \in Builds : \A e, g \in F :
        (\A c \in Builds : ToDo[c] < ToDo[b] => e[c] = g[c]) => G[<<b, e>>] = G[<<b, g>>]
  <2>. HIDE DEF G, F
  <2>. QED
    BY <1>3, NextBuildStep DEF BuildResult
<1>5. PICK f \in F : \A b \in Builds : f[b] = G[<<b, f>>]
  <2>. DEFINE m == ToDo
              D == Builds
              V == Orders
  <2>1. Recursive(G, D, V, m) /\ v0 \in V
    BY <1>1, <1>2, <1>3, <1>4 DEF Recursive
  <2>2. \E f : Solution(f, G, D, V)
    <3>. HIDE DEF G, v0, m, D, V
    <3>. QED
      BY <2>1, Recursion
  <2>. HIDE DEF G
  <2>. QED
    BY <2>2 DEF Solution
<1>6. f = [b \in Builds |-> BuildResult(f, b)]
  BY <1>3, <1>5
<1>. DEFINE B == BuiltFrom
<1>7. B = [b \in Builds |-> BuildResult(B, b)]
  BY <1>6 DEF BuiltFrom, BuildResult, NextBuild
<1>8. \A b \in Builds : B[b] \in Orders
  <2>. DEFINE Bad == {b \in Builds : B[b] \notin Orders}
  <2>. SUFFICES ASSUME Bad # {} PROVE FALSE
    OBVIOUS
  <2>. HIDE DEF B
  <2>1. PICK b \in Bad : \A c \in Bad : ToDo[b] <= ToDo[c]
    <3>1. Bad \subseteq Builds
      OBVIOUS
    <3>. HIDE DEF Bad
    <3>. QED
      BY <1>1, <3>1, Smallest
  <2>2. \A c \in Builds : ToDo[c] < ToDo[b] => B[c] \in Orders
    BY <1>1, <2>1
  <2>3. B[b] = BuildResult(B, b) /\ b \in Builds
    BY <1>7
  <2>4. BuildResult(B, b) \in Orders
    BY <2>2, <2>3, NextBuildStep DEF BuildResult, Builds
  <2>. QED
    BY <2>3, <2>4
<1>. QED
  BY <1>7, <1>8

(* BuildDep gives every service its place.                                 *)
LEMMA BuiltIsGood ==
  ASSUME Buildable, NEW b \in Builds, Good(b.order)
  PROVE  /\ Good(BuiltFrom[b])
         /\ \A t \in services : b.order[t] # -1 => BuiltFrom[b][t] = b.order[t]
         /\ \A t \in b.todo : Done(BuiltFrom[b], t)
<1>. DEFINE Right(c) == /\ Good(BuiltFrom[c])
                        /\ \A t \in services : c.order[t] # -1 => BuiltFrom[c][t] = c.order[t]
                        /\ \A t \in c.todo : Done(BuiltFrom[c], t)
            Bad == {c \in Builds : Good(c.order) /\ ~Right(c)}
<1>. SUFFICES ASSUME Bad # {} PROVE FALSE
  OBVIOUS
<1>1. ToDo \in [Builds -> Nat]
  BY FS_Subset, FS_CardinalityType DEF ToDo, Builds, Buildable
<1>2. PICK c \in Bad : \A e \in Bad : ToDo[c] <= ToDo[e]
  <2>1. Bad \subseteq Builds
    OBVIOUS
  <2>. HIDE DEF Bad
  <2>. QED
    BY <1>1, <2>1, Smallest
<1>3. c \in Builds /\ Good(c.order) /\ ~Right(c)
  OBVIOUS
<1>4. BuiltFrom[c] = BuildResult(BuiltFrom, c)
  BY <1>3, BuiltFromReturns
<1>5. CASE c.todo = {}
  <2>1. BuiltFrom[c] = c.order
    BY <1>4, <1>5 DEF BuildResult
  <2>. QED
    BY <1>3, <1>5, <2>1
<1>6. CASE c.todo # {}
  <2>. DEFINE n == NextBuild(c)
              s == First(c.todo)
  <2>1. /\ n \in Builds /\ ToDo[n] < ToDo[c] /\ Good(n.order) /\ Done(n.order, s) /\ s \in c.todo
        /\ s \in services
        /\ \A t \in services : c.order[t] # -1 => n.order[t] = c.order[t]
        /\ n.todo = c.todo \ {s}
    BY <1>3, <1>6, NextBuildStep DEF NextBuild
  <2>2. BuiltFrom[c] = BuiltFrom[n]
    BY <1>4, <1>6 DEF BuildResult
  <2>3. Right(n)
    <3>. HIDE DEF Right, n
    <3>. QED
      BY <1>1, <1>2, <1>3, <2>1
  <2>. HIDE DEF n, s
  <2>4. Done(BuiltFrom[n], s)
    BY <2>1, <2>3 DEF Done
  <2>. QED
    BY <1>3, <2>1, <2>2, <2>3, <2>4
<1>. QED
  BY <1>5, <1>6

(* The list that is sorted by the order of BuildDep has a provider of each *)
(* dependency of a service before the service.                             *)
LEMMA SortPutsDepsFirst ==
  ASSUME Buildable, order \in Orders, \A s \in services : order[s] = -1,
         NEW q \in SortedLists(BuiltOrder)
  PROVE  \A i \in DOMAIN q : \A d \in ToSet(deps[q[i]]) :
           \E j \in DOMAIN q : j < i /\ q[j] \in Providers(d)
<1>. DEFINE b == [order |-> order, todo |-> services]
            ord == BuiltOrder
<1>1. b \in Builds /\ Good(b.order)
  BY DEF Builds, Good
<1>2. ord \in Orders /\ Good(ord) /\ \A s \in services : Done(ord, s)
  BY <1>1, BuiltFromReturns, BuiltIsGood DEF BuiltOrder
<1>. HIDE DEF ord
<1>3. /\ q \in Seq(services) /\ ToSet(q) = services /\ DOMAIN q \subseteq Nat
      /\ \A i, j \in DOMAIN q : i < j => Before(ord, q[i], q[j])
  BY Permutation DEF SortedLists, Buildable, ord
<1>. SUFFICES ASSUME NEW i \in DOMAIN q, NEW d \in ToSet(deps[q[i]])
     PROVE  \E j \in DOMAIN q : j < i /\ q[j] \in Providers(d)
  OBVIOUS
<1>. DEFINE s == q[i]
<1>4. s \in services /\ deps[s] \in Seq(Classes)
  <2>1. s \in services
    BY <1>3
  <2>. HIDE DEF s
  <2>. QED
    BY <2>1 DEF Buildable
<1>5. PICK k \in 1..Len(deps[s]) : d = deps[s][k]
  BY <1>4 DEF ToSet
<1>. DEFINE t == Dep(s, k)
<1>6. t \in services /\ t \in Providers(d)
  BY <1>4, <1>5, DepIsService
<1>7. deps[s] # <<>>
  BY <1>4, <1>5
<1>8. ord[t] < ord[s] /\ ord[t] \in Int /\ ord[s] \in Int
  <2>. HIDE DEF s, t
  <2>1. ord[s] # -1
    BY <1>2, <1>4, <1>7 DEF Done
  <2>2. ord[t] < ord[s]
    BY <1>2, <1>4, <1>5, <2>1 DEF Good, t
  <2>. QED
    BY <1>2, <1>4, <1>6, <2>2 DEF Orders, Buildable
<1>9. PICK j \in DOMAIN q : q[j] = t
  BY <1>3, <1>6 DEF ToSet
<1>. HIDE DEF t
<1>10. ~(i < j) /\ i # j
  BY <1>3, <1>8, <1>9 DEF Before
<1>. QED
  BY <1>3, <1>6, <1>9, <1>10

-----------------------------------------------------------------------------
LEMMA IsBuildable ==
  ASSUME Types, DepInv, Provided, Acyclic
  PROVE  Buildable
<1>1. IsFiniteSet(services)
  BY FS_Subset, ServiceMgrAssumption DEF Types
<1>. QED
  BY <1>1, ServiceMgrAssumption DEF Types, DepInv, Buildable

LEMMA RegisterDeps ==
  ASSUME Types, ContractInv, DepInv, Contract, NEW s \in objects, RegisterService(s)
  PROVE  DepInv'
<1>1. /\ objects' = objects /\ deps' = deps /\ opList' = opList
      /\ s \notin services /\ main.pc \in {"setup", "running"}
      /\ \A c : Chain(c)' = Chain(c)
  BY SameChain DEF RegisterService, config
<1>2. CASE main.pc = "setup"
  <2>1. order' = [order EXCEPT ![s] = -1] /\ services' = services \cup {s} /\ main' = main
    BY <1>2 DEF RegisterService, Types
  <2>2. s \in Classes
    BY DEF Types
  <2>3. order \in Orders /\ \A t \in services : order[t] = -1
    BY <1>2 DEF DepInv
  <2>4. order' \in Orders
    BY <2>1, <2>2, <2>3 DEF Orders
  <2>5. order'[s] = -1 /\ \A t \in services : order'[t] = -1
    BY <2>1, <2>2, <2>3 DEF Orders
  <2>. QED
    BY <1>1, <1>2, <2>1, <2>4, <2>5 DEF DepInv, InUse
<1>3. CASE main.pc = "running"
  <2>1. /\ services' = services /\ main'.pc = "enlist" /\ main'.pos = s
        /\ \A d \in ToSet(deps[s]) : Providers(d) # {}
    BY <1>3 DEF RegisterService, Types
  <2>2. \A c : Providers(c)' = Providers(c)
    BY <1>1, <2>1 DEF Providers
  <2>3. DepsBefore'
    BY <1>1, <1>3, <2>2 DEF DepInv, DepsBefore, InUse
  <2>. QED
    BY <1>1, <2>1, <2>2, <2>3 DEF DepInv
<1>. QED
  BY <1>1, <1>2, <1>3

LEMMA EnlistDeps ==
  ASSUME Types, ContractInv, DepInv, Enlist
  PROVE  DepInv'
<1>. DEFINE s == main.pos
            n == Len(opList)
<1>1. /\ objects' = objects /\ deps' = deps /\ services' = services \cup {s}
      /\ main.pc = "enlist" /\ main'.pc = "running" /\ opList' = Append(opList, s)
      /\ \A c : Chain(c)' = Chain(c)
  BY SameChain DEF Enlist, config
<1>2. /\ opList \in Seq(objects) /\ ToSet(opList) = services /\ s \in objects
      /\ \A d \in ToSet(deps[s]) : Providers(d) # {}
  BY <1>1 DEF Types, ContractInv, ListInv, DepInv, InUse
<1>3. \A c : Providers(c) \subseteq Providers(c)'
  BY <1>1 DEF Providers
<1>. HIDE DEF s
<1>4. /\ n \in Nat /\ DOMAIN opList = 1..n /\ DOMAIN opList' = 1..(n + 1)
      /\ \A i \in 1..n : opList'[i] = opList[i]
      /\ opList'[n + 1] = s
  BY <1>1, <1>2
<1>5. ASSUME NEW i \in 1..(n + 1), NEW d \in ToSet(deps[opList'[i]])
      PROVE  \E j \in 1..(n + 1) : j < i /\ opList'[j] \in Providers(d)'
  <2>. HIDE DEF n
  <2>1. CASE i \in 1..n
    <3>1. PICK j \in 1..n : j < i /\ opList[j] \in Providers(d)
      BY <1>1, <1>4, <1>5, <2>1 DEF DepInv, DepsBefore, InUse
    <3>. QED
      BY <1>3, <1>4, <3>1
  <2>2. CASE i = n + 1
    <3>1. PICK t \in services : t \in Providers(d)
      BY <1>2, <1>4, <1>5, <2>2 DEF Providers
    <3>2. PICK j \in 1..n : opList[j] = t
      BY <1>2, <1>4, <3>1 DEF ToSet
    <3>. QED
      BY <1>3, <1>4, <2>2, <3>1, <3>2
  <2>. QED
    BY <1>4, <2>1, <2>2
<1>6. DepsBefore'
  BY <1>1, <1>4, <1>5 DEF DepsBefore
<1>. QED
  BY <1>1, <1>6 DEF DepInv

(* Init lists every service after providers of its dependencies; a late service *)
(* finds them in the list.                                                 *)
LEMMA InitServicesDeps ==
  ASSUME Types, DepInv, Contract, InitServices
  PROVE  DepInv'
<1>1. /\ objects' = objects /\ deps' = deps /\ services' = services /\ main'.pc = "init"
      /\ main.pc = "setup" /\ Provided /\ Acyclic
      /\ opList' \in SortedLists(order') /\ order' = BuiltOrder
      /\ \A c : Chain(c)' = Chain(c)
  BY SameChain DEF InitServices, MayInit, config
<1>2. \A c : Providers(c)' = Providers(c)
  BY <1>1 DEF Providers
<1>3. Buildable
  BY <1>1, IsBuildable
<1>4. order \in Orders /\ \A s \in services : order[s] = -1
  BY <1>1 DEF DepInv
<1>5. \A i \in DOMAIN opList' : \A d \in ToSet(deps[opList'[i]]) :
        \E j \in DOMAIN opList' : j < i /\ opList'[j] \in Providers(d)
  BY <1>1, <1>3, <1>4, SortPutsDepsFirst
<1>6. DepsBefore'
  BY <1>1, <1>2, <1>5 DEF DepsBefore
<1>. QED
  BY <1>1, <1>6 DEF DepInv

LEMMA NextDeps ==
  Types /\ ContractInv /\ DepInv /\ Contract /\ [Next]_vars => DepInv'
<1>. SUFFICES ASSUME Types, ContractInv, DepInv, Contract, [Next]_vars PROVE DepInv'
  OBVIOUS
<1>1. ASSUME UNCHANGED <<objects, base, deps, services, order, opList>>,
             main'.pc \notin {"setup", "enlist", "down"}, main.pc \in InUse
      PROVE  DepInv'
  <2>1. \A c : Chain(c)' = Chain(c)
    BY <1>1, SameChain
  <2>2. \A c : Providers(c)' = Providers(c)
    BY <1>1, <2>1 DEF Providers
  <2>3. DepsBefore'
    BY <1>1, <2>2 DEF DepInv, DepsBefore
  <2>. QED
    BY <1>1, <2>3 DEF DepInv
<1>2. ASSUME UNCHANGED <<objects, base, deps, services, order, opList, main>> PROVE DepInv'
  <2>1. \A c : Chain(c)' = Chain(c)
    BY <1>2, SameChain
  <2>2. \A c : Providers(c)' = Providers(c)
    BY <1>2, <2>1 DEF Providers
  <2>3. DepsBefore' <=> DepsBefore
    BY <1>2, <2>2 DEF DepsBefore
  <2>. QED
    BY <1>2, <2>2, <2>3 DEF DepInv
<1>3. ASSUME NEW s \in objects, UnRegisterService(s) PROVE DepInv'
  <2>1. main.pc = "setup" /\ main' = main
    BY <1>3 DEF UnRegisterService
  <2>2. UNCHANGED <<objects, deps, order>> /\ services' \subseteq services
    BY <1>3 DEF UnRegisterService, config
  <2>3. main'.pc = "setup" /\ main'.pc \notin InUse
    BY <2>1 DEF InUse
  <2>. QED
    BY <2>1, <2>2, <2>3 DEF DepInv
<1>4. CASE OnInit \/ InitDone \/ ShutDown \/ StopFrame \/ OnDestroy
  <2>1. main'.pc \notin {"setup", "enlist", "down"} /\ main.pc \in InUse
    BY <1>4 DEF OnInit, InitDone, ShutDown, StopFrame, OnDestroy, Types, Mains, InUse
  <2>2. UNCHANGED <<objects, base, deps, services, order, opList>>
    BY <1>4 DEF OnInit, InitDone, ShutDown, StopFrame, OnDestroy, config, maps
  <2>. QED
    BY <1>1, <2>1, <2>2
<1>5. CASE Clear
  BY <1>5 DEF Clear, DepInv, config, InUse
<1>6. CASE Frame \/ UNCHANGED vars
  BY <1>2, <1>6 DEF Frame, FrameTest, Visit, vars, config, maps
<1>. QED
  BY <1>3, <1>4, <1>5, <1>6, RegisterDeps, EnlistDeps, InitServicesDeps DEF Next, Main

-----------------------------------------------------------------------------
LEMMA NextManagerInv == ManagerInv /\ [Next]_vars => ManagerInv'
BY NextTypes, NextLookup, NextContract, NextDeps DEF ManagerInv

-----------------------------------------------------------------------------
LEMMA InvInitedOnce == ManagerInv => InitedOnce
<1>. SUFFICES ASSUME ManagerInv, Contract, main.pc = "running"
     PROVE  /\ \A s \in services : life[s] = "inited"
            /\ ToSet(opList) = services
            /\ Len(opList) = Cardinality(services)
  BY DEF InitedOnce
<1>1. /\ opList \in Seq(objects) /\ Once(opList) /\ ToSet(opList) = services
      /\ \A i \in 1..Len(opList) : life[opList[i]] = "inited"
  BY DEF ManagerInv, Types, ContractInv, ListInv, LifeInv, InUse
<1>2. Cardinality(services) = Len(opList)
  BY <1>1, OnceCounts
<1>3. \A s \in services : \E i \in 1..Len(opList) : s = opList[i]
  BY <1>1 DEF ToSet
<1>. QED
  BY <1>1, <1>2, <1>3

LEMMA InvTicksOnlyLive == ManagerInv => TicksOnlyLive
BY FrameSeesLive DEF TicksOnlyLive, ManagerInv, ContractInv, BrokenInv

LEMMA InvDependenciesAlive == ManagerInv => DependenciesAlive
<1>. SUFFICES ASSUME ManagerInv, Contract,
                     NEW s \in services, life[s] = "inited", NEW d \in ToSet(deps[s])
     PROVE  \E t \in Providers(d) : life[t] = "inited"
  BY DEF DependenciesAlive
<1>1. Types /\ ListInv /\ LifeInv /\ DepInv
  BY DEF ManagerInv, ContractInv
<1>2. main.pc # "setup"
  BY <1>1 DEF LifeInv
<1>3. main.pc # "down"
  BY <1>1 DEF DepInv
<1>4. CASE main.pc \in InUse
  <2>1. /\ ToSet(opList) = services /\ DepsBefore /\ opList \in Seq(objects)
    BY <1>1, <1>4 DEF ListInv, DepInv, Types, InUse
  <2>2. DOMAIN opList = 1..Len(opList) /\ Len(opList) \in Nat
    BY <2>1
  <2>3. PICK i \in 1..Len(opList) : opList[i] = s
    BY <2>1, <2>2 DEF ToSet
  <2>4. PICK j \in 1..Len(opList) : j < i /\ opList[j] \in Providers(d)
    BY <2>1, <2>2, <2>3 DEF DepsBefore
  <2>5. life[opList[j]] = "inited"
    BY <1>1, <1>4, <2>2, <2>3, <2>4 DEF LifeInv, Types, InUse
  <2>. QED
    BY <2>4, <2>5
<1>. QED
  BY <1>1, <1>2, <1>3, <1>4 DEF Types, Mains, InUse

-----------------------------------------------------------------------------
(* The manager of a program that starts and stops.                         *)
SystemInv == ManagerInv /\ role \in [Roles -> objects]

LEMMA SystemInitInv == SystemInit => SystemInv
<1>. SUFFICES ASSUME NEW a \in Addresses, NEW d \in WorkerDeps, role = a,
                     NewManager(Configured(a, d))
     PROVE  SystemInv
  BY DEF SystemInit
<1>1. a \in [Roles -> Classes]
  BY SystemAssumption DEF Injection
<1>2. Configured(a, d).objects = {a[r] : r \in Roles} /\ Configured(a, d).frameService = 0
  BY DEF Configured
<1>3. \A s \in Configured(a, d).objects : Configured(a, d).deps[s] \in Seq(Classes)
  <2>1. \A r \in Roles : Dependencies(r, d) \in Seq(Roles)
    <3>1. d \in Seq(Roles)
      BY SystemAssumption
    <3>2. <<"Platform">> \in Seq(Roles) /\ <<"Asset">> \in Seq(Roles) /\ <<>> \in Seq(Roles)
      BY DEF Roles
    <3>. QED
      BY <3>1, <3>2 DEF Dependencies
  <2>2. ASSUME NEW k \in {a[r] : r \in Roles} PROVE Configured(a, d).deps[k] \in Seq(Classes)
    <3>. DEFINE r == CHOOSE r \in Roles : a[r] = k
                e == Dependencies(r, d)
    <3>1. r \in Roles
      OBVIOUS
    <3>2. e \in Seq(Roles) /\ DOMAIN e = 1..Len(e) /\ Len(e) \in Nat
      <4>. HIDE DEF r
      <4>1. e \in Seq(Roles)
        BY <2>1, <3>1
      <4>. HIDE DEF e
      <4>. QED
        BY <4>1
    <3>3. Configured(a, d).deps[k] = [i \in DOMAIN e |-> a[e[i]]]
      BY <2>2 DEF Configured
    <3>. HIDE DEF e
    <3>4. \A i \in 1..Len(e) : a[e[i]] \in Classes
      BY <1>1, <3>2
    <3>. QED
      BY <3>2, <3>3, <3>4
  <2>. QED
    BY <1>2, <2>2
<1>4. ManagerInv
  BY <1>1, <1>2, <1>3, NewManagerInv
<1>5. objects = {a[r] : r \in Roles}
  BY <1>2 DEF NewManager
<1>. QED
  BY <1>1, <1>4, <1>5 DEF SystemInv

(* What the program does to its manager are steps of the manager.          *)
LEMMA SystemStep ==
  ASSUME role \in [Roles -> objects], SystemNext
  PROVE  [Next]_vars /\ UNCHANGED <<role, objects>>
<1>1. ASSUME NEW r \in Roles, Register(r) PROVE [Next]_vars /\ UNCHANGED <<role, objects>>
  BY <1>1 DEF SystemNext, Register, Next, RegisterService, config
<1>2. ASSUME Main, UNCHANGED role PROVE [Next]_vars /\ UNCHANGED <<role, objects>>
  <2>1. UNCHANGED objects
    BY <1>2 DEF Main, InitServices, OnInit, InitDone, Enlist, ShutDown, StopFrame, OnDestroy, Clear, config
  <2>. QED
    BY <1>2, <2>1 DEF SystemNext, Next
<1>3. ASSUME UNCHANGED vars, UNCHANGED role PROVE [Next]_vars /\ UNCHANGED <<role, objects>>
  BY <1>3 DEF vars, config
<1>4. CASE InitFoundation
  BY <1>3, <1>4 DEF InitFoundation
<1>5. CASE RegisterFactory \/ DefaultFactory \/ InitService \/ InjectService
  <2>1. CASE \E r \in Roles : Register(r)
    BY <1>1, <2>1
  <2>2. CASE RegisterNothing
    BY <1>3, <2>2 DEF RegisterNothing
  <2>. QED
    BY <1>5, <2>1, <2>2
    DEF RegisterFactory, DefaultFactory, InitService, InjectService, Roles
<1>6. CASE RegisterFramework
  BY <1>1, <1>6 DEF RegisterFramework, Roles
<1>7. CASE \/ BuildDep \/ InitReturns \/ InjectedService \/ Shutdown
           \/ OnInitService \/ OnDestroyService \/ ShutDownFoundation
  BY <1>2, <1>7 DEF BuildDep, InitReturns, InjectedService, Shutdown, OnInitService,
                    OnDestroyService, ShutDownFoundation, Main, systemVars
<1>8. CASE LogOpOrder \/ InitApplication
  BY <1>3, <1>8 DEF LogOpOrder, InitApplication
<1>9. CASE WorkerLogs \/ \E t \in Loggers : InLog(t)
  BY <1>3, <1>9 DEF WorkerLogs, InLog, systemVars
<1>. QED
  BY <1>4, <1>5, <1>6, <1>7, <1>8, <1>9 DEF SystemNext, SystemMain

LEMMA SystemNextInv == SystemInv /\ [SystemNext]_<<systemVars, vars, logVars>> => SystemInv'
<1>1. ASSUME SystemInv, SystemNext PROVE SystemInv'
  BY <1>1, SystemStep, NextManagerInv DEF SystemInv
<1>2. ASSUME SystemInv, UNCHANGED <<systemVars, vars, logVars>> PROVE SystemInv'
  <2>1. UNCHANGED vars /\ UNCHANGED <<role, objects>>
    BY <1>2 DEF systemVars, vars, config
  <2>. QED
    BY <1>2, <2>1, NextManagerInv DEF SystemInv
<1>. QED
  BY <1>1, <1>2

LEMMA ManagerInvariant == Spec \/ SystemSpec => []ManagerInv
<1>1. Init => ManagerInv
  BY NewManagerInv, ServiceMgrAssumption DEF Init
<1>2. Spec => []ManagerInv
  BY <1>1, NextManagerInv, PTL DEF Spec
<1>3. SystemSpec => []SystemInv
  BY SystemInitInv, SystemNextInv, PTL DEF SystemSpec
<1>4. SystemInv => ManagerInv
  BY DEF SystemInv
<1>. QED
  BY <1>2, <1>3, <1>4, PTL

-----------------------------------------------------------------------------
(* GetService returns a registered service of the class that was asked for *)
(* and finds the one there is, whatever classes derive from one another,   *)
(* through late registrations, UnRegisterService and ShutDown, with and    *)
(* without the contract.                                                   *)
THEOREM LookupsAreExact == Spec \/ SystemSpec => []LookupIsExact
<1>1. ManagerInv => LookupIsExact
  BY DEF ManagerInv
<1>. QED
  BY <1>1, ManagerInvariant, PTL

(* Callers that keep to the contract have every registered service         *)
(* initialised once, by Init, whatever order BuildDep has found, or when   *)
(* it registers later.                                                     *)
THEOREM ServicesAreInitedOnce == Spec \/ SystemSpec => []InitedOnce
BY InvInitedOnce, ManagerInvariant, PTL

(* The frame thread, which goes through the list without a lock, calls a   *)
(* service that comes before its own in the list only while that is        *)
(* initialised, and ShutDown destroys each service once, for any number of *)
(* services, wherever the frame service is in the list or when it is added *)
(* to it, and in every interleaving with Init, late registrations and      *)
(* ShutDown.  What it may call when it is deleted comes behind its own.    *)
THEOREM OnlyLiveServicesTick == Spec \/ SystemSpec => []TicksOnlyLive
BY InvTicksOnlyLive, ManagerInvariant, PTL

(* Under the contract every service is initialised after, and destroyed    *)
(* before, a service of each class it depends on: RecurrsiveBuildDep ends, *)
(* the order it computes and the sort put one before it, for any graph of  *)
(* dependencies without a cycle, any base classes and any addresses.       *)
THEOREM DependenciesStayAlive == Spec \/ SystemSpec => []DependenciesAlive
BY InvDependenciesAlive, ManagerInvariant, PTL

-----------------------------------------------------------------------------
(* Logging while the program starts and stops.                             *)

(* A service that is not registered is not initialised, unless it is on    *)
(* the way to the list; and none is destroyed before ShutDown.             *)
OutInv ==
  \A s \in objects :
    /\ s \notin services /\ life[s] = "inited" => main.pc = "enlist" /\ s = main.pos
    /\ life[s] = "destroyed" => main.pc \in {"shutdown", "join", "down"}

(* The services that log depend on the log service.                        *)
WorkersNeedLog == \A d \in WorkerDeps : "Log" \in ToSet(d)

(* The roles of a program and their classes.                               *)
RoleInv ==
  /\ role["Log"] \in objects /\ role["Worker"] \in objects /\ role["Log"] # role["Worker"]
  /\ role["Log"] \in ToSet(deps[role["Worker"]])
  /\ \A c \in Classes : base[c] = 0

Texts == {NoSite, "opOrder", "openFails", "configError", "inited", "workInfo", "workError"}

(* Where a log call is, and what is in the buffer.                         *)
CallInv ==
  /\ call \in [Loggers -> [pc : {"out", "format", "test", "find", "log"},
                           site : Texts, record : Texts]]
  /\ curInfo \in [Loggers -> Texts]
  /\ \A t \in Loggers : call[t].pc = "format" => curInfo[t] = call[t].site
  /\ RecordsAreOwn
  /\ logger \in BOOLEAN /\ (~logger => buffered = {})

(* Who may be in a log call: the worker's thread while the worker lives,   *)
(* the main thread until System::Shutdown.                                 *)
CallersInv ==
  /\ \A t \in Loggers : t \notin {"main", "worker"} => Quiet(t)
  /\ script \in {"shutdown", "down"} => Quiet("main")
  /\ life[role["Worker"]] # "inited" => Quiet("worker")

LogInv ==
  /\ CallInv /\ CallersInv
  /\ ~danglingLog
  /\ life[role["Log"]] = "destroyed" => script \in {"shutdown", "down"} /\ buffered = {}

LEMMA NextOut == Types /\ ContractInv /\ OutInv /\ Contract /\ [Next]_vars => OutInv'
<1>. SUFFICES ASSUME Types, ContractInv, OutInv, Contract, [Next]_vars PROVE OutInv'
  OBVIOUS
<1>1. ASSUME NEW s \in objects, RegisterService(s) PROVE OutInv'
  <2>1. /\ objects' = objects /\ main.pc \in {"setup", "running"}
        /\ \A t \in objects : t # s => life'[t] = life[t]
        /\ \/ services' = services /\ main'.pc = "enlist" /\ main'.pos = s
              /\ life'[s] = "inited"
           \/ services' = services \cup {s} /\ main' = main /\ life'[s] = "registered"
    BY <1>1 DEF RegisterService, config, Types
  <2>. QED
    BY <2>1 DEF OutInv
<1>2. ASSUME NEW s \in objects, UnRegisterService(s) PROVE OutInv'
  <2>1. /\ objects' = objects /\ services' = services \ {s} /\ main' = main
        /\ life' = [life EXCEPT ![s] = "absent"]
    BY <1>2 DEF UnRegisterService, config
  <2>. QED
    BY <2>1 DEF OutInv, Types
<1>3. CASE OnInit
  <2>1. /\ objects' = objects /\ services' = services
        /\ life' = [life EXCEPT ![opList[main.pos]] = "inited"]
        /\ main.pc = "init" /\ main.pos <= Len(opList)
    BY <1>3 DEF OnInit, config, maps
  <2>2. opList[main.pos] \in services
    <3>1. main.pos \in 1..Len(opList) /\ ToSet(opList) = services
      BY <2>1 DEF Types, ContractInv, ListInv, LifeInv, InUse
    <3>. QED
      BY <3>1 DEF ToSet, Types
  <2>. QED
    BY <2>1, <2>2 DEF OutInv, Types
<1>4. CASE OnDestroy
  <2>1. /\ objects' = objects /\ services' = services
        /\ life' = [life EXCEPT ![opList[main.pos]] = "destroyed"]
        /\ main.pc \in {"shutdown", "join"} /\ main'.pc = "shutdown"
    BY <1>4 DEF OnDestroy, config, maps
  <2>. QED
    BY <2>1 DEF OutInv, Types
<1>5. CASE Clear
  <2>1. objects' = objects /\ life' = life /\ main.pc = "shutdown" /\ main.pos = 0
        /\ main'.pc = "down"
    BY <1>5 DEF Clear, config
  <2>2. \A i \in 1..Len(opList) : life[opList[i]] = "destroyed"
    BY <2>1 DEF ContractInv, LifeInv
  <2>3. ToSet(opList) = services
    BY <2>1 DEF ContractInv, ListInv, InUse
  <2>4. \A s \in services : life[s] # "inited"
    BY <2>2, <2>3 DEF ToSet, Types
  <2>. QED
    BY <2>1, <2>4 DEF OutInv
<1>6. CASE InitServices \/ InitDone \/ ShutDown \/ StopFrame
  <2>1. /\ objects' = objects /\ services' = services /\ life' = life
        /\ \/ main.pc \in {"setup", "init", "running"}
           \/ main.pc = "shutdown" /\ main'.pc = "join"
    BY <1>6 DEF InitServices, InitDone, ShutDown, StopFrame, config, maps, Types, Mains
  <2>. QED
    BY <2>1 DEF OutInv
<1>7. CASE Frame \/ UNCHANGED vars
  <2>1. objects' = objects /\ services' = services /\ life' = life /\ main' = main
    BY <1>7 DEF Frame, FrameTest, Visit, vars, config, maps
  <2>. QED
    BY <2>1 DEF OutInv
<1>8. CASE Enlist
  <2>1. /\ objects' = objects /\ services' = services \cup {main.pos} /\ life' = life
        /\ main.pc = "enlist"
    BY <1>8 DEF Enlist, config
  <2>. QED
    BY <2>1 DEF OutInv
<1>. QED
  BY <1>1, <1>2, <1>3, <1>4, <1>5, <1>6, <1>7, <1>8 DEF Next, Main

LEMMA NextConfig == [Next]_vars => UNCHANGED config
BY DEF Next, RegisterService, UnRegisterService, Main, InitServices, OnInit, InitDone, Enlist, ShutDown,
       StopFrame, OnDestroy, Clear, Frame, FrameTest, Visit, vars

(* Without base classes only a service itself is of its class.             *)
LEMMA NoBases ==
  ASSUME \A c \in Classes : base[c] = 0
  PROVE  \A c \in Classes : Chain(c) = {c}
<1>. DEFINE f == [c \in Classes |-> {}]
<1>1. f = [c \in Classes |-> IF base[c] = 0 THEN {} ELSE {base[c]} \cup f[base[c]]]
  OBVIOUS
<1>2. Bases = [c \in Classes |-> IF base[c] = 0 THEN {} ELSE {base[c]} \cup Bases[base[c]]]
  <2>. HIDE DEF f
  <2>. QED
    BY <1>1 DEF Bases
<1>3. \A c \in Classes : Bases[c] = {}
  BY <1>2
<1>. QED
  BY <1>3 DEF Chain

(* A worker lives only as long as the log service.                         *)
LEMMA WorkerNeedsLog ==
  ASSUME Types, DependenciesAlive, OutInv, RoleInv, Contract, life[role["Log"]] = "destroyed"
  PROVE  life[role["Worker"]] # "inited"
<1>. SUFFICES ASSUME life[role["Worker"]] = "inited" PROVE FALSE
  OBVIOUS
<1>1. role["Worker"] \in services
  BY DEF OutInv, RoleInv
<1>2. PICK t \in Providers(role["Log"]) : life[t] = "inited"
  BY <1>1 DEF DependenciesAlive, RoleInv
<1>3. t = role["Log"]
  BY <1>2, NoBases DEF Providers, RoleInv, Types
<1>. QED
  BY <1>2, <1>3

-----------------------------------------------------------------------------
(* Log calls.                                                              *)
LEMMA SetLogInfoCall ==
  ASSUME CallInv, NEW t \in Loggers, NEW site \in Texts, SetLogInfo(t, site)
  PROVE  /\ CallInv' /\ UNCHANGED <<buffered, danglingLog>>
         /\ \A u \in Loggers : u # t => call'[u] = call[u]
<1>1. /\ call' = [call EXCEPT ![t] = [pc |-> "format", site |-> site, record |-> NoSite]]
      /\ curInfo' = [curInfo EXCEPT ![t] = site]
      /\ logger' = logger /\ buffered' = buffered /\ danglingLog' = danglingLog
  BY DEF SetLogInfo, fileVars
<1>2. NoSite \in Texts
  BY DEF NoSite, Texts
<1>3. /\ call' \in [Loggers -> [pc : {"out", "format", "test", "find", "log"},
                                site : Texts, record : Texts]]
      /\ curInfo' \in [Loggers -> Texts]
  BY <1>1, <1>2 DEF CallInv
<1>4. /\ call'[t].pc = "format" /\ call'[t].site = site /\ call'[t].record = NoSite
      /\ curInfo'[t] = site
      /\ \A u \in Loggers : u # t => call'[u] = call[u] /\ curInfo'[u] = curInfo[u]
  BY <1>1 DEF CallInv
<1>. QED
  BY <1>1, <1>3, <1>4 DEF CallInv, RecordsAreOwn

LEMMA EndOfCall ==
  ASSUME CallInv, NEW t \in Loggers, call' = [call EXCEPT ![t] = NoCall],
         UNCHANGED <<curInfo, logger>>, ~logger => buffered' = buffered
  PROVE  CallInv' /\ \A u \in Loggers : u # t => call'[u] = call[u]
<1>1. NoCall \in [pc : {"out", "format", "test", "find", "log"}, site : Texts, record : Texts]
  <2>1. NoSite \in Texts
    BY DEF NoSite, Texts
  <2>. QED
    BY <2>1 DEF NoCall
<1>2. NoCall.pc = "out" /\ NoCall.record = NoCall.site
  BY DEF NoCall
<1>. QED
  BY <1>1, <1>2 DEF CallInv, RecordsAreOwn

LEMMA LogCallCall ==
  ASSUME CallInv, NEW t \in Loggers, NEW registered, NEW deleted \in BOOLEAN,
         LogCall(t, registered, deleted)
  PROVE  /\ CallInv' /\ ~Quiet(t)
         /\ \A u \in Loggers : u # t => call'[u] = call[u]
         /\ danglingLog' => danglingLog \/ deleted
<1>1. CASE PrependLogInfo(t)
  <2>1. /\ call[t].pc = "format" /\ call[t].site = curInfo[t]
        /\ \/ call' = [call EXCEPT ![t] = [pc |-> "test", site |-> call[t].site,
                                          record |-> curInfo[t]]]
           \/ call' = [call EXCEPT ![t] = NoCall]
        /\ UNCHANGED <<curInfo, logger, buffered, danglingLog>>
    BY <1>1 DEF PrependLogInfo, CallInv, fileVars
  <2>2. CASE call' = [call EXCEPT ![t] = [pc |-> "test", site |-> call[t].site,
                                          record |-> curInfo[t]]]
    <3>1. /\ call' \in [Loggers -> [pc : {"out", "format", "test", "find", "log"},
                                    site : Texts, record : Texts]]
          /\ call'[t].pc = "test" /\ call'[t].site = call[t].site
          /\ call'[t].record = call[t].site
          /\ \A u \in Loggers : u # t => call'[u] = call[u]
      BY <2>1, <2>2 DEF CallInv
    <3>. QED
      BY <2>1, <3>1 DEF CallInv, RecordsAreOwn, Quiet
  <2>3. CASE call' = [call EXCEPT ![t] = NoCall]
    BY <2>1, <2>3, EndOfCall DEF Quiet
  <2>. QED
    BY <2>1, <2>2, <2>3
<1>2. CASE TestLogService(t)
  <2>1. PICK pc \in {"log", "find"} : call' = [call EXCEPT ![t].pc = pc]
    BY <1>2 DEF TestLogService
  <2>2. call[t].pc = "test" /\ UNCHANGED <<curInfo, logger, buffered, danglingLog>>
    BY <1>2 DEF TestLogService, fileVars
  <2>3. /\ call' \in [Loggers -> [pc : {"out", "format", "test", "find", "log"},
                                  site : Texts, record : Texts]]
        /\ call'[t].pc = pc /\ call'[t].site = call[t].site /\ call'[t].record = call[t].record
        /\ \A u \in Loggers : u # t => call'[u] = call[u]
    BY <2>1 DEF CallInv
  <2>. QED
    BY <2>2, <2>3 DEF CallInv, RecordsAreOwn, Quiet
<1>3. CASE FindLogService(t, registered)
  <2>1. /\ call' = [call EXCEPT ![t].pc = "log"] \/ call' = [call EXCEPT ![t] = NoCall]
        /\ call[t].pc = "find" /\ UNCHANGED <<curInfo, logger, buffered, danglingLog>>
    BY <1>3 DEF FindLogService, fileVars
  <2>2. CASE call' = [call EXCEPT ![t].pc = "log"]
    <3>1. /\ call' \in [Loggers -> [pc : {"out", "format", "test", "find", "log"},
                                    site : Texts, record : Texts]]
          /\ call'[t].pc = "log" /\ call'[t].site = call[t].site /\ call'[t].record = call[t].record
          /\ \A u \in Loggers : u # t => call'[u] = call[u]
      BY <2>2 DEF CallInv
    <3>. QED
      BY <2>1, <3>1 DEF CallInv, RecordsAreOwn, Quiet
  <2>3. CASE call' = [call EXCEPT ![t] = NoCall]
    BY <2>1, <2>3, EndOfCall DEF Quiet
  <2>. QED
    BY <2>1, <2>2, <2>3
<1>4. CASE WriteLog(t, deleted)
  <2>1. /\ call[t].pc = "log" /\ call' = [call EXCEPT ![t] = NoCall]
        /\ danglingLog' = (danglingLog \/ deleted)
        /\ ~logger => buffered' = buffered
        /\ UNCHANGED <<curInfo, logger>>
    BY <1>4 DEF WriteLog
  <2>. QED
    BY <2>1, EndOfCall DEF Quiet
<1>. QED
  BY <1>1, <1>2, <1>3, <1>4 DEF LogCall, DoLog, LogInfo, LogDebug, LogWarning, LogError

-----------------------------------------------------------------------------
(* Steps that have nothing to do with a log call, or begin one.            *)
LEMMA NoLogStep ==
  ASSUME LogInv, UNCHANGED logVars, UNCHANGED role,
         life'[role["Worker"]] # "inited" => life[role["Worker"]] # "inited",
         life'[role["Log"]] = "destroyed" => life[role["Log"]] = "destroyed",
         script' \in {"shutdown", "down"} => script \in {"shutdown", "down"} \/ Quiet("main"),
         script \in {"shutdown", "down"} => script' \in {"shutdown", "down"}
  PROVE  LogInv'
BY DEF LogInv, CallInv, CallersInv, RecordsAreOwn, Quiet, logVars, fileVars

LEMMA MainLogs ==
  ASSUME LogInv, NEW site \in Texts, SetLogInfo("main", site), UNCHANGED role,
         life'[role["Worker"]] # "inited" => life[role["Worker"]] # "inited",
         life'[role["Log"]] = "destroyed" => life[role["Log"]] = "destroyed",
         script \notin {"shutdown", "down"}, script' \notin {"shutdown", "down"}
  PROVE  LogInv'
<1>1. {"main", "worker"} \subseteq Loggers
  BY SystemAssumption
<1>2. /\ CallInv' /\ UNCHANGED <<buffered, danglingLog>>
      /\ \A u \in Loggers : u # "main" => call'[u] = call[u]
  BY <1>1, SetLogInfoCall DEF LogInv
<1>. QED
  BY <1>1, <1>2 DEF LogInv, CallersInv, Quiet

LEMMA RegisterLog ==
  ASSUME Types, LogInv, RoleInv, NEW s \in objects, RegisterService(s)
  PROVE  /\ life'[role["Worker"]] # "inited" => life[role["Worker"]] # "inited"
         /\ life'[role["Log"]] = "destroyed" => life[role["Log"]] = "destroyed"
<1>1. /\ life[s] = "absent"
      /\ \E x \in {"inited", "registered"} : life' = [life EXCEPT ![s] = x]
  BY DEF RegisterService
<1>. QED
  BY <1>1 DEF Types, RoleInv

LEMMA WorkerStep ==
  ASSUME LogInv, WorkerLogs
  PROVE  LogInv'
<1>1. {"main", "worker"} \subseteq Loggers
  BY SystemAssumption
<1>2. life[role["Worker"]] = "inited" /\ UNCHANGED <<role, life, script>>
  BY DEF WorkerLogs, systemVars, vars
<1>3. CASE \E site \in {"workInfo", "workError"} : SetLogInfo("worker", site)
  <2>1. PICK site \in Texts : SetLogInfo("worker", site)
    BY <1>3 DEF Texts
  <2>2. /\ CallInv' /\ UNCHANGED <<buffered, danglingLog>>
        /\ \A u \in Loggers : u # "worker" => call'[u] = call[u]
    BY <1>1, <2>1, SetLogInfoCall DEF LogInv
  <2>. QED
    BY <1>1, <1>2, <2>2 DEF LogInv, CallersInv, Quiet
<1>4. CASE \E level \in {LL_LOG_INFO, LL_LOG_WARNING} : SetLogLevel(level)
  BY <1>2, <1>4 DEF SetLogLevel, LogInv, CallInv, CallersInv, RecordsAreOwn, Quiet, fileVars
<1>. QED
  BY <1>3, <1>4 DEF WorkerLogs

(* Nobody is in a log call once the log service is destroyed.              *)
LEMMA InLogStep ==
  ASSUME Types, DependenciesAlive, OutInv, RoleInv, Contract, LogInv,
         NEW t \in Loggers, InLog(t)
  PROVE  LogInv'
<1>1. UNCHANGED <<role, life, script>> /\ LogCall(t, core /\ Registered("Log"), life[role["Log"]] = "destroyed")
  BY DEF InLog, systemVars, vars
<1>2. (life[role["Log"]] = "destroyed") \in BOOLEAN
  OBVIOUS
<1>3. /\ CallInv' /\ ~Quiet(t)
      /\ \A u \in Loggers : u # t => call'[u] = call[u]
      /\ danglingLog' => danglingLog \/ life[role["Log"]] = "destroyed"
  BY <1>1, <1>2, LogCallCall DEF LogInv
<1>4. t \in {"main", "worker"}
  BY <1>3 DEF LogInv, CallersInv
<1>5. life[role["Log"]] # "destroyed"
  <2>. SUFFICES ASSUME life[role["Log"]] = "destroyed" PROVE FALSE
    OBVIOUS
  <2>1. script \in {"shutdown", "down"}
    BY DEF LogInv
  <2>2. life[role["Worker"]] # "inited"
    BY WorkerNeedsLog
  <2>. QED
    BY <1>3, <1>4, <2>1, <2>2 DEF LogInv, CallersInv
<1>6. ~danglingLog'
  BY <1>3, <1>5 DEF LogInv
<1>7. CallersInv'
  <2>1. \A u \in Loggers : Quiet(u) => Quiet(u)'
    BY <1>3 DEF Quiet
  <2>2. {"main", "worker"} \subseteq Loggers
    BY SystemAssumption
  <2>. QED
    BY <1>1, <2>1, <2>2 DEF LogInv, CallersInv
<1>. QED
  BY <1>1, <1>3, <1>5, <1>6, <1>7 DEF LogInv

LEMMA OnInitStep ==
  ASSUME Types, ContractInv, RoleInv, LogInv, OnInitService
  PROVE  LogInv'
<1>1. /\ script = "order" /\ UNCHANGED <<role, script>> /\ OnInit /\ Quiet("main")
  BY DEF OnInitService, systemVars
<1>2. /\ life'[role["Worker"]] # "inited" => life[role["Worker"]] # "inited"
      /\ life'[role["Log"]] = "destroyed" => life[role["Log"]] = "destroyed"
  <2>1. life' = [life EXCEPT ![opList[main.pos]] = "inited"]
    BY <1>1 DEF OnInit
  <2>. QED
    BY <2>1 DEF Types, RoleInv
<1>3. CASE UNCHANGED logVars
  BY <1>1, <1>2, <1>3, NoLogStep
<1>4. CASE \E site \in {"openFails", "configError"} : SetLogInfo("main", site)
  <2>1. PICK site \in Texts : SetLogInfo("main", site)
    BY <1>4 DEF Texts
  <2>. QED
    BY <1>1, <1>2, <2>1, MainLogs
<1>5. CASE logger' = TRUE /\ UNCHANGED <<logLevel, logService, curInfo, call, buffered, danglingLog>>
  BY <1>1, <1>2, <1>5 DEF LogInv, CallInv, CallersInv, RecordsAreOwn, Quiet
<1>. QED
  BY <1>3, <1>4, <1>5 DEF OnInitService, OpenLogger

(* The worker's OnDestroy joins its thread; when the log service goes, the *)
(* worker has gone.                                                        *)
LEMMA OnDestroyStep ==
  ASSUME Types, RoleInv, LogInv, OnDestroyService
  PROVE  LogInv'
<1>. DEFINE s == opList[main.pos]
<1>1. /\ script = "shutdown" /\ UNCHANGED <<role, script>>
      /\ life' = [life EXCEPT ![s] = "destroyed"]
      /\ s = role["Worker"] => Quiet("worker")
  BY DEF OnDestroyService, OnDestroy, systemVars
<1>2. CASE s = role["Log"]
  <2>1. /\ buffered' = IF logger THEN {} ELSE buffered
        /\ UNCHANGED <<curInfo, call, logger, danglingLog>>
    BY <1>2 DEF OnDestroyService, FlushLogger
  <2>2. buffered' = {} /\ CallInv'
    BY <2>1 DEF LogInv, CallInv, RecordsAreOwn
  <2>3. life'[role["Worker"]] = life[role["Worker"]]
    BY <1>1, <1>2 DEF Types, RoleInv
  <2>. QED
    BY <1>1, <2>1, <2>2, <2>3 DEF LogInv, CallersInv, Quiet
<1>3. CASE s # role["Log"]
  <2>1. UNCHANGED logVars
    BY <1>3 DEF OnDestroyService
  <2>2. CallInv'
    BY <2>1 DEF LogInv, CallInv, RecordsAreOwn, logVars, fileVars
  <2>3. life'[role["Log"]] = life[role["Log"]]
    BY <1>1, <1>3 DEF Types, RoleInv
  <2>4. CallersInv'
    <3>1. UNCHANGED call
      BY <2>1 DEF logVars
    <3>2. s # role["Worker"] => life'[role["Worker"]] = life[role["Worker"]]
      BY <1>1 DEF Types, RoleInv
    <3>. QED
      BY <1>1, <3>1, <3>2 DEF LogInv, CallersInv, Quiet
  <2>. QED
    BY <1>1, <2>1, <2>2, <2>3, <2>4 DEF LogInv, logVars, fileVars
<1>. QED
  BY <1>2, <1>3

(* The other steps of the program leave the log alone, or begin a call.    *)
LEMMA RegisterStep ==
  ASSUME Types, RoleInv, LogInv, NEW from, NEW to, MainGoesTo(from, to),
         to \notin {"shutdown", "down"}, from \notin {"shutdown", "down"},
         RegisterNothing \/ \E r \in Roles : Register(r), role \in [Roles -> objects]
  PROVE  LogInv'
<1>1. /\ script = from /\ script' = to
      /\ UNCHANGED logVars /\ UNCHANGED role
  BY DEF MainGoesTo, RegisterNothing, Register
<1>2. /\ life'[role["Worker"]] # "inited" => life[role["Worker"]] # "inited"
      /\ life'[role["Log"]] = "destroyed" => life[role["Log"]] = "destroyed"
  <2>1. CASE RegisterNothing
    BY <2>1 DEF RegisterNothing, vars
  <2>2. CASE \E r \in Roles : Register(r)
    BY <2>2, RegisterLog DEF Register
  <2>. QED
    BY <2>1, <2>2
<1>. QED
  BY <1>1, <1>2, NoLogStep

LEMMA SystemLogStep ==
  ASSUME SystemInv, Contract, OutInv, RoleInv, LogInv, SystemNext
  PROVE  LogInv'
<1>1. /\ Types /\ ContractInv /\ DependenciesAlive /\ role \in [Roles -> objects]
  BY InvDependenciesAlive DEF SystemInv, ManagerInv
<1>2. CASE InitFoundation
  BY <1>2, NoLogStep DEF InitFoundation, MainGoesTo, vars
<1>3. CASE RegisterFactory
  BY <1>1, <1>3, RegisterStep DEF RegisterFactory, Roles
<1>4. CASE RegisterFramework
  BY <1>1, <1>4, RegisterStep DEF RegisterFramework, Roles
<1>5. CASE DefaultFactory
  BY <1>1, <1>5, RegisterStep DEF DefaultFactory, Roles
<1>6. CASE InitService
  BY <1>1, <1>6, RegisterStep DEF InitService, Roles
<1>7. CASE InjectService
  BY <1>1, <1>7, RegisterStep DEF InjectService, Roles
<1>8. CASE BuildDep
  BY <1>8, NoLogStep DEF BuildDep, MainGoesTo, InitServices
<1>9. CASE InitReturns
  BY <1>9, NoLogStep DEF InitReturns, MainGoesTo, InitDone
<1>10. CASE Shutdown
  BY <1>10, NoLogStep DEF Shutdown, MainGoesTo, ShutDown
<1>11. CASE ShutDownFoundation
  BY <1>11, NoLogStep DEF ShutDownFoundation, MainGoesTo, Clear
<1>12. CASE LogOpOrder
  <2>1. "opOrder" \in Texts
    BY DEF Texts
  <2>. QED
    BY <1>12, <2>1, MainLogs DEF LogOpOrder, vars
<1>13. CASE InitApplication
  <2>1. "inited" \in Texts
    BY DEF Texts
  <2>. QED
    BY <1>13, <2>1, MainLogs DEF InitApplication, vars
<1>14. CASE InjectedService
  BY <1>14, NoLogStep DEF InjectedService, MainGoesTo, Enlist
<1>. QED
  BY <1>1, <1>2, <1>3, <1>4, <1>5, <1>6, <1>7, <1>8, <1>9, <1>10, <1>11, <1>12, <1>13, <1>14,
     OnInitStep, OnDestroyStep, WorkerStep, InLogStep DEF SystemNext, SystemMain

-----------------------------------------------------------------------------
(* All of it.                                                              *)
LoggedInv == SystemInv /\ OutInv /\ RoleInv /\ LogInv

LEMMA LoggedInit == ASSUME WorkersNeedLog PROVE SystemInit => LoggedInv
<1>. SUFFICES ASSUME SystemInit, NEW a \in Addresses, NEW d \in WorkerDeps, role = a,
                     NewManager(Configured(a, d))
     PROVE  LoggedInv
  BY DEF SystemInit
<1>1. SystemInv
  BY SystemInitInv
<1>2. OutInv
  BY DEF OutInv, NewManager
<1>3. RoleInv
  <2>1. /\ a \in [Roles -> Classes]
        /\ \A r, q \in Roles : a[r] = a[q] => r = q
    BY SystemAssumption DEF Injection, IsInjective
  <2>2. objects = {a[r] : r \in Roles} /\ base = [k \in Classes |-> 0]
    BY DEF NewManager, Configured
  <2>3. role["Log"] \in objects /\ role["Worker"] \in objects /\ role["Log"] # role["Worker"]
    BY <2>1, <2>2 DEF Roles
  <2>4. role["Log"] \in ToSet(deps[role["Worker"]])
    <3>. DEFINE k == a["Worker"]
                r == CHOOSE r \in Roles : a[r] = k
    <3>1. r = "Worker"
      BY <2>1 DEF Roles
    <3>2. deps[k] = [i \in DOMAIN d |-> a[d[i]]]
      <4>1. Dependencies(r, d) = d
        BY <3>1 DEF Dependencies
      <4>2. k \in {a[q] : q \in Roles}
        BY DEF Roles
      <4>. HIDE DEF k
      <4>. QED
        BY <4>1, <4>2 DEF NewManager, Configured
    <3>3. PICK i \in DOMAIN d : d[i] = "Log"
      BY DEF WorkersNeedLog, ToSet
    <3>. HIDE DEF r
    <3>. QED
      BY <3>2, <3>3 DEF ToSet
  <2>. QED
    BY <2>2, <2>3, <2>4 DEF RoleInv
<1>4. LogInv
  <2>1. LogInit /\ script = "off" /\ NoSite \in Texts
    BY DEF SystemInit, NoSite, Texts
  <2>2. NoCall \in [pc : {"out", "format", "test", "find", "log"}, site : Texts, record : Texts]
    BY <2>1 DEF NoCall
  <2>3. CallInv /\ \A t \in Loggers : Quiet(t)
    BY <2>1, <2>2 DEF LogInit, CallInv, RecordsAreOwn, Quiet, NoCall
  <2>4. life[role["Log"]] = "absent"
    BY <1>3 DEF RoleInv, NewManager
  <2>. QED
    BY <2>1, <2>3, <2>4, SystemAssumption DEF LogInv, CallersInv, LogInit
<1>. QED
  BY <1>1, <1>2, <1>3, <1>4 DEF LoggedInv

LEMMA LoggedNext ==
  ASSUME Contract
  PROVE  LoggedInv /\ [SystemNext]_<<systemVars, vars, logVars>> => LoggedInv'
<1>1. ASSUME LoggedInv, SystemNext PROVE LoggedInv'
  <2>1. [Next]_vars /\ UNCHANGED <<role, objects>>
    BY <1>1, SystemStep DEF LoggedInv, SystemInv
  <2>2. SystemInv' /\ LogInv'
    BY <1>1, SystemNextInv, SystemLogStep DEF LoggedInv
  <2>3. OutInv'
    BY <1>1, <2>1, NextOut DEF LoggedInv, SystemInv, ManagerInv
  <2>4. RoleInv'
    BY <1>1, <2>1, NextConfig DEF LoggedInv, RoleInv, config
  <2>. QED
    BY <2>2, <2>3, <2>4 DEF LoggedInv
<1>2. ASSUME LoggedInv, UNCHANGED <<systemVars, vars, logVars>> PROVE LoggedInv'
  <2>1. SystemInv'
    BY <1>2, SystemNextInv DEF LoggedInv
  <2>2. OutInv' /\ RoleInv'
    <3>1. UNCHANGED <<objects, services, life, role, deps, base, main>>
      BY <1>2 DEF systemVars, vars, config, maps
    <3>. QED
      BY <1>2, <3>1 DEF LoggedInv, OutInv, RoleInv
  <2>3. LogInv'
    BY <1>2 DEF LoggedInv, LogInv, CallInv, CallersInv, RecordsAreOwn, Quiet,
                systemVars, vars, logVars, fileVars
  <2>. QED
    BY <2>1, <2>2, <2>3 DEF LoggedInv
<1>. QED
  BY <1>1, <1>2

(* DoLog keeps the log service for ever, and threads of other services log *)
(* whenever they like; yet, if the services that log depend on the log     *)
(* service and the program keeps to the contract, no record is handed to a *)
(* deleted service, each has the place of its own call, and nothing is     *)
(* left in the buffer of the file when the log service is gone.            *)
THEOREM LoggingIsSound == ASSUME Contract, WorkersNeedLog PROVE SystemSpec => []LogIsSound
<1>1. SystemInit => LoggedInv
  BY LoggedInit
<1>2. LoggedInv /\ [SystemNext]_<<systemVars, vars, logVars>> => LoggedInv'
  BY LoggedNext
<1>3. LoggedInv => LogIsSound
  BY DEF LoggedInv, LogInv, CallInv, LogIsSound
<1>. QED
  BY <1>1, <1>2, <1>3, PTL DEF SystemSpec
=============================================================================
