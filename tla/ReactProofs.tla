----------------------------- MODULE ReactProofs -----------------------------
(***************************************************************************)
(* Proofs about the native side of React: the frame thread, for any Tasks, *)
(* functions, handlers, filters, messages and size of the queue, and what  *)
(* the two web view components promise, for any views, addresses and       *)
(* requests.                                                               *)
(***************************************************************************)
EXTENDS RenderFrame, WebViewAndroid, WebViewIOS, FiniteSetTheorems, FunctionTheorems, SequenceTheorems, TLAPS

Walks ==
  [task : Tasks, broadcast : BOOLEAN, route : Seq(Lists), pos : Nat \ {0},
   dangling : BOOLEAN, due : SUBSET Handlers]

Finishes == [task : Tasks, route : Seq(Lists), pos : Nat \ {0}, dangling : BOOLEAN]

FrameTypeOK ==
  /\ contract \in BOOLEAN
  /\ main \in {"boot", "started", "running", "closing", "joining", "ended"}
  /\ frame \in Frames
  /\ stack \in Seq(Walks)
  /\ queue \in Seq(Tasks)
  /\ msg \in [Tasks -> Messages \cup {Null}]
  /\ home \in [Tasks -> {"main", "frame", "worker"}]
  /\ dropped \subseteq Tasks /\ returned \subseteq Tasks
  /\ finishing \subseteq Finishes
  /\ func \in [Funcs -> {"none", "queued", "run"}]
  /\ subs \in [Lists -> Seq(Handlers)]
  /\ freed \subseteq Handlers
  /\ broken \in BOOLEAN

(* The calls of EventDispatcher::Handle: DoRun's and, inside it, one for   *)
(* each handler that broadcasts; the frame thread is in a call exactly     *)
(* between DoRun's call and its return.                                    *)
Nest ==
  /\ stack # <<>> <=> frame \in {"walk", "in", "out", "sync"}
  /\ \A i \in 1..Len(stack) : stack[i].broadcast <=> i # 1
  /\ frame = "none" <=> main = "boot"
  /\ frame \in {"exit", "ended"} => main \in {"joining", "ended"}

(* A handler is in a list once, and only in the lists of its filter;       *)
(* ReactService has not subscribed before its OnInit.                      *)
Subscribed ==
  \A l \in Lists :
    /\ IsInjective(subs[l])
    /\ \A h \in Range(subs[l]) : l \in Filter[h]
    /\ main \in {"boot", "started"} => React \notin Range(subs[l])

(* A Task that was sent is in one place.                                   *)
Walked == {stack[i].task : i \in 1..Len(stack)}

Placed ==
  /\ Live = Range(queue) \cup Walked \cup returned \cup dropped
  /\ IsInjective(queue)
  /\ \A i, j \in 1..Len(stack) : stack[i].task = stack[j].task => i = j
  /\ Range(queue) \cap Walked = {}
  /\ (Range(queue) \cup Walked) \cap (returned \cup dropped) = {}
  /\ returned \cap dropped = {}
  /\ IsFiniteSet(returned) /\ IsFiniteSet(dropped)

(* A Task is finished once, by one thread, before it is released there.    *)
Finished ==
  /\ \A w \in finishing : w.task \in returned
  /\ \A v, w \in finishing : v.task = w.task => v = w

(* A handler that call w, which goes on at position p, still comes to.     *)
Ahead(s, w, p, h) ==
  \E k \in 1..Len(w.route) : \E j \in 1..Len(s[w.route[k]]) :
    (k = 1 => j >= p) /\ s[w.route[k]][j] = h

(* It owes a call to those and to no others, and is within its list.       *)
Owes(s, w, p) ==
  /\ \A h \in Handlers : h \in w.due <=> Ahead(s, w, p, h)
  /\ w.route # <<>> => p <= Len(s[Head(w.route)]) + 1

(* It walks lists of its own, of which the first only may be a class.      *)
Routed(w) == IsInjective(w.route) /\ \A k \in 2..Len(w.route) : w.route[k] \in Categories

(* A call between two handlers, and one inside a handler.                  *)
Between(s, w) == Routed(w) /\ ~w.dangling /\ Owes(s, w, w.pos)
Inside(s, w) == Routed(w) /\ w.route # <<>> /\ (~w.dangling => Owes(s, w, w.pos + 1))

Delivery ==
  \A i \in 1..Len(stack) :
    IF frame = "walk" /\ i = Len(stack) THEN Between(subs, stack[i]) ELSE Inside(subs, stack[i])

(* What the users' contract keeps up.                                      *)
Kept ==
  /\ ~broken
  /\ main \in {"boot", "started", "running"} => freed = {}
  /\ main # "running" => Live = {}
  /\ \A t \in Live : msg[t].class # Null
  /\ \A i \in 1..Len(stack) : ~stack[i].dangling
  /\ \A w \in finishing : ~w.dangling

FrameInv ==
  /\ FrameTypeOK /\ Nest /\ Subscribed
  /\ ~broken => Placed /\ Finished /\ Delivery
  /\ contract => Kept

-----------------------------------------------------------------------------
(* Sequences.                                                              *)

(* An injective sequence has as many elements as positions.                *)
LEMMA InjectiveLen ==
  ASSUME NEW S, NEW s \in Seq(S), IsInjective(s)
  PROVE  /\ IsFiniteSet(Range(s))
         /\ Cardinality(Range(s)) = Len(s)
<1>1. Len(s) \in Nat /\ s \in [1..Len(s) -> S] /\ DOMAIN s = 1..Len(s)
  BY LenProperties
<1>2. s \in Injection(1..Len(s), S)
  BY <1>1 DEF Injection, IsInjective
<1>3. s \in Bijection(1..Len(s), Range(s))
  BY <1>2, Fun_InjMeansBijImage
<1>4. ExistsBijection(1..Len(s), Range(s))
  BY <1>3 DEF ExistsBijection
<1>5. IsFiniteSet(1..Len(s)) /\ Cardinality(1..Len(s)) = Len(s)
  BY <1>1, FS_Interval
<1>. QED
  BY <1>1, <1>4, <1>5, FS_Bijection, FS_CountingElements

(* A new element at the end.                                               *)
LEMMA AppendNew ==
  ASSUME NEW S, NEW s \in Seq(S), NEW x \in S
  PROVE  /\ Append(s, x) \in Seq(S) /\ Len(Append(s, x)) = Len(s) + 1
         /\ \A i \in 1..Len(s) : Append(s, x)[i] = s[i]
         /\ Append(s, x)[Len(s) + 1] = x
         /\ Range(Append(s, x)) = Range(s) \cup {x}
         /\ IsInjective(s) /\ x \notin Range(s) => IsInjective(Append(s, x))
<1>. DEFINE t == Append(s, x)
<1>1. /\ Len(s) \in Nat /\ DOMAIN s = 1..Len(s)
      /\ t \in Seq(S) /\ Len(t) = Len(s) + 1 /\ DOMAIN t = 1..(Len(s) + 1)
      /\ \A i \in 1..Len(s) : t[i] = s[i]
      /\ t[Len(s) + 1] = x
  OBVIOUS
<1>. HIDE DEF t
<1>2. Range(t) = Range(s) \cup {x}
  BY <1>1 DEF Range
<1>3. IsInjective(s) /\ x \notin Range(s) => IsInjective(t)
  BY <1>1 DEF Range, IsInjective
<1>. QED
  BY <1>1, <1>2, <1>3 DEF t

(* The head taken off.                                                     *)
LEMMA TailOnce ==
  ASSUME NEW S, NEW s \in Seq(S), s # <<>>
  PROVE  /\ Head(s) \in Range(s) /\ Head(s) \in S
         /\ Tail(s) \in Seq(S)
         /\ IsInjective(s) => IsInjective(Tail(s)) /\ Range(Tail(s)) = Range(s) \ {Head(s)}
<1>. DEFINE t == Tail(s)
<1>1. /\ Len(s) \in Nat \ {0} /\ DOMAIN s = 1..Len(s) /\ Head(s) = s[1] /\ s[1] \in S
      /\ t \in Seq(S) /\ Len(t) = Len(s) - 1 /\ DOMAIN t = 1..(Len(s) - 1)
      /\ \A i \in 1..(Len(s) - 1) : t[i] = s[i + 1]
  OBVIOUS
<1>. HIDE DEF t
<1>2. Head(s) \in Range(s)
  BY <1>1 DEF Range
<1>3. ASSUME IsInjective(s) PROVE IsInjective(t)
  <2>. SUFFICES ASSUME NEW i \in 1..(Len(s) - 1), NEW j \in 1..(Len(s) - 1), t[i] = t[j]
                PROVE  i = j
    BY <1>1 DEF IsInjective
  <2>1. \A a, b \in 1..Len(s) : s[a] = s[b] => a = b
    BY <1>1, <1>3 DEF IsInjective
  <2>2. i + 1 \in 1..Len(s) /\ j + 1 \in 1..Len(s) /\ s[i + 1] = s[j + 1]
    BY <1>1
  <2>. QED
    BY <2>1, <2>2
<1>4. ASSUME IsInjective(s) PROVE Range(t) = Range(s) \ {Head(s)}
  <2>1. \A i \in 1..Len(s) : i # 1 => i - 1 \in 1..(Len(s) - 1) /\ t[i - 1] = s[i] /\ s[i] # s[1]
    BY <1>1, <1>4 DEF IsInjective
  <2>2. \A j \in 1..(Len(s) - 1) : j + 1 \in 1..Len(s) /\ t[j] = s[j + 1] /\ s[j + 1] # s[1]
    BY <1>1, <1>4 DEF IsInjective
  <2>3. Range(t) = {t[j] : j \in 1..(Len(s) - 1)} /\ Range(s) = {s[i] : i \in 1..Len(s)}
    BY <1>1 DEF Range
  <2>4. \A x \in Range(t) : x \in Range(s) /\ x # s[1]
    BY <2>2, <2>3
  <2>5. \A x \in Range(s) : x # s[1] => x \in Range(t)
    BY <2>1, <2>3
  <2>. QED
    BY <1>1, <2>4, <2>5
<1>. QED
  BY <1>1, <1>2, <1>3, <1>4 DEF t

(* What follows a position of a sequence.                                  *)
LEMMA AfterPosition ==
  ASSUME NEW S, NEW s \in Seq(S), NEW k \in 1..Len(s)
  PROVE  /\ SubSeq(s, k + 1, Len(s)) \in Seq(S)
         /\ Len(SubSeq(s, k + 1, Len(s))) = Len(s) - k
         /\ \A j \in 1..(Len(s) - k) : SubSeq(s, k + 1, Len(s))[j] = s[j + k]
<1>. DEFINE m == k + 1
            n == Len(s)
            v == SubSeq(s, m, n)
<1>1. m \in Int /\ n \in Nat /\ k \in 1..n /\ m = k + 1 /\ \A i \in m..n : s[i] \in S
  OBVIOUS
<1>2. v = SubSeq(s, k + 1, Len(s)) /\ n = Len(s)
  OBVIOUS
<1>. HIDE DEF m, n
<1>3. /\ v \in Seq(S) /\ Len(v) = IF m <= n THEN n - m + 1 ELSE 0
      /\ \A j \in 1..(n - m + 1) : v[j] = s[m + j - 1]
  BY <1>1, SubSeqProperties
<1>. HIDE DEF v
<1>4. Len(v) = n - k
  BY <1>1, <1>3
<1>5. ASSUME NEW j \in 1..(n - k) PROVE v[j] = s[j + k]
  <2>1. j \in 1..(n - m + 1) /\ m + j - 1 = j + k
    BY <1>1
  <2>. QED
    BY <1>3, <2>1
<1>. QED
  BY <1>2, <1>3, <1>4, <1>5

(* A list after an element that is in it once is erased.                   *)
LEMMA WithoutOnce ==
  ASSUME NEW S, NEW s \in Seq(S), NEW k \in 1..Len(s), IsInjective(s)
  PROVE  /\ Without(s, s[k]) \in Seq(S) /\ Len(Without(s, s[k])) = Len(s) - 1
         /\ \A j \in 1..(Len(s) - 1) : Without(s, s[k])[j] = IF j < k THEN s[j] ELSE s[j + 1]
         /\ Range(Without(s, s[k])) = Range(s) \ {s[k]}
         /\ IsInjective(Without(s, s[k]))
<1>. DEFINE t == SubSeq(s, 1, k - 1) \o SubSeq(s, k + 1, Len(s))
<1>1. Len(s) \in Nat /\ k \in Nat /\ 1 <= k /\ k <= Len(s) /\ DOMAIN s = 1..Len(s)
  OBVIOUS
<1>2. (CHOOSE i \in 1..Len(s) : s[i] = s[k]) = k
  BY <1>1 DEF IsInjective
<1>3. s[k] \in Range(s)
  BY <1>1 DEF Range
<1>4. Without(s, s[k]) = t
  BY <1>2, <1>3 DEF Without, RemoveAt
<1>5. /\ t \in Seq(S) /\ Len(t) = Len(s) - 1 /\ DOMAIN t = 1..(Len(s) - 1)
      /\ \A j \in 1..(Len(s) - 1) : t[j] = IF j < k THEN s[j] ELSE s[j + 1]
  <2>. DEFINE u == SubSeq(s, 1, k - 1)
              v == SubSeq(s, k + 1, Len(s))
  <2>1. /\ u \in Seq(S) /\ Len(u) = k - 1 /\ \A j \in 1..(k - 1) : u[j] = s[j]
    BY <1>1
  <2>2. /\ v \in Seq(S) /\ Len(v) = Len(s) - k
        /\ \A j \in 1..(Len(s) - k) : v[j] = s[j + k]
    BY AfterPosition
  <2>. HIDE DEF u, v
  <2>3. /\ u \o v \in Seq(S) /\ Len(u \o v) = Len(s) - 1 /\ DOMAIN (u \o v) = 1..(Len(s) - 1)
        /\ \A j \in 1..(Len(s) - 1) : (u \o v)[j] = IF j <= k - 1 THEN u[j] ELSE v[j - (k - 1)]
    <3>1. /\ u \o v \in Seq(S) /\ Len(u \o v) = Len(u) + Len(v)
          /\ \A j \in 1..(Len(u) + Len(v)) :
               (u \o v)[j] = IF j <= Len(u) THEN u[j] ELSE v[j - Len(u)]
      BY <2>1, <2>2, ConcatProperties
    <3>2. Len(u) + Len(v) = Len(s) - 1
      BY <1>1, <2>1, <2>2
    <3>. QED
      BY <2>1, <3>1, <3>2, LenProperties
  <2>4. \A j \in 1..(Len(s) - 1) : (u \o v)[j] = IF j < k THEN s[j] ELSE s[j + 1]
    <3>. TAKE j \in 1..(Len(s) - 1)
    <3>1. CASE j < k
      <4>1. j \in 1..(k - 1) /\ j <= k - 1
        BY <1>1, <3>1
      <4>. QED
        BY <2>1, <2>3, <3>1, <4>1
    <3>2. CASE ~(j < k)
      <4>1. j - (k - 1) \in 1..(Len(s) - k) /\ (j - (k - 1)) + k = j + 1 /\ ~(j <= k - 1)
        BY <1>1, <3>2
      <4>. QED
        BY <2>2, <2>3, <3>2, <4>1
    <3>. QED
      BY <3>1, <3>2
  <2>. QED
    BY <2>3, <2>4 DEF u, v
<1>. HIDE DEF t
<1>6. IsInjective(t)
  <2>. SUFFICES ASSUME NEW i \in 1..(Len(s) - 1), NEW j \in 1..(Len(s) - 1), t[i] = t[j]
                PROVE  i = j
    BY <1>5 DEF IsInjective
  <2>1. \A a, b \in 1..Len(s) : s[a] = s[b] => a = b
    BY <1>1 DEF IsInjective
  <2>. DEFINE from(m) == IF m < k THEN m ELSE m + 1
  <2>2. ASSUME NEW m \in 1..(Len(s) - 1) PROVE from(m) \in 1..Len(s) /\ t[m] = s[from(m)]
    BY <1>1, <1>5, <2>2
  <2>3. from(i) = from(j)
    <3>. HIDE DEF from
    <3>. QED
      BY <2>1, <2>2
  <2>4. i \in Int /\ j \in Int
    OBVIOUS
  <2>. QED
    BY <1>1, <2>3, <2>4
<1>7. \A j \in 1..(Len(s) - 1) : t[j] \in Range(s) \ {s[k]}
  <2>. TAKE j \in 1..(Len(s) - 1)
  <2>1. \A a, b \in 1..Len(s) : s[a] = s[b] => a = b
    BY <1>1 DEF IsInjective
  <2>2. CASE j < k
    <3>1. j \in 1..Len(s) /\ j # k /\ t[j] = s[j]
      BY <1>1, <1>5, <2>2
    <3>. QED
      BY <1>1, <2>1, <3>1 DEF Range
  <2>3. CASE ~(j < k)
    <3>1. j + 1 \in 1..Len(s) /\ j + 1 # k /\ t[j] = s[j + 1]
      BY <1>1, <1>5, <2>3
    <3>. QED
      BY <1>1, <2>1, <3>1 DEF Range
  <2>. QED
    BY <2>2, <2>3
<1>8. \A i \in 1..Len(s) : i # k => \E j \in 1..(Len(s) - 1) : t[j] = s[i]
  <2>. SUFFICES ASSUME NEW i \in 1..Len(s), i # k PROVE \E j \in 1..(Len(s) - 1) : t[j] = s[i]
    OBVIOUS
  <2>1. CASE i < k
    BY <1>1, <1>5, <2>1
  <2>2. CASE i > k
    <3>1. i - 1 \in 1..(Len(s) - 1) /\ ~(i - 1 < k) /\ (i - 1) + 1 = i
      BY <1>1, <2>2
    <3>. QED
      BY <1>5, <3>1
  <2>. QED
    BY <1>1, <2>1, <2>2
<1>9. Range(t) = Range(s) \ {s[k]}
  <2>1. Range(t) = {t[j] : j \in 1..(Len(s) - 1)} /\ Range(s) = {s[i] : i \in 1..Len(s)}
    BY <1>1, <1>5 DEF Range
  <2>2. \A x \in Range(t) : x \in Range(s) \ {s[k]}
    BY <1>7, <2>1
  <2>3. \A x \in Range(s) \ {s[k]} : x \in Range(t)
    BY <1>8, <2>1
  <2>. QED
    BY <2>2, <2>3
<1>. QED
  BY <1>4, <1>5, <1>6, <1>9

-----------------------------------------------------------------------------
(* Types.                                                                  *)

(* A call of Handle begins at the class of the message.                    *)
LEMMA WalkFacts ==
  ASSUME FrameTypeOK, NEW t \in Tasks, NEW m \in Messages, NEW b \in BOOLEAN
  PROVE  /\ Walk(t, m, b) \in Walks
         /\ Walk(t, m, b).task = t /\ Walk(t, m, b).broadcast = b
         /\ Walk(t, m, b).pos = 1 /\ Walk(t, m, b).dangling = FALSE
         /\ Walk(t, m, b).route =
              IF m.category # "ALL" THEN <<m.class, m.category>>
              ELSE <<m.class, "SYSTEM", "USER", "ALL">>
         /\ \A h \in Handlers :
              h \in Walk(t, m, b).due <=>
                \E i \in 1..Len(Walk(t, m, b).route) : h \in Range(subs[Walk(t, m, b).route[i]])
<1>. DEFINE route == IF m.category # "ALL" THEN <<m.class, m.category>>
                     ELSE <<m.class, "SYSTEM", "USER", "ALL">>
            due == {h \in Handlers : \E i \in 1..Len(route) : h \in Range(subs[route[i]])}
<1>1. route = IF m.category # "ALL" THEN <<m.class, m.category>>
              ELSE <<m.class, "SYSTEM", "USER", "ALL">>
  OBVIOUS
<1>2. m.class \in Lists /\ m.category \in Lists /\ Categories \subseteq Lists
  <2>1. m.class \in {x.class : x \in Messages}
    OBVIOUS
  <2>2. m.category \in Categories
    BY RenderFrameAssumption
  <2>3. Categories \subseteq Lists
    BY DEF Lists
  <2>4. m.class \in Lists
    BY <2>1 DEF Lists
  <2>. QED
    BY <2>2, <2>3, <2>4
<1>3. route \in Seq(Lists)
  <2>1. CASE m.category # "ALL"
    BY <1>1, <1>2, <2>1
  <2>2. CASE m.category = "ALL"
    <3>1. "SYSTEM" \in Lists /\ "USER" \in Lists /\ "ALL" \in Lists
      BY <1>2 DEF Categories
    <3>. QED
      BY <1>1, <1>2, <2>2, <3>1
  <2>. QED
    BY <2>1, <2>2
<1>4. due \subseteq Handlers
  OBVIOUS
<1>5. Walk(t, m, b) = [task |-> t, broadcast |-> b, route |-> route, pos |-> 1,
                       dangling |-> FALSE, due |-> due]
  BY Zenon DEF Walk, Route
<1>6. Walk(t, m, b).route = route /\ Walk(t, m, b).due = due
  BY <1>5
<1>. HIDE DEF route, due
<1>7. Walk(t, m, b) \in Walks
  BY <1>3, <1>4, <1>5 DEF Walks
<1>8. /\ Walk(t, m, b).task = t /\ Walk(t, m, b).broadcast = b
      /\ Walk(t, m, b).pos = 1 /\ Walk(t, m, b).dangling = FALSE
  BY <1>5
<1>9. \A h \in Handlers :
        h \in due <=> \E i \in 1..Len(Walk(t, m, b).route) : h \in Range(subs[Walk(t, m, b).route[i]])
  BY <1>6 DEF due
<1>. QED
  BY <1>1, <1>6, <1>7, <1>8, <1>9

(* The innermost call.                                                     *)
LEMMA TopFacts ==
  ASSUME FrameTypeOK, stack # <<>>
  PROVE  /\ Len(stack) \in Nat \ {0} /\ Len(stack) \in 1..Len(stack)
         /\ Top = stack[Len(stack)] /\ Top \in Walks
         /\ Pop \in Seq(Walks) /\ Len(Pop) = Len(stack) - 1
         /\ \A i \in 1..(Len(stack) - 1) : Pop[i] = stack[i]
<1>. DEFINE n == Len(stack)
<1>1. stack \in Seq(Walks) /\ n \in Nat \ {0} /\ n \in 1..n /\ stack[n] \in Walks
  BY DEF FrameTypeOK
<1>2. /\ 1 \in Int /\ n - 1 \in Int /\ \A i \in 1..(n - 1) : stack[i] \in Walks
  BY <1>1
<1>3. /\ SubSeq(stack, 1, n - 1) \in Seq(Walks)
      /\ Len(SubSeq(stack, 1, n - 1)) = IF 1 <= n - 1 THEN (n - 1) - 1 + 1 ELSE 0
      /\ \A i \in 1..((n - 1) - 1 + 1) : SubSeq(stack, 1, n - 1)[i] = stack[1 + i - 1]
  BY <1>2, SubSeqProperties
<1>4. Pop = SubSeq(stack, 1, n - 1) /\ Top = stack[n]
  BY DEF Pop, Top
<1>. HIDE DEF n
<1>5. Pop \in Seq(Walks) /\ Len(Pop) = IF 1 <= n - 1 THEN (n - 1) - 1 + 1 ELSE 0
  BY <1>3, <1>4
<1>6. (IF 1 <= n - 1 THEN (n - 1) - 1 + 1 ELSE 0) = n - 1
  BY <1>1
<1>7. ASSUME NEW i \in 1..(n - 1) PROVE Pop[i] = stack[i]
  <2>1. i \in 1..((n - 1) - 1 + 1) /\ 1 + i - 1 = i
    BY <1>1
  <2>. QED
    BY <1>3, <1>4, <2>1
<1>. QED
  BY <1>1, <1>4, <1>5, <1>6, <1>7 DEF n

(* A call that goes on to its next list.                                   *)
LEMMA WalkOn ==
  ASSUME NEW w \in Walks, Tail(w.route) \in Seq(Lists)
  PROVE  LET v == [w EXCEPT !.route = Tail(@), !.pos = 1] IN
           /\ v \in Walks /\ v.task = w.task /\ v.broadcast = w.broadcast
           /\ v.route = Tail(w.route) /\ v.pos = 1 /\ v.dangling = w.dangling /\ v.due = w.due
<1>. DEFINE u == [w EXCEPT !.route = Tail(@)]
            v == [w EXCEPT !.route = Tail(@), !.pos = 1]
<1>1. /\ u \in Walks /\ u.task = w.task /\ u.broadcast = w.broadcast
      /\ u.route = Tail(w.route) /\ u.dangling = w.dangling /\ u.due = w.due
  BY DEF Walks
<1>2. v = [u EXCEPT !.pos = 1]
  BY DEF Walks
<1>. HIDE DEF u, v
<1>3. v \in Walks
  <2>1. \A x \in Walks, p \in Nat \ {0} : [x EXCEPT !.pos = p] \in Walks
    BY DEF Walks
  <2>2. 1 \in Nat \ {0} /\ u \in Walks
    BY <1>1
  <2>3. [u EXCEPT !.pos = 1] \in Walks
    BY <2>1, <2>2, Zenon
  <2>. QED
    BY <1>2, <2>3
<1>4. /\ v.task = u.task /\ v.broadcast = u.broadcast /\ v.route = u.route /\ v.pos = 1
      /\ v.dangling = u.dangling /\ v.due = u.due
  BY <1>1, <1>2 DEF Walks
<1>. QED
  BY <1>1, <1>3, <1>4 DEF v

(* What a walk is after a handler was erased: its iterator may have moved. *)
LEMMA MovedFacts ==
  ASSUME NEW w, w \in Walks \/ w \in Finishes, NEW h \in Handlers
  PROVE  /\ w \in Walks => Moved(w, h) \in Walks
         /\ w \in Finishes => Moved(w, h) \in Finishes
         /\ Moved(w, h).task = w.task /\ Moved(w, h).route = w.route
         /\ w \in Walks => Moved(w, h).broadcast = w.broadcast /\ Moved(w, h).due = w.due
         /\ w.route = <<>> \/ Head(w.route) \notin Filter[h] \/ h \notin Range(subs[Head(w.route)]) =>
              Moved(w, h) = w
         /\ ~(w.route = <<>> \/ Head(w.route) \notin Filter[h] \/ h \notin Range(subs[Head(w.route)])) =>
              /\ Moved(w, h).dangling = (w.dangling \/ StandsOn(w, h))
              /\ Moved(w, h).pos = IF \E i \in 1..(w.pos - 1) : subs[Head(w.route)][i] = h
                                   THEN w.pos - 1 ELSE w.pos
<1>1. CASE w.route = <<>> \/ Head(w.route) \notin Filter[h] \/ h \notin Range(subs[Head(w.route)])
  BY <1>1 DEF Moved
<1>2. CASE ~(w.route = <<>> \/ Head(w.route) \notin Filter[h] \/ h \notin Range(subs[Head(w.route)]))
  <2>. DEFINE earlier == \E i \in 1..(w.pos - 1) : subs[Head(w.route)][i] = h
              d == w.dangling \/ StandsOn(w, h)
              q == IF earlier THEN w.pos - 1 ELSE w.pos
              u == [w EXCEPT !.dangling = d]
  <2>1. Moved(w, h) = [u EXCEPT !.pos = q]
    BY <1>2 DEF Moved, Walks, Finishes
  <2>2. d \in BOOLEAN
    BY DEF Walks, Finishes
  <2>3. q \in Nat \ {0}
    BY DEF Walks, Finishes
  <2>4. d = (w.dangling \/ StandsOn(w, h)) /\ q = IF earlier THEN w.pos - 1 ELSE w.pos
    OBVIOUS
  <2>. HIDE DEF d, q
  <2>5. /\ w \in Walks => u \in Walks /\ u.broadcast = w.broadcast /\ u.due = w.due
        /\ w \in Finishes => u \in Finishes
        /\ u.task = w.task /\ u.route = w.route /\ u.dangling = d
    BY <2>2 DEF Walks, Finishes
  <2>. HIDE DEF u
  <2>6. ASSUME w \in Walks
        PROVE  /\ Moved(w, h) \in Walks /\ Moved(w, h).task = w.task /\ Moved(w, h).route = w.route
               /\ Moved(w, h).broadcast = w.broadcast /\ Moved(w, h).due = w.due
               /\ Moved(w, h).dangling = d /\ Moved(w, h).pos = q
    BY <2>1, <2>3, <2>5, <2>6 DEF Walks
  <2>7. ASSUME w \in Finishes
        PROVE  /\ Moved(w, h) \in Finishes /\ Moved(w, h).task = w.task /\ Moved(w, h).route = w.route
               /\ Moved(w, h).dangling = d /\ Moved(w, h).pos = q
    BY <2>1, <2>3, <2>5, <2>7 DEF Finishes
  <2>. QED
    BY <1>2, <2>4, <2>6, <2>7
<1>. QED
  BY <1>1, <1>2

(* What a call of Handle is after a handler was erased.                    *)
LEMMA ErasedFacts ==
  ASSUME NEW w \in Walks, NEW h \in Handlers
  PROVE  /\ Erased(w, h) \in Walks
         /\ Erased(w, h).task = w.task /\ Erased(w, h).broadcast = w.broadcast
         /\ Erased(w, h).route = w.route /\ Erased(w, h).due = w.due \ {h}
         /\ Erased(w, h).pos = Moved(w, h).pos /\ Erased(w, h).dangling = Moved(w, h).dangling
<1>1. PICK v \in Walks : v = Moved(w, h)
  BY MovedFacts
<1>2. Erased(w, h) = [v EXCEPT !.due = @ \ {h}]
  BY <1>1 DEF Erased
<1>3. /\ [v EXCEPT !.due = @ \ {h}] \in Walks
      /\ [v EXCEPT !.due = @ \ {h}].task = v.task
      /\ [v EXCEPT !.due = @ \ {h}].broadcast = v.broadcast
      /\ [v EXCEPT !.due = @ \ {h}].route = v.route
      /\ [v EXCEPT !.due = @ \ {h}].due = v.due \ {h}
      /\ [v EXCEPT !.due = @ \ {h}].pos = v.pos
      /\ [v EXCEPT !.due = @ \ {h}].dangling = v.dangling
  BY DEF Walks
<1>. QED
  BY <1>1, <1>2, <1>3, MovedFacts

(* A call that does not stand on h does not dangle when h is erased.       *)
LEMMA ErasedElsewhere ==
  ASSUME NEW w \in Walks, NEW h \in Handlers, ~w.dangling, ~StandsOn(w, h)
  PROVE  ~Erased(w, h).dangling
<1>1. Moved(w, h) = w \/ Moved(w, h).dangling = (w.dangling \/ StandsOn(w, h))
  BY MovedFacts
<1>2. ~Moved(w, h).dangling
  BY <1>1
<1>. QED
  BY <1>2, ErasedFacts

(* What SendTaskAsync changes keeps its types.                             *)
LEMMA SendTypes ==
  ASSUME FrameTypeOK, NEW t \in Tasks, NEW m \in Messages, NEW who \in {"main", "frame", "worker"},
         SendTaskAsync(t, m, who)
  PROVE  /\ queue' \in Seq(Tasks) /\ msg' \in [Tasks -> Messages \cup {Null}]
         /\ home' \in [Tasks -> {"main", "frame", "worker"}]
         /\ dropped' \subseteq Tasks /\ returned' \subseteq Tasks /\ broken' \in BOOLEAN
         /\ finishing' = finishing
<1>1. queue' = Append(queue, t) \/ queue' = queue
  BY DEF SendTaskAsync
<1>2. queue' \in Seq(Tasks)
  <2>1. queue \in Seq(Tasks)
    BY DEF FrameTypeOK
  <2>. QED
    BY <1>1, <2>1, AppendNew
<1>3. dropped' \subseteq Tasks /\ returned' = returned /\ finishing' = finishing
  BY DEF FrameTypeOK, SendTaskAsync
<1>4. /\ msg' \in [Tasks -> Messages \cup {Null}] /\ home' \in [Tasks -> {"main", "frame", "worker"}]
      /\ broken' \in BOOLEAN
  BY DEF FrameTypeOK, SendTaskAsync
<1>. QED
  BY <1>2, <1>3, <1>4 DEF FrameTypeOK

(* What the two operations on subscriptions do to lists and calls.         *)
LEMMA SubscribeTypes ==
  ASSUME FrameTypeOK, NEW h \in Handlers, Subscribe(h)
  PROVE  /\ subs' \in [Lists -> Seq(Handlers)] /\ stack' \in Seq(Walks)
         /\ Len(stack') = Len(stack)
         /\ \A i \in 1..Len(stack) :
              stack'[i] = IF Filter[h] \cap Range(stack[i].route) = {} THEN stack[i]
                          ELSE [stack[i] EXCEPT !.due = @ \cup {h}]
<1>1. /\ stack \in Seq(Walks) /\ Len(stack) \in Nat /\ subs \in [Lists -> Seq(Handlers)]
      /\ \A i \in 1..Len(stack) : stack[i] \in Walks
  BY DEF FrameTypeOK
<1>2. subs' \in [Lists -> Seq(Handlers)]
  <2>1. \A l \in Lists : Append(subs[l], h) \in Seq(Handlers) /\ subs[l] \in Seq(Handlers)
    BY <1>1
  <2>. QED
    BY <2>1 DEF Subscribe
<1>3. \A i \in 1..Len(stack) : [stack[i] EXCEPT !.due = @ \cup {h}] \in Walks
  BY <1>1 DEF Walks
<1>4. stack' \in [1..Len(stack) -> Walks]
  BY <1>1, <1>3 DEF Subscribe
<1>5. stack' \in Seq(Walks) /\ DOMAIN stack' = 1..Len(stack)
  BY <1>1, <1>4, SeqDef
<1>6. Len(stack') = Len(stack)
  BY <1>1, <1>5, LenProperties
<1>. QED
  BY <1>2, <1>5, <1>6 DEF Subscribe

LEMMA DeSubscribeTypes ==
  ASSUME FrameTypeOK, Subscribed, NEW h \in Handlers, DeSubscribe(h)
  PROVE  /\ subs' \in [Lists -> Seq(Handlers)] /\ stack' \in Seq(Walks)
         /\ Len(stack') = Len(stack)
         /\ \A i \in 1..Len(stack) : stack'[i] = Erased(stack[i], h)
         /\ finishing' \subseteq Finishes
         /\ broken' \in BOOLEAN
<1>1. /\ stack \in Seq(Walks) /\ Len(stack) \in Nat /\ subs \in [Lists -> Seq(Handlers)]
      /\ \A i \in 1..Len(stack) : stack[i] \in Walks
  BY DEF FrameTypeOK
<1>2. subs' \in [Lists -> Seq(Handlers)]
  <2>1. ASSUME NEW l \in Lists PROVE Without(subs[l], h) \in Seq(Handlers)
    <3>1. subs[l] \in Seq(Handlers) /\ IsInjective(subs[l])
      BY <1>1 DEF Subscribed
    <3>2. CASE h \in Range(subs[l])
      <4>1. PICK k \in 1..Len(subs[l]) : h = subs[l][k]
        BY <3>1, <3>2 DEF Range
      <4>. QED
        BY <3>1, <4>1, WithoutOnce
    <3>3. CASE h \notin Range(subs[l])
      BY <3>1, <3>3 DEF Without
    <3>. QED
      BY <3>2, <3>3
  <2>. QED
    BY <1>1, <2>1 DEF DeSubscribe
<1>3. stack' \in [1..Len(stack) -> Walks]
  BY <1>1, ErasedFacts DEF DeSubscribe
<1>4. stack' \in Seq(Walks) /\ DOMAIN stack' = 1..Len(stack)
  BY <1>1, <1>3, SeqDef
<1>5. Len(stack') = Len(stack)
  BY <1>1, <1>4, LenProperties
<1>6. broken' \in BOOLEAN
  BY DEF DeSubscribe
<1>7. finishing' \subseteq Finishes
  BY MovedFacts DEF DeSubscribe, FrameTypeOK
<1>. QED
  BY <1>2, <1>4, <1>5, <1>6, <1>7 DEF DeSubscribe

(* A walk of the one call there is.                                        *)
LEMMA OneWalk ==
  ASSUME NEW w \in Walks
  PROVE  <<w>> \in Seq(Walks) /\ Len(<<w>>) = 1 /\ <<w>>[1] = w
OBVIOUS

(* The messages of the Tasks in the queue are there.                       *)
LEMMA QueuedFacts ==
  ASSUME FrameTypeOK, Placed, queue # <<>>
  PROVE  /\ Head(queue) \in Tasks /\ Tail(queue) \in Seq(Tasks)
         /\ Head(queue) \in Range(queue) /\ msg[Head(queue)] \in Messages
<1>1. Head(queue) \in Tasks /\ Tail(queue) \in Seq(Tasks) /\ Head(queue) \in Range(queue)
  BY TailOnce DEF FrameTypeOK
<1>2. Head(queue) \in Live
  BY <1>1 DEF Placed
<1>. QED
  BY <1>1, <1>2 DEF Live, FrameTypeOK

(* The innermost call changes, the outer one stays.                        *)
LEMMA TopChanged ==
  ASSUME FrameTypeOK, stack # <<>>, NEW w \in Walks, stack' = [stack EXCEPT ![Len(stack)] = w]
  PROVE  /\ stack' \in Seq(Walks) /\ Len(stack') = Len(stack) /\ stack'[Len(stack)] = w
         /\ \A i \in 1..(Len(stack) - 1) : stack'[i] = stack[i]
<1>1. stack \in Seq(Walks) /\ Len(stack) \in 1..Len(stack) /\ Len(stack) \in Nat \ {0}
  BY TopFacts DEF FrameTypeOK
<1>. QED
  BY <1>1, ExceptSeq

LEMMA CallTop ==
  ASSUME FrameTypeOK, Nest, CallHandler
  PROVE  /\ stack # <<>> /\ Top \in Walks /\ Top = stack[Len(stack)]
         /\ stack' \in Seq(Walks) /\ Len(stack') = Len(stack)
         /\ \A i \in 1..(Len(stack) - 1) : stack'[i] = stack[i]
         /\ stack'[Len(stack)] =
              [Top EXCEPT !.due = @ \ {subs[Head(Top.route)][Top.pos]}]
<1>1. stack # <<>> /\ Top \in Walks /\ Top = stack[Len(stack)]
  BY TopFacts DEF CallHandler, Nest
<1>. DEFINE h == subs[Head(Top.route)][Top.pos]
<1>2. stack' = [stack EXCEPT ![Len(stack)] = [Top EXCEPT !.due = @ \ {h}]]
  BY <1>1 DEF CallHandler, FrameTypeOK, Walks
<1>3. [Top EXCEPT !.due = @ \ {h}] \in Walks
  BY <1>1 DEF Walks
<1>. QED
  BY <1>1, <1>2, <1>3, TopChanged

LEMMA ReturnTop ==
  ASSUME FrameTypeOK, Nest, HandlerReturns
  PROVE  /\ stack # <<>> /\ Top \in Walks /\ Top = stack[Len(stack)]
         /\ stack' \in Seq(Walks) /\ Len(stack') = Len(stack)
         /\ \A i \in 1..(Len(stack) - 1) : stack'[i] = stack[i]
         /\ stack'[Len(stack)] = [Top EXCEPT !.pos = @ + 1]
<1>1. stack # <<>> /\ Top \in Walks /\ Top = stack[Len(stack)]
  BY TopFacts DEF HandlerReturns, Nest
<1>2. stack' = [stack EXCEPT ![Len(stack)] = [Top EXCEPT !.pos = @ + 1]]
  BY <1>1 DEF HandlerReturns, FrameTypeOK, Walks
<1>3. [Top EXCEPT !.pos = @ + 1] \in Walks
  BY <1>1 DEF Walks
<1>. QED
  BY <1>1, <1>2, <1>3, TopChanged

LEMMA ListTop ==
  ASSUME FrameTypeOK, Nest, NextList
  PROVE  /\ stack # <<>> /\ Top \in Walks /\ Top = stack[Len(stack)] /\ Top.route # <<>>
         /\ Tail(Top.route) \in Seq(Lists)
         /\ stack' \in Seq(Walks) /\ Len(stack') = Len(stack)
         /\ \A i \in 1..(Len(stack) - 1) : stack'[i] = stack[i]
         /\ stack'[Len(stack)] = [Top EXCEPT !.route = Tail(@), !.pos = 1]
<1>1. stack # <<>> /\ Top \in Walks /\ Top = stack[Len(stack)] /\ Top.route # <<>>
  BY TopFacts DEF NextList, Nest
<1>2. stack' = [stack EXCEPT ![Len(stack)] = [Top EXCEPT !.route = Tail(@), !.pos = 1]]
  BY <1>1 DEF NextList
<1>3. Top.route \in Seq(Lists)
  BY <1>1 DEF Walks
<1>4. Tail(Top.route) \in Seq(Lists)
  BY <1>1, <1>3, TailOnce
<1>5. [Top EXCEPT !.route = Tail(@), !.pos = 1] \in Walks
  BY <1>1, <1>4, WalkOn
<1>. QED
  BY <1>1, <1>2, <1>4, <1>5, TopChanged

(* A handler broadcasts: a call inside a call.                             *)
LEMMA BroadcastTop ==
  ASSUME FrameTypeOK, Nest, NEW t \in Tasks, NEW m \in Messages, BroadcastTask(t, m), m.class # Null
  PROVE  /\ Len(stack) \in Nat \ {0} /\ stack' \in Seq(Walks) /\ Len(stack') = Len(stack) + 1
         /\ \A i \in 1..Len(stack) : stack'[i] = stack[i]
         /\ stack'[Len(stack) + 1] = Walk(t, m, TRUE) /\ Walk(t, m, TRUE) \in Walks
<1>. DEFINE w == Walk(t, m, TRUE)
<1>1. stack' = Append(stack, w) /\ stack # <<>>
  BY DEF BroadcastTask, Nest
<1>2. w \in Walks
  BY WalkFacts
<1>3. stack \in Seq(Walks) /\ Len(stack) \in Nat \ {0}
  BY <1>1, TopFacts DEF FrameTypeOK
<1>. HIDE DEF w
<1>4. /\ Append(stack, w) \in Seq(Walks) /\ Len(Append(stack, w)) = Len(stack) + 1
      /\ \A i \in 1..Len(stack) : Append(stack, w)[i] = stack[i]
      /\ Append(stack, w)[Len(stack) + 1] = w
  BY <1>2, <1>3, AppendNew
<1>. QED
  BY <1>1, <1>2, <1>3, <1>4 DEF w

(* A call of OnFinish goes on.                                             *)
LEMMA FinishFacts ==
  ASSUME FrameTypeOK, NEW w \in finishing, FinishNext(w)
  PROVE  \E v \in Finishes :
           /\ v.task = w.task /\ v.dangling = w.dangling
           /\ finishing' = (finishing \ {w}) \cup {v}
<1>. DEFINE L == subs[Head(w.route)]
<1>1. w \in Finishes /\ w.route # <<>>
  BY DEF FrameTypeOK, FinishNext
<1>2. PICK r : r = Tail(w.route)
  OBVIOUS
<1>3. r \in Seq(Lists)
  <2>1. w.route \in Seq(Lists)
    BY <1>1 DEF Finishes
  <2>. QED
    BY <1>1, <1>2, <2>1, TailOnce
<1>4. CASE w.pos <= Len(L)
  <2>1. finishing' = (finishing \ {w}) \cup {[w EXCEPT !.pos = @ + 1]}
    BY <1>4 DEF FinishNext
  <2>2. /\ [w EXCEPT !.pos = @ + 1] \in Finishes /\ [w EXCEPT !.pos = @ + 1].task = w.task
        /\ [w EXCEPT !.pos = @ + 1].dangling = w.dangling
    BY <1>1 DEF Finishes
  <2>. QED
    BY <2>1, <2>2
<1>5. CASE ~(w.pos <= Len(L))
  <2>. DEFINE u == [w EXCEPT !.route = r]
              v == [w EXCEPT !.route = r, !.pos = 1]
  <2>1. finishing' = (finishing \ {w}) \cup {v}
    BY <1>1, <1>2, <1>5 DEF FinishNext, Finishes
  <2>3. v = [u EXCEPT !.pos = 1]
    BY <1>1 DEF Finishes
  <2>4. u \in Finishes /\ u.task = w.task /\ u.dangling = w.dangling
    BY <1>1, <1>3 DEF Finishes
  <2>5. \A x \in Finishes : /\ [x EXCEPT !.pos = 1] \in Finishes
                            /\ [x EXCEPT !.pos = 1].task = x.task
                            /\ [x EXCEPT !.pos = 1].dangling = x.dangling
    BY DEF Finishes
  <2>. HIDE DEF u, v
  <2>2. v \in Finishes /\ v.task = w.task /\ v.dangling = w.dangling
    BY <2>3, <2>4, <2>5
  <2>. QED
    BY <2>1, <2>2
<1>. QED
  BY <1>4, <1>5

(* A call of OnFinish begins at the class of the message.                  *)
LEMMA OnFinishFacts ==
  ASSUME FrameTypeOK, NEW t \in Tasks, OnFinish(t), t \in Live
  PROVE  \E v \in Finishes :
           /\ v.task = t /\ ~v.dangling
           /\ finishing' = finishing \cup {v}
<1>1. msg[t] \in Messages
  BY DEF Live, FrameTypeOK
<1>2. PICK r : r = Route(msg[t])
  OBVIOUS
<1>3. r \in Seq(Lists)
  <2>1. PICK w \in Walks : w = Walk(t, msg[t], FALSE)
    BY <1>1, WalkFacts
  <2>2. w.route = Route(msg[t])
    BY <1>1, <2>1, WalkFacts DEF Route
  <2>. QED
    BY <1>2, <2>1, <2>2 DEF Walks
<1>. DEFINE v == [task |-> t, route |-> r, pos |-> 1, dangling |-> FALSE]
<1>4. finishing' = finishing \cup {v}
  BY <1>2 DEF OnFinish
<1>5. v \in Finishes /\ v.task = t /\ ~v.dangling
  BY <1>3 DEF Finishes
<1>. QED
  BY <1>4, <1>5

(* Every step preserves the types.                                         *)
LEMMA NextFrameTypes == FrameInv /\ [Next]_vars => FrameTypeOK'
<1>. SUFFICES ASSUME FrameInv, [Next]_vars PROVE FrameTypeOK'
  OBVIOUS
<1>0. FrameTypeOK /\ Nest /\ Subscribed
  BY DEF FrameInv
<1>1. ASSUME NEW t \in Tasks, NEW m \in Messages, NEW who \in {"main", "worker"}, Post(t, m, who)
      PROVE FrameTypeOK'
  BY <1>0, <1>1, SendTypes DEF Post, subVars, FrameTypeOK
<1>2. ASSUME NEW f \in Funcs, AddFunc(f) PROVE FrameTypeOK'
  BY <1>0, <1>2 DEF AddFunc, taskVars, subVars, FrameTypeOK
<1>3. ASSUME NEW t \in Tasks, OnFinish(t), ~broken PROVE FrameTypeOK'
  <2>1. t \in Live
    BY <1>3 DEF OnFinish, FrameInv, Placed
  <2>2. finishing' \subseteq Finishes
    BY <1>0, <1>3, <2>1, OnFinishFacts DEF FrameTypeOK
  <2>. QED
    BY <1>0, <1>3, <2>2 DEF OnFinish, subVars, FrameTypeOK
<1>7. ASSUME NEW w \in finishing, FinishNext(w) PROVE FrameTypeOK'
  <2>1. finishing' \subseteq Finishes
    BY <1>0, <1>7, FinishFacts DEF FrameTypeOK
  <2>2. broken' \in BOOLEAN
    BY <1>0, <1>7 DEF FinishNext, FrameTypeOK, Finishes
  <2>. QED
    BY <1>0, <1>7, <2>1, <2>2 DEF FinishNext, subVars, FrameTypeOK
<1>19. ASSUME NEW w \in finishing, ReleaseReturned(w) PROVE FrameTypeOK'
  BY <1>0, <1>19 DEF ReleaseReturned, Release, subVars, FrameTypeOK, Frames
<1>4. ASSUME NEW h \in Handlers, Subscribe0(h) PROVE FrameTypeOK'
  BY <1>0, <1>4, SubscribeTypes DEF Subscribe0, taskVars, FrameTypeOK
<1>5. ASSUME BeginFrame \/ ThreadExit \/ EndDrain \/ RunFuncs \/ CallJavaScript \/ MainServes
      PROVE FrameTypeOK'
  BY <1>0, <1>5
  DEF BeginFrame, ThreadExit, EndDrain, RunFuncs, CallJavaScript, MainServes, taskVars, subVars,
      FrameTypeOK, Frames
<1>6. CASE Handle /\ ~broken
  <2>1. Head(queue) \in Tasks /\ Tail(queue) \in Seq(Tasks) /\ msg[Head(queue)] \in Messages
    BY <1>0, <1>6, QueuedFacts DEF Handle, FrameInv
  <2>2. CASE msg[Head(queue)].class = Null
    BY <1>0, <1>6, <2>1, <2>2 DEF Handle, subVars, FrameTypeOK
  <2>3. CASE msg[Head(queue)].class # Null
    <3>1. stack' = <<Walk(Head(queue), msg[Head(queue)], FALSE)>>
      BY <1>6, <2>3 DEF Handle
    <3>2. stack' \in Seq(Walks)
      BY <1>0, <2>1, <3>1, WalkFacts, OneWalk
    <3>. QED
      BY <1>0, <1>6, <2>1, <2>3, <3>2 DEF Handle, subVars, FrameTypeOK, Frames
  <2>. QED
    BY <2>2, <2>3
<1>8. CASE CallHandler
  BY <1>0, <1>8, CallTop DEF CallHandler, taskVars, subVars, FrameTypeOK, Frames
<1>9. CASE HandlerReturns
  <2>1. Top.dangling \in BOOLEAN
    BY <1>0, <1>9, ReturnTop DEF Walks
  <2>. QED
    BY <1>0, <1>9, <2>1, ReturnTop DEF HandlerReturns, taskVars, subVars, FrameTypeOK, Frames
<1>10. CASE NextList
  BY <1>0, <1>10, ListTop DEF NextList, taskVars, subVars, FrameTypeOK
<1>11. ASSUME NEW h \in Handlers, HandlerErases(h) PROVE FrameTypeOK'
  BY <1>0, <1>11, DeSubscribeTypes DEF HandlerErases, FrameTypeOK, Frames
<1>12. ASSUME NEW t \in Tasks, NEW m \in Messages, HandlerSends(t, m) PROVE FrameTypeOK'
  BY <1>0, <1>12, SendTypes DEF HandlerSends, subVars, FrameTypeOK, Frames
<1>13. ASSUME NEW t \in Tasks, NEW m \in Messages, BroadcastTask(t, m) PROVE FrameTypeOK'
  <2>1. CASE m.class = Null
    BY <1>0, <1>13, <2>1 DEF BroadcastTask, subVars, FrameTypeOK
  <2>2. CASE m.class # Null
    <3>1. stack' \in Seq(Walks)
      BY <1>0, <1>13, <2>2, BroadcastTop
    <3>. QED
      BY <1>0, <1>13, <2>2, <3>1 DEF BroadcastTask, subVars, FrameTypeOK, Frames
  <2>. QED
    BY <2>1, <2>2
<1>14. CASE EndBroadcast \/ EndHandle
  <2>1. Pop \in Seq(Walks) /\ Top \in Walks
    BY <1>0, <1>14, TopFacts DEF EndBroadcast, EndHandle, Nest
  <2>2. Top.task \in Tasks
    BY <2>1 DEF Walks
  <2>. QED
    BY <1>0, <1>14, <2>1, <2>2
    DEF EndBroadcast, EndHandle, Release, subVars, FrameTypeOK, Frames
<1>15. CASE DestroyRunner
  BY <1>0, <1>15 DEF DestroyRunner, subVars, FrameTypeOK, Frames
<1>16. CASE StartFrame \/ DestroyReact \/ StopFrame \/ Join
  BY <1>0, <1>16, RenderFrameAssumption
  DEF StartFrame, DestroyReact, StopFrame, Join, taskVars, subVars, FrameTypeOK, Frames
<1>17. CASE InitReact
  BY <1>0, <1>17, SubscribeTypes, RenderFrameAssumption DEF InitReact, taskVars, FrameTypeOK
<1>18. CASE UNCHANGED vars
  BY <1>0, <1>18 DEF vars, taskVars, subVars, FrameTypeOK
<1>. QED
  BY <1>1, <1>2, <1>3, <1>4, <1>5, <1>6, <1>7, <1>8, <1>9, <1>10, <1>11, <1>12, <1>13, <1>14, <1>15,
     <1>16, <1>17, <1>18, <1>19
  DEF Next, FrameStep, HandlerStep, MainStep, Finishing

-----------------------------------------------------------------------------
(* Calls.                                                                  *)

(* No call begins or ends.                                                 *)
SameCalls ==
  /\ Len(stack') = Len(stack)
  /\ \A i \in 1..Len(stack) :
       stack'[i].task = stack[i].task /\ stack'[i].broadcast = stack[i].broadcast

LEMMA CallsStay ==
  ASSUME FrameTypeOK, Nest, Subscribed
  PROVE  /\ CallHandler \/ HandlerReturns \/ NextList => SameCalls
         /\ \A h \in Handlers : Subscribe(h) \/ DeSubscribe(h) => SameCalls
         /\ stack' = stack => SameCalls
<1>1. ASSUME stack # <<>>, Len(stack') = Len(stack),
             \A i \in 1..(Len(stack) - 1) : stack'[i] = stack[i],
             stack'[Len(stack)].task = stack[Len(stack)].task,
             stack'[Len(stack)].broadcast = stack[Len(stack)].broadcast
      PROVE  SameCalls
  <2>1. \A i \in 1..Len(stack) : i = Len(stack) \/ i \in 1..(Len(stack) - 1)
    BY <1>1, TopFacts
  <2>. QED
    BY <1>1, <2>1 DEF SameCalls
<1>2. CallHandler => SameCalls
  BY <1>1, CallTop DEF Walks
<1>3. HandlerReturns => SameCalls
  BY <1>1, ReturnTop DEF Walks
<1>4. NextList => SameCalls
  BY <1>1, ListTop, WalkOn
<1>5. \A i \in 1..Len(stack) : stack[i] \in Walks
  BY DEF FrameTypeOK
<1>6. \A h \in Handlers : Subscribe(h) => SameCalls
  BY <1>5, SubscribeTypes DEF SameCalls, Walks
<1>7. \A h \in Handlers : DeSubscribe(h) => SameCalls
  BY <1>5, DeSubscribeTypes, ErasedFacts DEF SameCalls
<1>8. stack' = stack => SameCalls
  BY DEF SameCalls
<1>. QED
  BY <1>2, <1>3, <1>4, <1>6, <1>7, <1>8

(* Every step preserves the nesting of the calls.                          *)
LEMMA NextNest == FrameInv /\ [Next]_vars => Nest'
<1>. SUFFICES ASSUME FrameInv, [Next]_vars PROVE Nest'
  OBVIOUS
<1>0. FrameTypeOK /\ Nest /\ Subscribed /\ FrameTypeOK'
  BY NextFrameTypes DEF FrameInv
<1>a. stack \in Seq(Walks) /\ stack' \in Seq(Walks) /\ frame \in Frames
  BY <1>0 DEF FrameTypeOK
<1>b. ASSUME SameCalls, frame' \in {"walk", "in", "out", "sync"} <=> frame \in {"walk", "in", "out", "sync"},
             frame' = "none" <=> main' = "boot",
             frame' \in {"exit", "ended"} => main' \in {"joining", "ended"}
      PROVE  Nest'
  BY <1>0, <1>a, <1>b, EmptySeq DEF Nest, SameCalls
<1>1. ASSUME NEW t \in Tasks, NEW m \in Messages, NEW who \in {"main", "worker"}, Post(t, m, who)
      PROVE Nest'
  BY <1>0, <1>1 DEF Post, Nest
<1>2. ASSUME NEW f \in Funcs, AddFunc(f) PROVE Nest'
  BY <1>0, <1>2 DEF AddFunc, Nest
<1>3. ASSUME NEW t \in Tasks, OnFinish(t) PROVE Nest'
  BY <1>0, <1>3 DEF OnFinish, Nest
<1>15. ASSUME NEW w \in finishing, FinishNext(w) PROVE Nest'
  BY <1>0, <1>15 DEF FinishNext, Nest
<1>16. ASSUME NEW w \in finishing, ReleaseReturned(w) PROVE Nest'
  BY <1>0, <1>16 DEF ReleaseReturned, Finisher, Nest
<1>4. ASSUME NEW h \in Handlers, Subscribe0(h) PROVE Nest'
  BY <1>0, <1>4, <1>b, CallsStay DEF Subscribe0, Nest
<1>5. ASSUME BeginFrame \/ ThreadExit \/ EndDrain \/ RunFuncs \/ CallJavaScript \/ MainServes
      PROVE Nest'
  BY <1>0, <1>5
  DEF BeginFrame, ThreadExit, EndDrain, RunFuncs, CallJavaScript, MainServes, Nest
<1>6. CASE Handle /\ ~broken
  <2>1. Head(queue) \in Tasks /\ msg[Head(queue)] \in Messages
    BY <1>0, <1>6, QueuedFacts DEF Handle, FrameInv
  <2>2. CASE msg[Head(queue)].class = Null
    BY <1>0, <1>6, <2>2 DEF Handle, Nest
  <2>3. CASE msg[Head(queue)].class # Null
    <3>. DEFINE w == Walk(Head(queue), msg[Head(queue)], FALSE)
    <3>1. stack' = <<w>> /\ frame' = "walk" /\ main' = main /\ frame = "drain"
      BY <1>6, <2>3 DEF Handle
    <3>2. w.broadcast = FALSE
      BY <1>0, <2>1, WalkFacts
    <3>. HIDE DEF w
    <3>3. Len(stack') = 1 /\ stack' # <<>> /\ stack'[1].broadcast = FALSE
      BY <3>1, <3>2
    <3>. QED
      BY <1>0, <3>1, <3>3 DEF Nest
  <2>. QED
    BY <2>2, <2>3
<1>7. CASE CallHandler \/ HandlerReturns \/ NextList
  BY <1>0, <1>7, <1>b, CallsStay DEF CallHandler, HandlerReturns, NextList, Nest
<1>8. ASSUME NEW h \in Handlers, HandlerErases(h) PROVE Nest'
  BY <1>0, <1>8, <1>b, CallsStay DEF HandlerErases, Nest
<1>9. ASSUME NEW t \in Tasks, NEW m \in Messages, HandlerSends(t, m) PROVE Nest'
  BY <1>0, <1>9 DEF HandlerSends, Nest
<1>10. ASSUME NEW t \in Tasks, NEW m \in Messages, BroadcastTask(t, m) PROVE Nest'
  <2>1. CASE m.class = Null
    BY <1>0, <1>10, <2>1 DEF BroadcastTask, Nest
  <2>2. CASE m.class # Null
    <3>0. Walk(t, m, TRUE).broadcast = TRUE
      BY <1>0, WalkFacts
    <3>1. /\ Len(stack) \in Nat \ {0} /\ Len(stack') = Len(stack) + 1
          /\ \A i \in 1..Len(stack) : stack'[i] = stack[i]
          /\ stack'[Len(stack) + 1].broadcast = TRUE
      BY <1>0, <1>10, <2>2, <3>0, BroadcastTop
    <3>2. PICK n \in Nat \ {0} : n = Len(stack)
      BY <3>1
    <3>3. \A i \in 1..(n + 1) : stack'[i].broadcast <=> i # 1
      <4>1. \A i \in 1..(n + 1) : i \in 1..n \/ (i = n + 1 /\ i # 1)
        BY <3>2
      <4>. QED
        BY <1>0, <3>1, <3>2, <4>1 DEF Nest
    <3>4. stack' # <<>> /\ frame' = "walk" /\ main' = main /\ frame = "in"
      BY <1>10, <1>a, <2>2, <3>1, EmptySeq DEF BroadcastTask
    <3>. QED
      BY <1>0, <3>1, <3>2, <3>3, <3>4 DEF Nest
  <2>. QED
    BY <2>1, <2>2
<1>11. CASE EndBroadcast \/ EndHandle
  <2>0. stack # <<>>
    BY <1>0, <1>11 DEF EndBroadcast, EndHandle, Nest
  <2>1. PICK n \in Nat \ {0} : n = Len(stack)
    BY <1>0, <2>0, TopFacts
  <2>2. /\ n \in 1..n /\ Top = stack[n] /\ Len(Pop) = n - 1
        /\ \A i \in 1..(n - 1) : Pop[i] = stack[i] /\ i \in 1..n
    BY <1>0, <2>0, <2>1, TopFacts
  <2>3. Top.broadcast <=> n # 1
    BY <1>0, <2>1, <2>2 DEF Nest
  <2>4. stack' = Pop /\ main' = main /\ frame = "walk"
    BY <1>11 DEF EndBroadcast, EndHandle
  <2>5. stack' # <<>> <=> n # 1
    BY <1>a, <2>1, <2>2, <2>4, EmptySeq
  <2>6. IF n # 1 THEN frame' = "out" ELSE frame' \in {"drain", "finish"}
    BY <1>11, <2>3 DEF EndBroadcast, EndHandle
  <2>7. \A i \in 1..Len(stack') : stack'[i].broadcast <=> i # 1
    BY <1>0, <2>1, <2>2, <2>4 DEF Nest
  <2>. QED
    BY <1>0, <2>4, <2>5, <2>6, <2>7 DEF Nest
<1>12. CASE DestroyRunner \/ StartFrame \/ DestroyReact \/ StopFrame \/ Join
  BY <1>0, <1>12 DEF DestroyRunner, StartFrame, DestroyReact, StopFrame, Join, Nest
<1>13. CASE InitReact
  BY <1>0, <1>13, <1>b, CallsStay, RenderFrameAssumption DEF InitReact, Nest
<1>14. CASE UNCHANGED vars
  BY <1>0, <1>14 DEF vars, Nest
<1>. QED
  BY <1>1, <1>2, <1>3, <1>4, <1>5, <1>6, <1>7, <1>8, <1>9, <1>10, <1>11, <1>12, <1>13, <1>14, <1>15,
     <1>16
  DEF Next, FrameStep, HandlerStep, MainStep, Finishing

-----------------------------------------------------------------------------
(* Subscriptions.                                                          *)

(* A handler that is in none of its lists is added to each.                *)
LEMMA SubscribeLists ==
  ASSUME FrameTypeOK, Subscribed, NEW h \in Handlers, Subscribe(h),
         \A l \in Filter[h] : h \notin Range(subs[l])
  PROVE  \A l \in Lists :
           /\ IsInjective(subs'[l])
           /\ Range(subs'[l]) = IF l \in Filter[h] THEN Range(subs[l]) \cup {h}
                               ELSE Range(subs[l])
<1>. SUFFICES ASSUME NEW l \in Lists
     PROVE  /\ IsInjective(subs'[l])
            /\ Range(subs'[l]) = IF l \in Filter[h] THEN Range(subs[l]) \cup {h}
                                ELSE Range(subs[l])
  OBVIOUS
<1>1. subs[l] \in Seq(Handlers) /\ IsInjective(subs[l])
  BY DEF FrameTypeOK, Subscribed
<1>2. subs'[l] = IF l \in Filter[h] THEN Append(subs[l], h) ELSE subs[l]
  BY DEF Subscribe
<1>3. CASE l \in Filter[h]
  <2>1. h \notin Range(subs[l])
    BY <1>3
  <2>2. IsInjective(Append(subs[l], h)) /\ Range(Append(subs[l], h)) = Range(subs[l]) \cup {h}
    BY <1>1, <2>1, AppendNew
  <2>. QED
    BY <1>2, <1>3, <2>2
<1>4. CASE l \notin Filter[h]
  BY <1>1, <1>2, <1>4
<1>. QED
  BY <1>3, <1>4

(* A handler is taken out of every list.                                   *)
LEMMA EraseLists ==
  ASSUME FrameTypeOK, Subscribed, NEW h \in Handlers, DeSubscribe(h)
  PROVE  \A l \in Lists : IsInjective(subs'[l]) /\ Range(subs'[l]) = Range(subs[l]) \ {h}
<1>. SUFFICES ASSUME NEW l \in Lists
     PROVE  IsInjective(subs'[l]) /\ Range(subs'[l]) = Range(subs[l]) \ {h}
  OBVIOUS
<1>1. /\ subs[l] \in Seq(Handlers) /\ IsInjective(subs[l])
      /\ l \notin Filter[h] => h \notin Range(subs[l])
  BY DEF FrameTypeOK, Subscribed
<1>2. subs'[l] = IF l \in Filter[h] THEN Without(subs[l], h) ELSE subs[l]
  BY DEF DeSubscribe
<1>3. CASE h \in Range(subs[l])
  <2>1. PICK k \in 1..Len(subs[l]) : h = subs[l][k]
    BY <1>1, <1>3 DEF Range
  <2>2. IsInjective(Without(subs[l], h)) /\ Range(Without(subs[l], h)) = Range(subs[l]) \ {h}
    BY <1>1, <2>1, WithoutOnce
  <2>. QED
    BY <1>1, <1>2, <1>3, <2>2
<1>4. CASE h \notin Range(subs[l])
  BY <1>1, <1>2, <1>4 DEF Without
<1>. QED
  BY <1>3, <1>4

(* Every step preserves the lists.                                         *)
LEMMA NextSubscribed == FrameInv /\ [Next]_vars => Subscribed'
<1>. SUFFICES ASSUME FrameInv, [Next]_vars PROVE Subscribed'
  OBVIOUS
<1>0. FrameTypeOK /\ Nest /\ Subscribed
  BY DEF FrameInv
<1>1. ASSUME UNCHANGED subs, main' \in {"boot", "started"} => main \in {"boot", "started"}
      PROVE  Subscribed'
  BY <1>0, <1>1 DEF Subscribed
<1>2. ASSUME NEW h \in Handlers, Subscribe(h), \A l \in Filter[h] : h \notin Range(subs[l]),
             main' \in {"boot", "started"} => main \in {"boot", "started"} /\ h # React
      PROVE  Subscribed'
  <2>1. \A l \in Lists :
          /\ IsInjective(subs'[l])
          /\ Range(subs'[l]) = IF l \in Filter[h] THEN Range(subs[l]) \cup {h}
                               ELSE Range(subs[l])
    BY <1>0, <1>2, SubscribeLists
  <2>2. \A l \in Lists : \A g \in Range(subs'[l]) : l \in Filter[g]
    BY <1>0, <2>1 DEF Subscribed
  <2>3. main' \in {"boot", "started"} => \A l \in Lists : React \notin Range(subs'[l])
    BY <1>0, <1>2, <2>1 DEF Subscribed
  <2>. QED
    BY <2>1, <2>2, <2>3 DEF Subscribed
<1>3. ASSUME NEW h \in Handlers, HandlerErases(h) PROVE Subscribed'
  BY <1>0, <1>3, EraseLists DEF HandlerErases, Subscribed
<1>4. ASSUME NEW h \in Handlers, Subscribe0(h) PROVE Subscribed'
  BY <1>2, <1>4 DEF Subscribe0
<1>5. CASE InitReact
  <2>1. \A l \in Filter[React] : l \in Lists
    BY RenderFrameAssumption DEF Lists
  <2>2. \A l \in Filter[React] : React \notin Range(subs[l])
    BY <1>0, <1>5, <2>1 DEF InitReact, Subscribed
  <2>3. main' = "running" /\ React \in Handlers /\ Subscribe(React)
    BY <1>5, RenderFrameAssumption DEF InitReact
  <2>. QED
    BY <1>2, <2>2, <2>3
<1>6. ASSUME NEW t \in Tasks, NEW m \in Messages, NEW who \in {"main", "worker"}, Post(t, m, who)
      PROVE Subscribed'
  BY <1>1, <1>6 DEF Post, subVars
<1>7. ASSUME NEW f \in Funcs, AddFunc(f) PROVE Subscribed'
  BY <1>1, <1>7 DEF AddFunc, subVars
<1>8. ASSUME NEW t \in Tasks, Finishing(t) PROVE Subscribed'
  BY <1>1, <1>8 DEF Finishing, OnFinish, FinishNext, ReleaseReturned, subVars
<1>9. ASSUME NEW t \in Tasks, NEW m \in Messages, HandlerSends(t, m) \/ BroadcastTask(t, m)
      PROVE Subscribed'
  BY <1>1, <1>9 DEF HandlerSends, BroadcastTask, subVars
<1>10. CASE BeginFrame \/ ThreadExit \/ CallJavaScript \/ MainServes
  BY <1>1, <1>10 DEF BeginFrame, ThreadExit, CallJavaScript, MainServes, subVars
<1>11. CASE FrameStep
  BY <1>1, <1>11
  DEF FrameStep, Handle, CallHandler, HandlerReturns, NextList, EndBroadcast, EndHandle, EndDrain,
      RunFuncs, DestroyRunner, subVars
<1>12. CASE StartFrame \/ DestroyReact \/ StopFrame \/ Join
  BY <1>1, <1>12 DEF StartFrame, DestroyReact, StopFrame, Join, subVars
<1>13. CASE UNCHANGED vars
  BY <1>1, <1>13 DEF vars, subVars
<1>. QED
  BY <1>3, <1>4, <1>5, <1>6, <1>7, <1>8, <1>9, <1>10, <1>11, <1>12, <1>13
  DEF Next, HandlerStep, MainStep

-----------------------------------------------------------------------------
(* Tasks.                                                                  *)

(* A Task that nobody holds is sent.                                       *)
LEMMA SendPlaced ==
  ASSUME FrameTypeOK, Placed, NEW t \in Tasks, NEW m \in Messages,
         NEW who \in {"main", "frame", "worker"}, SendTaskAsync(t, m, who), stack' = stack
  PROVE  Placed'
<1>1. msg[t] = Null /\ msg' = [msg EXCEPT ![t] = m] /\ returned' = returned /\ m # Null
  BY RenderFrameAssumption DEF SendTaskAsync, Free
<1>2. Live' = Live \cup {t} /\ t \notin Live
  BY <1>1 DEF Live, FrameTypeOK
<1>3. t \notin Range(queue) \cup Walked \cup returned \cup dropped
  BY <1>2 DEF Placed
<1>4. Walked' = Walked
  BY DEF Walked
<1>5. CASE queue' = Append(queue, t) /\ dropped' = dropped
  <2>1. Range(queue') = Range(queue) \cup {t} /\ IsInjective(queue')
    BY <1>3, <1>5, AppendNew DEF FrameTypeOK, Placed
  <2>. QED
    BY <1>1, <1>2, <1>3, <1>4, <1>5, <2>1 DEF Placed
<1>6. CASE dropped' = dropped \cup {t} /\ queue' = queue
  <2>1. IsFiniteSet(dropped')
    BY <1>6, FS_AddElement DEF Placed
  <2>. QED
    BY <1>1, <1>2, <1>3, <1>4, <1>6, <2>1 DEF Placed
<1>. QED
  BY <1>5, <1>6 DEF SendTaskAsync

(* Every step without undefined behaviour leaves each Task in one place.   *)
LEMMA NextPlaced == FrameInv /\ [Next]_vars /\ ~broken' => Placed'
<1>. SUFFICES ASSUME FrameInv, [Next]_vars, ~broken' PROVE Placed'
  OBVIOUS
<1>0. FrameTypeOK /\ Nest /\ Subscribed
  BY DEF FrameInv
<1>00. Placed /\ Finished
  <2>1. ~broken
    BY DEF Next, vars
  <2>. QED
    BY <2>1 DEF FrameInv
<1>1. ASSUME SameCalls, UNCHANGED <<queue, msg, returned, dropped>> PROVE Placed'
  <2>1. Walked' = Walked
    BY <1>1 DEF SameCalls, Walked
  <2>2. Live' = Live
    BY <1>1 DEF Live
  <2>. QED
    BY <1>00, <1>1, <2>1, <2>2 DEF Placed, SameCalls
<1>2. ASSUME NEW t \in Tasks, NEW m \in Messages, NEW who \in {"main", "worker"}, Post(t, m, who)
      PROVE Placed'
  BY <1>0, <1>00, <1>2, SendPlaced DEF Post
<1>3. ASSUME NEW t \in Tasks, NEW m \in Messages, HandlerSends(t, m) PROVE Placed'
  BY <1>0, <1>00, <1>3, SendPlaced DEF HandlerSends
<1>4. ASSUME NEW w \in finishing, ReleaseReturned(w) PROVE Placed'
  <2>0. PICK t : t = w.task
    OBVIOUS
  <2>1. /\ t \in returned /\ returned' = returned \ {t} /\ msg' = [msg EXCEPT ![t] = Null]
        /\ UNCHANGED <<queue, stack, dropped>>
    BY <1>00, <1>4, <2>0 DEF ReleaseReturned, Release, Finished
  <2>2. Live' = Live \ {t} /\ Walked' = Walked
    BY <1>0, <2>1 DEF Live, Walked, FrameTypeOK
  <2>3. IsFiniteSet(returned')
    BY <1>00, <2>1, FS_RemoveElement DEF Placed
  <2>. QED
    BY <1>00, <2>1, <2>2, <2>3 DEF Placed
<1>5. CASE Handle
  <2>1. /\ stack = <<>> /\ queue \in Seq(Tasks) /\ queue # <<>> /\ IsInjective(queue)
        /\ UNCHANGED <<msg, returned, dropped>> /\ queue' = Tail(queue)
    BY <1>0, <1>00, <1>5 DEF Handle, Nest, FrameTypeOK, Placed
  <2>2. /\ Head(queue) \in Range(queue) /\ Head(queue) \in Tasks /\ IsInjective(queue')
        /\ Range(queue') = Range(queue) \ {Head(queue)} /\ msg[Head(queue)] \in Messages
    BY <1>0, <1>00, <2>1, TailOnce, QueuedFacts
  <2>3. PICK w : w = Walk(Head(queue), msg[Head(queue)], FALSE)
    OBVIOUS
  <2>4. stack' = <<w>> /\ w.task = Head(queue)
    <3>1. w.task = Head(queue)
      BY <1>0, <2>2, <2>3, WalkFacts
    <3>. QED
      BY <1>5, <2>3, <3>1 DEF Handle
  <2>5. Walked = {} /\ Walked' = {Head(queue)} /\ Live' = Live
    BY <2>1, <2>4 DEF Walked, Live
  <2>6. \A i, j \in 1..Len(stack') : i = j
    BY <2>4
  <2>. QED
    BY <1>00, <2>1, <2>2, <2>5, <2>6 DEF Placed
<1>6. ASSUME NEW t \in Tasks, NEW m \in Messages, BroadcastTask(t, m) PROVE Placed'
  <2>1. /\ m.class # Null /\ msg[t] = Null /\ msg' = [msg EXCEPT ![t] = m]
        /\ UNCHANGED <<queue, returned, dropped>> /\ m # Null
    BY <1>6, RenderFrameAssumption DEF BroadcastTask, Free
  <2>2. Walk(t, m, TRUE).task = t
    BY <1>0, WalkFacts
  <2>n. PICK n \in Nat \ {0} : n = Len(stack)
    BY <1>0, <1>6, <2>1, BroadcastTop
  <2>3. /\ Len(stack') = n + 1 /\ stack'[n + 1].task = t
        /\ \A i \in 1..n : stack'[i] = stack[i]
    BY <1>0, <1>6, <2>1, <2>2, <2>n, BroadcastTop
  <2>4. Live' = Live \cup {t} /\ t \notin Live
    BY <1>0, <2>1 DEF Live, FrameTypeOK
  <2>i. /\ \A i \in 1..(n + 1) : i = n + 1 \/ i \in 1..n
        /\ n + 1 \in 1..(n + 1) /\ \A i \in 1..n : i \in 1..(n + 1)
    BY <2>n
  <2>5. Walked' = Walked \cup {t}
    BY <2>n, <2>3, <2>i DEF Walked
  <2>6. t \notin Range(queue) \cup Walked \cup returned \cup dropped
    BY <1>00, <2>4 DEF Placed
  <2>w. \A i \in 1..n : stack[i].task # t
    BY <2>n, <2>6 DEF Walked
  <2>7. \A i, j \in 1..Len(stack') : stack'[i].task = stack'[j].task => i = j
    <3>. SUFFICES ASSUME NEW i \in 1..(n + 1), NEW j \in 1..(n + 1),
                         stack'[i].task = stack'[j].task
                  PROVE  i = j
      BY <2>3
    <3>1. CASE i \in 1..n /\ j \in 1..n
      <4>1. stack[i].task = stack[j].task
        BY <2>3, <3>1
      <4>. QED
        BY <1>00, <2>n, <3>1, <4>1 DEF Placed
    <3>2. CASE i = n + 1 /\ j \in 1..n
      BY <2>3, <2>w, <3>2
    <3>3. CASE i \in 1..n /\ j = n + 1
      BY <2>3, <2>w, <3>3
    <3>. QED
      BY <2>i, <3>1, <3>2, <3>3
  <2>. QED
    BY <1>00, <2>1, <2>4, <2>5, <2>6, <2>7 DEF Placed
<1>7. CASE EndBroadcast \/ EndHandle
  <2>0. stack # <<>>
    BY <1>0, <1>7 DEF EndBroadcast, EndHandle, Nest
  <2>1. PICK n \in Nat \ {0} : n = Len(stack)
    BY <1>0, <2>0, TopFacts
  <2>2. /\ Top = stack[n] /\ Len(Pop) = n - 1 /\ \A i \in 1..(n - 1) : Pop[i] = stack[i]
    BY <1>0, <2>0, <2>1, TopFacts
  <2>3. PICK t \in Tasks : t = Top.task
    BY <1>0, <2>0, TopFacts DEF Walks
  <2>4. stack' = Pop /\ UNCHANGED <<queue, dropped>>
    BY <1>7 DEF EndBroadcast, EndHandle
  <2>5. /\ \A i, j \in 1..(n - 1) : stack'[i].task = stack'[j].task => i = j
        /\ \A i \in 1..(n - 1) : stack[i].task # t
    BY <1>00, <2>1, <2>2, <2>3, <2>4 DEF Placed
  <2>6. Walked' = {stack[i].task : i \in 1..(n - 1)}
    BY <2>2, <2>4 DEF Walked
  <2>7. Walked = Walked' \cup {t} /\ t \notin Walked'
    <3>1. Walked = {stack[i].task : i \in 1..n}
      BY <2>1 DEF Walked
    <3>2. \A i \in 1..n : i = n \/ i \in 1..(n - 1)
      BY <2>1
    <3>3. \A i \in 1..(n - 1) : i \in 1..n
      BY <2>1
    <3>4. n \in 1..n
      BY <2>1
    <3>. QED
      BY <2>2, <2>3, <2>5, <2>6, <3>1, <3>2, <3>3, <3>4
  <2>8. CASE msg' = [msg EXCEPT ![t] = Null] /\ returned' = returned
    <3>1. Live' = Live \ {t}
      BY <1>0, <2>8 DEF Live, FrameTypeOK
    <3>. QED
      BY <1>00, <2>2, <2>4, <2>5, <2>7, <2>8, <3>1 DEF Placed
  <2>9. CASE msg' = msg /\ returned' = returned \cup {t}
    <3>1. Live' = Live /\ IsFiniteSet(returned')
      BY <1>00, <2>9, FS_AddElement DEF Live, Placed
    <3>. QED
      BY <1>00, <2>2, <2>4, <2>5, <2>7, <2>9, <3>1 DEF Placed
  <2>10. CASE EndBroadcast
    BY <2>3, <2>8, <2>10 DEF EndBroadcast, Release
  <2>11. CASE EndHandle /\ home[t] = "main"
    BY <2>3, <2>8, <2>11 DEF EndHandle, Release
  <2>12. CASE EndHandle /\ home[t] # "main"
    BY <2>3, <2>9, <2>12 DEF EndHandle
  <2>. QED
    BY <1>7, <2>10, <2>11, <2>12
<1>8. CASE DestroyRunner
  <2>1. queue = <<>> /\ queue' = queue /\ UNCHANGED <<stack, returned, dropped>>
    BY <1>8 DEF DestroyRunner
  <2>2. Range(queue) = {}
    BY <2>1 DEF Range
  <2>3. msg' = msg
    BY <1>0, <1>8, <2>2 DEF DestroyRunner, FrameTypeOK
  <2>. QED
    BY <1>0, <1>1, <2>1, <2>3, CallsStay
<1>9. ASSUME NEW f \in Funcs, AddFunc(f) PROVE Placed'
  BY <1>0, <1>1, <1>9, CallsStay DEF AddFunc, taskVars
<1>10. ASSUME NEW h \in Handlers, Subscribe0(h) \/ HandlerErases(h) PROVE Placed'
  BY <1>0, <1>1, <1>10, CallsStay DEF Subscribe0, HandlerErases, taskVars
<1>11. CASE BeginFrame \/ ThreadExit \/ CallJavaScript \/ MainServes \/ EndDrain \/ RunFuncs
  BY <1>0, <1>1, <1>11, CallsStay
  DEF BeginFrame, ThreadExit, CallJavaScript, MainServes, EndDrain, RunFuncs, taskVars
<1>12. CASE CallHandler \/ HandlerReturns \/ NextList
  BY <1>0, <1>1, <1>12, CallsStay DEF CallHandler, HandlerReturns, NextList, taskVars
<1>13. CASE MainStep
  BY <1>0, <1>1, <1>13, CallsStay, RenderFrameAssumption
  DEF MainStep, StartFrame, InitReact, DestroyReact, StopFrame, Join, taskVars
<1>14. CASE UNCHANGED vars
  BY <1>0, <1>1, <1>14, CallsStay DEF vars, taskVars
<1>15. ASSUME NEW t \in Tasks, OnFinish(t) PROVE Placed'
  BY <1>0, <1>1, <1>15, CallsStay DEF OnFinish
<1>16. ASSUME NEW w \in finishing, FinishNext(w) PROVE Placed'
  BY <1>0, <1>1, <1>16, CallsStay DEF FinishNext
<1>. QED
  BY <1>2, <1>3, <1>4, <1>5, <1>6, <1>7, <1>8, <1>9, <1>10, <1>11, <1>12, <1>13, <1>14, <1>15, <1>16
  DEF Next, FrameStep, HandlerStep, Finishing

(* Every step without undefined behaviour keeps who finishes what.         *)
LEMMA NextFinished == FrameInv /\ [Next]_vars /\ ~broken' => Finished'
<1>. SUFFICES ASSUME FrameInv, [Next]_vars, ~broken' PROVE Finished'
  OBVIOUS
<1>0. FrameTypeOK
  BY DEF FrameInv
<1>00. Placed /\ Finished
  <2>1. ~broken
    BY DEF Next, vars
  <2>. QED
    BY <2>1 DEF FrameInv
<1>1. ASSUME UNCHANGED finishing, returned \subseteq returned' PROVE Finished'
  BY <1>00, <1>1 DEF Finished
<1>2. ASSUME NEW t \in Tasks, OnFinish(t) PROVE Finished'
  <2>1. t \in returned /\ t \in Live /\ returned' = returned /\ \A w \in finishing : w.task # t
    BY <1>00, <1>2 DEF OnFinish, Placed
  <2>2. PICK v \in Finishes : v.task = t /\ finishing' = finishing \cup {v}
    BY <1>0, <1>2, <2>1, OnFinishFacts
  <2>. QED
    BY <1>00, <2>1, <2>2 DEF Finished
<1>3. ASSUME NEW w \in finishing, FinishNext(w) PROVE Finished'
  <2>1. PICK v \in Finishes : v.task = w.task /\ finishing' = (finishing \ {w}) \cup {v}
    BY <1>0, <1>3, FinishFacts
  <2>2. returned' = returned
    BY <1>3 DEF FinishNext
  <2>. QED
    BY <1>00, <2>1, <2>2 DEF Finished
<1>4. ASSUME NEW w \in finishing, ReleaseReturned(w) PROVE Finished'
  <2>1. finishing' = finishing \ {w} /\ returned' = returned \ {w.task}
    BY <1>4 DEF ReleaseReturned
  <2>. QED
    BY <1>00, <2>1 DEF Finished
<1>5. ASSUME NEW h \in Handlers, HandlerErases(h) PROVE Finished'
  <2>1. finishing' = {Moved(w, h) : w \in finishing} /\ returned' = returned
    BY <1>5 DEF HandlerErases, DeSubscribe
  <2>2. \A w \in finishing : Moved(w, h).task = w.task
    BY <1>0, MovedFacts DEF FrameTypeOK
  <2>. QED
    BY <1>00, <2>1, <2>2 DEF Finished
<1>6. CASE EndHandle
  BY <1>1, <1>6 DEF EndHandle
<1>7. ASSUME NEW t \in Tasks, NEW m \in Messages, NEW who \in {"main", "worker"}, Post(t, m, who)
      PROVE Finished'
  BY <1>1, <1>7 DEF Post, SendTaskAsync
<1>8. ASSUME NEW f \in Funcs, AddFunc(f) PROVE Finished'
  BY <1>1, <1>8 DEF AddFunc, taskVars
<1>9. ASSUME NEW h \in Handlers, Subscribe0(h) PROVE Finished'
  BY <1>1, <1>9 DEF Subscribe0, taskVars
<1>10. ASSUME NEW t \in Tasks, NEW m \in Messages, HandlerSends(t, m) \/ BroadcastTask(t, m)
       PROVE Finished'
  BY <1>1, <1>10 DEF HandlerSends, SendTaskAsync, BroadcastTask
<1>11. CASE CallJavaScript \/ MainServes \/ BeginFrame \/ ThreadExit \/ EndDrain \/ RunFuncs
  BY <1>1, <1>11 DEF CallJavaScript, MainServes, BeginFrame, ThreadExit, EndDrain, RunFuncs, taskVars
<1>12. CASE Handle \/ CallHandler \/ HandlerReturns \/ NextList \/ EndBroadcast \/ DestroyRunner
  BY <1>1, <1>12 DEF Handle, CallHandler, HandlerReturns, NextList, EndBroadcast, DestroyRunner, taskVars
<1>13. CASE MainStep
  BY <1>1, <1>13 DEF MainStep, StartFrame, InitReact, DestroyReact, StopFrame, Join, taskVars
<1>14. CASE UNCHANGED vars
  BY <1>1, <1>14 DEF vars, taskVars
<1>. QED
  BY <1>2, <1>3, <1>4, <1>5, <1>6, <1>7, <1>8, <1>9, <1>10, <1>11, <1>12, <1>13, <1>14
  DEF Next, FrameStep, HandlerStep, Finishing

-----------------------------------------------------------------------------
(* What a call owes.                                                       *)

LEMMA RouteFacts ==
  ASSUME NEW w \in Walks, w.route # <<>>
  PROVE  /\ w.route \in Seq(Lists) /\ Len(w.route) \in Nat \ {0}
         /\ Head(w.route) = w.route[1] /\ Head(w.route) \in Lists
         /\ \A k \in 1..Len(w.route) : w.route[k] \in Lists
<1>1. w.route \in Seq(Lists)
  BY DEF Walks
<1>. QED
  BY <1>1

(* A handler at position p of a list or after it.                          *)
Rest(L, p, h) == \E j \in 1..Len(L) : j >= p /\ L[j] = h

(* What is ahead is in the rest of the first list or in a later one.       *)
LEMMA AheadSplit ==
  ASSUME NEW s \in [Lists -> Seq(Handlers)], NEW w \in Walks, w.route # <<>>, NEW p, NEW h
  PROVE  Ahead(s, w, p, h) <=>
           \/ Rest(s[Head(w.route)], p, h)
           \/ \E k \in 2..Len(w.route) : h \in Range(s[w.route[k]])
<1>. DEFINE n == Len(w.route)
            first == Rest(s[Head(w.route)], p, h)
            later == \E k \in 2..n : h \in Range(s[w.route[k]])
<1>1. n \in Nat \ {0} /\ Head(w.route) = w.route[1] /\ \A k \in 1..n : w.route[k] \in Lists
  BY RouteFacts
<1>2. \A k \in 1..n : s[w.route[k]] \in Seq(Handlers)
  BY <1>1
<1>3. \A k \in 1..n : Range(s[w.route[k]]) = {s[w.route[k]][j] : j \in 1..Len(s[w.route[k]])}
  BY <1>2 DEF Range
<1>4. \A k \in 1..n : k = 1 \/ k \in 2..n
  BY <1>1
<1>5. 1 \in 1..n /\ \A k \in 2..n : k \in 1..n /\ k # 1
  BY <1>1
<1>6. Ahead(s, w, p, h) <=>
        \E k \in 1..n : \E j \in 1..Len(s[w.route[k]]) : (k = 1 => j >= p) /\ s[w.route[k]][j] = h
  BY DEF Ahead
<1>. HIDE DEF n
<1>7. Ahead(s, w, p, h) => first \/ later
  <2>. SUFFICES ASSUME Ahead(s, w, p, h) PROVE first \/ later
    OBVIOUS
  <2>1. PICK k \in 1..n : \E j \in 1..Len(s[w.route[k]]) : (k = 1 => j >= p) /\ s[w.route[k]][j] = h
    BY <1>6
  <2>2. CASE k = 1
    BY <1>1, <2>1, <2>2 DEF Rest
  <2>3. CASE k \in 2..n
    BY <1>3, <2>1, <2>3
  <2>. QED
    BY <1>4, <2>2, <2>3
<1>8. first => Ahead(s, w, p, h)
  BY <1>1, <1>5, <1>6 DEF Rest
<1>9. later => Ahead(s, w, p, h)
  <2>. SUFFICES ASSUME NEW k \in 2..n, h \in Range(s[w.route[k]]) PROVE Ahead(s, w, p, h)
    OBVIOUS
  <2>1. k \in 1..n /\ k # 1
    BY <1>5
  <2>. QED
    BY <1>3, <1>6, <2>1
<1>. QED
  BY <1>7, <1>8, <1>9 DEF n

(* The rest of a list that h is taken out of.                              *)
LEMMA EraseRest ==
  ASSUME NEW L \in Seq(Handlers), NEW M \in Seq(Handlers), IsInjective(L),
         NEW k \in 1..Len(L), NEW pos \in 1..Len(L), NEW q \in Int,
         k # pos, M = Without(L, L[k]), k < pos => q = pos - 1, ~(k < pos) => q = pos
  PROVE  /\ q <= Len(M)
         /\ \A g : Rest(M, q + 1, g) <=> g # L[k] /\ Rest(L, pos + 1, g)
<1>. SUFFICES ASSUME NEW g
     PROVE  /\ q <= Len(M)
            /\ (\E j \in 1..Len(M) : j >= q + 1 /\ M[j] = g) <=>
                 (g # L[k] /\ \E j \in 1..Len(L) : j >= pos + 1 /\ L[j] = g)
  BY DEF Rest
<1>. DEFINE n == Len(L)
            m == Len(M)
<1>1. n \in Nat /\ DOMAIN L = 1..n /\ k \in 1..n /\ pos \in 1..n
  OBVIOUS
<1>2. m = n - 1 /\ \A j \in 1..(n - 1) : M[j] = IF j < k THEN L[j] ELSE L[j + 1]
  BY WithoutOnce
<1>3. \A a, b \in 1..n : L[a] = L[b] => a = b
  BY <1>1 DEF IsInjective
<1>. HIDE DEF n, m
<1>4. q \in Nat /\ q <= m
  BY <1>1, <1>2
<1>5. ASSUME NEW j \in 1..m, j >= q + 1, M[j] = g
      PROVE  g # L[k] /\ \E i \in 1..n : i >= pos + 1 /\ L[i] = g
  <2>1. j \in 1..(n - 1) /\ M[j] = IF j < k THEN L[j] ELSE L[j + 1]
    BY <1>2
  <2>2. CASE j < k
    <3>1. j \in 1..n /\ j # k /\ j >= pos + 1
      BY <1>1, <1>5, <2>1, <2>2
    <3>2. g = L[j]
      BY <1>5, <2>1, <2>2
    <3>. QED
      BY <1>1, <1>3, <3>1, <3>2
  <2>3. CASE ~(j < k)
    <3>1. j + 1 \in 1..n /\ j + 1 # k /\ j + 1 >= pos + 1
      BY <1>1, <1>5, <2>1, <2>3
    <3>2. g = L[j + 1]
      BY <1>5, <2>1, <2>3
    <3>. QED
      BY <1>1, <1>3, <3>1, <3>2
  <2>. QED
    BY <2>2, <2>3
<1>6. ASSUME g # L[k], NEW i \in 1..n, i >= pos + 1, L[i] = g
      PROVE  \E j \in 1..m : j >= q + 1 /\ M[j] = g
  <2>1. CASE i < k
    <3>1. i \in 1..m /\ i \in 1..(n - 1) /\ i >= q + 1
      BY <1>1, <1>2, <1>6, <2>1
    <3>2. M[i] = g
      BY <1>2, <1>6, <2>1, <3>1
    <3>. QED
      BY <3>1, <3>2
  <2>2. CASE i > k
    <3>1. i - 1 \in 1..m /\ i - 1 \in 1..(n - 1) /\ i - 1 >= q + 1 /\ ~(i - 1 < k) /\ (i - 1) + 1 = i
      BY <1>1, <1>2, <1>6, <2>2
    <3>2. M[i - 1] = g
      BY <1>2, <1>6, <3>1
    <3>. QED
      BY <3>1, <3>2
  <2>3. i < k \/ i > k
    BY <1>1, <1>6
  <2>. QED
    BY <2>1, <2>2, <2>3
<1>. QED
  BY <1>4, <1>5, <1>6 DEF n, m

(* A handler before position p of a list.                                  *)
Before(L, p, h) == \E i \in 1..(p - 1) : L[i] = h

(* h is taken out of every list, and call w has become v.                  *)
Erasing(s, r, h) == \A l \in Lists : IsInjective(s[l]) /\ r[l] = Without(s[l], h)

MovedBy(s, w, h, v) ==
  LET L == s[Head(w.route)] IN
    /\ v.route = w.route /\ v.due = w.due \ {h}
    /\ v.pos = IF h \in Range(L) /\ Before(L, w.pos, h) THEN w.pos - 1 ELSE w.pos
    /\ ~v.dangling => ~w.dangling /\ L[w.pos] # h

(* A call inside a handler that takes h away no longer owes h, and its     *)
(* position moves with its element.                                        *)
LEMMA EraseInside ==
  ASSUME NEW s \in [Lists -> Seq(Handlers)], NEW r \in [Lists -> Seq(Handlers)],
         NEW h \in Handlers, NEW w \in Walks, NEW v \in Walks,
         Erasing(s, r, h), MovedBy(s, w, h, v), Inside(s, w)
  PROVE  Inside(r, v)
<1>0. /\ \A l \in Lists : IsInjective(s[l]) /\ r[l] = Without(s[l], h)
      /\ v.route = w.route /\ v.due = w.due \ {h}
      /\ v.pos = IF h \in Range(s[Head(w.route)]) /\ Before(s[Head(w.route)], w.pos, h)
                 THEN w.pos - 1 ELSE w.pos
      /\ ~v.dangling => ~w.dangling /\ s[Head(w.route)][w.pos] # h
  BY DEF Erasing, MovedBy
<1>1. Routed(v) /\ v.route # <<>>
  BY <1>0 DEF Inside, Routed
<1>. SUFFICES ASSUME ~v.dangling PROVE Owes(r, v, v.pos + 1)
  BY <1>1 DEF Inside
<1>. DEFINE L == s[Head(w.route)]
            M == r[Head(w.route)]
<1>2. Owes(s, w, w.pos + 1) /\ w.route # <<>> /\ L[w.pos] # h
  BY <1>0 DEF Inside
<1>3. /\ Head(w.route) \in Lists /\ \A k \in 2..Len(w.route) : w.route[k] \in Lists
      /\ L \in Seq(Handlers) /\ M \in Seq(Handlers) /\ IsInjective(L) /\ M = Without(L, h)
      /\ Len(L) \in Nat /\ w.pos \in Nat \ {0} /\ w.pos + 1 <= Len(L) + 1
  <2>1. Head(w.route) \in Lists /\ \A k \in 2..Len(w.route) : w.route[k] \in Lists
    BY <1>2, RouteFacts
  <2>2. w.pos \in Nat \ {0}
    BY DEF Walks
  <2>. QED
    BY <1>0, <1>2, <2>1, <2>2 DEF Owes
<1>4. \A k \in 2..Len(w.route) : Range(r[w.route[k]]) = Range(s[w.route[k]]) \ {h}
  <2>. SUFFICES ASSUME NEW l \in Lists PROVE Range(r[l]) = Range(s[l]) \ {h}
    BY <1>3
  <2>1. CASE h \in Range(s[l])
    <3>1. PICK k \in 1..Len(s[l]) : h = s[l][k]
      BY <2>1 DEF Range
    <3>. QED
      BY <1>0, <3>1, WithoutOnce
  <2>2. CASE h \notin Range(s[l])
    BY <1>0, <2>2 DEF Without
  <2>. QED
    BY <2>1, <2>2
<1>5. /\ v.pos <= Len(M)
      /\ \A g : Rest(M, v.pos + 1, g) <=> g # h /\ Rest(L, w.pos + 1, g)
  <2>1. CASE h \in Range(L)
    <3>1. PICK k \in 1..Len(L) : h = L[k]
      BY <1>3, <2>1 DEF Range
    <3>2. k # w.pos /\ w.pos \in 1..Len(L)
      BY <1>2, <1>3, <3>1
    <3>3. Before(L, w.pos, h) <=> k < w.pos
      <4>1. \A a, b \in 1..Len(L) : L[a] = L[b] => a = b
        BY <1>3 DEF IsInjective
      <4>2. \A i \in 1..(w.pos - 1) : i \in 1..Len(L) /\ i < w.pos
        BY <1>3
      <4>3. k < w.pos => k \in 1..(w.pos - 1)
        BY <1>3
      <4>. QED
        BY <3>1, <4>1, <4>2, <4>3 DEF Before
    <3>4. v.pos = IF k < w.pos THEN w.pos - 1 ELSE w.pos
      BY <1>0, <2>1, <3>3
    <3>5. M = Without(L, L[k])
      BY <1>3, <3>1
    <3>6. L \in Seq(Handlers) /\ IsInjective(L)
      BY <1>3
    <3>. HIDE DEF L, M
    <3>7. PICK pos : pos = w.pos
      OBVIOUS
    <3>8. PICK q : q = v.pos
      OBVIOUS
    <3>9. /\ pos \in 1..Len(L) /\ k # pos /\ (k < pos => q = pos - 1) /\ (~(k < pos) => q = pos)
          /\ q \in Int /\ M \in Seq(Handlers)
      BY <1>3, <3>2, <3>4, <3>7, <3>8
    <3>10. /\ q <= Len(M)
           /\ \A g : Rest(M, q + 1, g) <=> g # L[k] /\ Rest(L, pos + 1, g)
      BY <3>5, <3>6, <3>9, EraseRest
    <3>. QED
      BY <3>1, <3>7, <3>8, <3>10
  <2>2. CASE h \notin Range(L)
    <3>1. M = L /\ v.pos = w.pos
      BY <1>0, <1>3, <2>2 DEF Without
    <3>2. \A j \in 1..Len(L) : L[j] # h
      BY <1>3, <2>2 DEF Range
    <3>. HIDE DEF L, M
    <3>. QED
      BY <1>3, <3>1, <3>2 DEF Rest
  <2>. QED
    BY <2>1, <2>2
<1>6. \A g : Ahead(r, v, v.pos + 1, g) <=> g # h /\ Ahead(s, w, w.pos + 1, g)
  <2>. TAKE g
  <2>1. Ahead(s, w, w.pos + 1, g) <=>
          \/ Rest(L, w.pos + 1, g)
          \/ \E k \in 2..Len(w.route) : g \in Range(s[w.route[k]])
    BY <1>2, AheadSplit
  <2>2. Ahead(r, v, v.pos + 1, g) <=>
          \/ Rest(M, v.pos + 1, g)
          \/ \E k \in 2..Len(w.route) : g \in Range(r[w.route[k]])
    <3>1. Ahead(r, v, v.pos + 1, g) <=>
            \/ Rest(r[Head(v.route)], v.pos + 1, g)
            \/ \E k \in 2..Len(v.route) : g \in Range(r[v.route[k]])
      BY <1>1, AheadSplit
    <3>. QED
      BY <1>0, <3>1
  <2>3. (\E k \in 2..Len(w.route) : g \in Range(r[w.route[k]])) <=>
          g # h /\ \E k \in 2..Len(w.route) : g \in Range(s[w.route[k]])
    BY <1>4
  <2>. QED
    BY <1>5, <2>1, <2>2, <2>3
<1>7. v.pos + 1 <= Len(M) + 1
  BY <1>3, <1>5 DEF Walks
<1>. QED
  BY <1>0, <1>2, <1>6, <1>7 DEF Owes

(* The rest of a list that h is added to.                                  *)
LEMMA AppendRest ==
  ASSUME NEW L \in Seq(Handlers), NEW h \in Handlers, NEW p \in Nat, p <= Len(L) + 1
  PROVE  \A g : Rest(Append(L, h), p, g) <=> Rest(L, p, g) \/ g = h
<1>. DEFINE n == Len(L)
            M == Append(L, h)
<1>1. n \in Nat /\ Len(M) = n + 1 /\ (\A j \in 1..n : M[j] = L[j]) /\ M[n + 1] = h /\ p <= n + 1
  BY AppendNew
<1>. HIDE DEF M, n
<1>2. \A j \in 1..(n + 1) : j = n + 1 \/ j \in 1..n
  BY <1>1
<1>3. n + 1 \in 1..(n + 1) /\ n + 1 >= p /\ \A j \in 1..n : j \in 1..(n + 1)
  BY <1>1
<1>. SUFFICES ASSUME NEW g PROVE Rest(M, p, g) <=> Rest(L, p, g) \/ g = h
  BY DEF M
<1>4. Rest(M, p, g) <=> \E j \in 1..(n + 1) : j >= p /\ M[j] = g
  BY <1>1 DEF Rest
<1>5. Rest(L, p, g) <=> \E j \in 1..n : j >= p /\ L[j] = g
  BY DEF Rest, n
<1>. QED
  BY <1>1, <1>2, <1>3, <1>4, <1>5

(* h is added to the lists of its filter, and call w has become v.         *)
Subscribing(s, r, h) == \A l \in Lists : r[l] = IF l \in Filter[h] THEN Append(s[l], h) ELSE s[l]

GrownBy(w, h, v) ==
  /\ v.route = w.route
  /\ v.due = IF Filter[h] \cap Range(w.route) = {} THEN w.due ELSE w.due \cup {h}

(* A call owes a new subscriber of a list that is still ahead of it.       *)
LEMMA SubscribeOwes ==
  ASSUME NEW s \in [Lists -> Seq(Handlers)], NEW r \in [Lists -> Seq(Handlers)],
         NEW h \in Handlers, NEW w \in Walks, NEW v \in Walks, NEW p \in Nat,
         Subscribing(s, r, h), GrownBy(w, h, v), Owes(s, w, p)
  PROVE  Owes(r, v, p)
<1>0. /\ \A l \in Lists : r[l] = IF l \in Filter[h] THEN Append(s[l], h) ELSE s[l]
      /\ v.route = w.route
      /\ v.due = IF Filter[h] \cap Range(w.route) = {} THEN w.due ELSE w.due \cup {h}
  BY DEF Subscribing, GrownBy
<1>1. CASE w.route = <<>>
  <2>1. Range(w.route) = {} /\ v.due = w.due
    BY <1>0, <1>1 DEF Range
  <2>2. \A g : ~Ahead(s, w, p, g) /\ ~Ahead(r, v, p, g)
    BY <1>0, <1>1 DEF Ahead
  <2>. QED
    BY <1>0, <1>1, <2>1, <2>2 DEF Owes
<1>2. CASE w.route # <<>>
  <2>. DEFINE n == Len(w.route)
              L == s[Head(w.route)]
              M == r[Head(w.route)]
  <2>1. /\ Head(w.route) \in Lists /\ Head(w.route) = w.route[1] /\ n \in Nat \ {0}
        /\ \A k \in 2..n : w.route[k] \in Lists
        /\ p <= Len(L) + 1 /\ L \in Seq(Handlers)
    BY <1>2, RouteFacts DEF Owes
  <2>2. /\ p <= Len(M) + 1
        /\ \A g : Rest(M, p, g) <=> Rest(L, p, g) \/ (g = h /\ Head(w.route) \in Filter[h])
    <3>1. M = IF Head(w.route) \in Filter[h] THEN Append(L, h) ELSE L
      BY <1>0, <2>1
    <3>2. \A g : Rest(Append(L, h), p, g) <=> Rest(L, p, g) \/ g = h
      BY <2>1, AppendRest
    <3>3. Len(Append(L, h)) = Len(L) + 1 /\ Len(L) \in Nat
      BY <2>1, AppendNew
    <3>. HIDE DEF L, M
    <3>. QED
      BY <2>1, <3>1, <3>2, <3>3
  <2>3. \A k \in 2..n : Range(r[w.route[k]]) =
          IF w.route[k] \in Filter[h] THEN Range(s[w.route[k]]) \cup {h} ELSE Range(s[w.route[k]])
    <3>1. \A l \in Lists : Range(Append(s[l], h)) = Range(s[l]) \cup {h}
      BY AppendNew
    <3>. QED
      BY <1>0, <2>1, <3>1
  <2>4. (Filter[h] \cap Range(w.route) # {}) <=>
          Head(w.route) \in Filter[h] \/ \E k \in 2..n : w.route[k] \in Filter[h]
    <3>1. Range(w.route) = {w.route[k] : k \in 1..n}
      <4>1. w.route \in Seq(Lists)
        BY DEF Walks
      <4>. QED
        BY <4>1 DEF Range
    <3>2. \A k \in 1..n : k = 1 \/ k \in 2..n
      BY <2>1
    <3>3. 1 \in 1..n /\ \A k \in 2..n : k \in 1..n
      BY <2>1
    <3>. QED
      BY <2>1, <3>1, <3>2, <3>3
  <2>5. \A g : Ahead(r, v, p, g) <=>
          Ahead(s, w, p, g) \/ (g = h /\ Filter[h] \cap Range(w.route) # {})
    <3>. TAKE g
    <3>1. Ahead(s, w, p, g) <=> Rest(L, p, g) \/ \E k \in 2..n : g \in Range(s[w.route[k]])
      BY <1>2, AheadSplit
    <3>2. Ahead(r, v, p, g) <=>
            Rest(r[Head(v.route)], p, g) \/ \E k \in 2..Len(v.route) : g \in Range(r[v.route[k]])
      BY <1>0, <1>2, AheadSplit
    <3>3. Ahead(r, v, p, g) <=> Rest(M, p, g) \/ \E k \in 2..n : g \in Range(r[w.route[k]])
      BY <1>0, <3>2
    <3>4. (\E k \in 2..n : g \in Range(r[w.route[k]])) <=>
            \/ \E k \in 2..n : g \in Range(s[w.route[k]])
            \/ g = h /\ \E k \in 2..n : w.route[k] \in Filter[h]
      BY <2>3
    <3>. QED
      BY <2>2, <2>4, <3>1, <3>3, <3>4
  <2>. QED
    BY <1>0, <1>2, <2>2, <2>5 DEF Owes
<1>. QED
  BY <1>1, <1>2

(* At the beginning of a walk everything in its lists is ahead.            *)
LEMMA AheadAll ==
  ASSUME NEW s \in [Lists -> Seq(Handlers)], NEW w \in Walks, NEW h
  PROVE  Ahead(s, w, 1, h) <=> \E k \in 1..Len(w.route) : h \in Range(s[w.route[k]])
<1>1. w.route \in Seq(Lists)
  BY DEF Walks
<1>2. \A k \in 1..Len(w.route) : s[w.route[k]] \in Seq(Handlers)
  BY <1>1
<1>3. \A k \in 1..Len(w.route) :
        Range(s[w.route[k]]) = {s[w.route[k]][j] : j \in 1..Len(s[w.route[k]])}
  BY <1>2 DEF Range
<1>4. \A k \in 1..Len(w.route) : \A j \in 1..Len(s[w.route[k]]) : j >= 1
  BY <1>2
<1>5. ASSUME NEW k \in 1..Len(w.route)
      PROVE  h \in Range(s[w.route[k]]) <=>
               \E j \in 1..Len(s[w.route[k]]) : (k = 1 => j >= 1) /\ s[w.route[k]][j] = h
  <2>. DEFINE L == s[w.route[k]]
  <2>1. Range(L) = {L[j] : j \in 1..Len(L)} /\ \A j \in 1..Len(L) : j >= 1
    BY <1>3, <1>4
  <2>. HIDE DEF L
  <2>2. h \in Range(L) <=> \E j \in 1..Len(L) : (k = 1 => j >= 1) /\ L[j] = h
    BY <2>1
  <2>. QED
    BY <2>2 DEF L
<1>. QED
  BY <1>5 DEF Ahead

(* A handler that is called is no longer owed.                             *)
LEMMA CallInside ==
  ASSUME NEW s \in [Lists -> Seq(Handlers)], NEW w \in Walks, NEW v \in Walks,
         Between(s, w), w.route # <<>>, w.pos <= Len(s[Head(w.route)]),
         IsInjective(s[Head(w.route)]), NEW h, h = s[Head(w.route)][w.pos],
         \A k \in 2..Len(w.route) : h \notin Range(s[w.route[k]]),
         v.route = w.route, v.pos = w.pos, v.due = w.due \ {h}
  PROVE  Inside(s, v)
<1>. DEFINE L == s[Head(w.route)]
<1>1. L \in Seq(Handlers) /\ Len(L) \in Nat /\ w.pos \in Nat \ {0} /\ w.pos \in 1..Len(L)
  <2>1. Head(w.route) \in Lists
    BY RouteFacts
  <2>. QED
    BY <2>1 DEF Walks
<1>2. \A a, b \in 1..Len(L) : L[a] = L[b] => a = b
  BY <1>1 DEF IsInjective
<1>3. \A g : Rest(L, w.pos + 1, g) <=> g # h /\ Rest(L, w.pos, g)
  <2>1. \A j \in 1..Len(L) : j >= w.pos + 1 <=> j >= w.pos /\ j # w.pos
    BY <1>1
  <2>2. L[w.pos] = h
    OBVIOUS
  <2>. HIDE DEF L
  <2>. QED
    BY <1>1, <1>2, <2>1, <2>2 DEF Rest
<1>4. \A g : Ahead(s, v, w.pos + 1, g) <=> g # h /\ Ahead(s, w, w.pos, g)
  <2>. TAKE g
  <2>1. Ahead(s, w, w.pos, g) <=>
          Rest(L, w.pos, g) \/ \E k \in 2..Len(w.route) : g \in Range(s[w.route[k]])
    BY AheadSplit
  <2>2. Ahead(s, w, w.pos + 1, g) <=>
          Rest(L, w.pos + 1, g) \/ \E k \in 2..Len(w.route) : g \in Range(s[w.route[k]])
    BY AheadSplit
  <2>3. Ahead(s, v, w.pos + 1, g) <=> Ahead(s, w, w.pos + 1, g)
    BY DEF Ahead
  <2>. QED
    BY <1>3, <2>1, <2>2, <2>3
<1>5. w.pos + 1 <= Len(L) + 1
  BY <1>1
<1>6. Owes(s, v, v.pos + 1)
  BY <1>4, <1>5 DEF Owes, Between
<1>. QED
  BY <1>6 DEF Inside, Between, Routed

(* A call goes on behind the handler that has returned.                    *)
LEMMA ReturnBetween ==
  ASSUME NEW s, NEW w \in Walks, NEW v \in Walks, Inside(s, w), ~w.dangling,
         v.route = w.route, v.pos = w.pos + 1, v.due = w.due, v.dangling = w.dangling
  PROVE  Between(s, v)
<1>1. \A p, g : Ahead(s, v, p, g) <=> Ahead(s, w, p, g)
  BY DEF Ahead
<1>. QED
  BY <1>1 DEF Inside, Between, Routed, Owes

(* A call at the end of a list goes on at the beginning of the next.       *)
LEMMA ListBetween ==
  ASSUME NEW s \in [Lists -> Seq(Handlers)], NEW w \in Walks, NEW v \in Walks, Between(s, w),
         w.route # <<>>, w.pos > Len(s[Head(w.route)]),
         v.route = Tail(w.route), v.pos = 1, v.due = w.due, v.dangling = w.dangling
  PROVE  Between(s, v)
<1>. DEFINE n == Len(w.route)
            L == s[Head(w.route)]
<1>1. /\ n \in Nat \ {0} /\ w.route \in Seq(Lists) /\ v.route \in Seq(Lists)
      /\ Len(v.route) = n - 1 /\ \A k \in 1..(n - 1) : v.route[k] = w.route[k + 1]
      /\ Head(w.route) \in Lists /\ DOMAIN w.route = 1..n /\ DOMAIN v.route = 1..(n - 1)
  <2>1. w.route \in Seq(Lists) /\ v.route \in Seq(Lists)
    BY DEF Walks
  <2>. QED
    BY <2>1, RouteFacts
<1>2. Routed(v)
  <2>1. \A a, b \in 1..n : w.route[a] = w.route[b] => a = b
    BY <1>1 DEF Between, Routed, IsInjective
  <2>2. \A k \in 1..(n - 1) : k + 1 \in 2..n /\ k + 1 \in 1..n
    BY <1>1
  <2>3. \A k \in 2..n : w.route[k] \in Categories
    BY DEF Between, Routed
  <2>4. IsInjective(v.route)
    <3>. SUFFICES ASSUME NEW a \in 1..(n - 1), NEW b \in 1..(n - 1), v.route[a] = v.route[b]
                  PROVE  a = b
      BY <1>1 DEF IsInjective
    <3>1. a + 1 = b + 1
      BY <1>1, <2>1, <2>2
    <3>. QED
      BY <3>1
  <2>5. \A k \in 2..(n - 1) : v.route[k] \in Categories
    <3>1. \A k \in 2..(n - 1) : k \in 1..(n - 1)
      BY <1>1
    <3>. QED
      BY <1>1, <2>2, <2>3, <3>1
  <2>. QED
    BY <1>1, <2>4, <2>5 DEF Routed
<1>3. \A g : ~Rest(L, w.pos, g)
  <2>1. L \in Seq(Handlers) /\ w.pos \in Nat
    BY <1>1 DEF Walks
  <2>2. \A j \in 1..Len(L) : ~(j >= w.pos)
    BY <2>1
  <2>. QED
    BY <2>2 DEF Rest
<1>4. \A g : Ahead(s, w, w.pos, g) <=> Ahead(s, v, 1, g)
  <2>. TAKE g
  <2>1. Ahead(s, w, w.pos, g) <=> \E k \in 2..n : g \in Range(s[w.route[k]])
    BY <1>3, AheadSplit
  <2>2. Ahead(s, v, 1, g) <=> \E k \in 1..(n - 1) : g \in Range(s[v.route[k]])
    BY <1>1, AheadAll
  <2>3. \A k \in 1..(n - 1) : k + 1 \in 2..n /\ v.route[k] = w.route[k + 1]
    BY <1>1
  <2>4. \A k \in 2..n : k - 1 \in 1..(n - 1) /\ v.route[k - 1] = w.route[k]
    BY <1>1
  <2>. HIDE DEF n
  <2>. QED
    BY <2>1, <2>2, <2>3, <2>4
<1>5. v.route # <<>> => 1 <= Len(s[Head(v.route)]) + 1
  <2>. SUFFICES ASSUME v.route # <<>> PROVE 1 <= Len(s[Head(v.route)]) + 1
    OBVIOUS
  <2>1. Head(v.route) \in Lists
    BY RouteFacts
  <2>. QED
    BY <2>1
<1>6. Owes(s, v, 1)
  BY <1>4, <1>5 DEF Owes, Between
<1>. QED
  BY <1>2, <1>6 DEF Between

(* A new call owes every handler that is subscribed.                       *)
LEMMA WalkBetween ==
  ASSUME FrameTypeOK, NEW t \in Tasks, NEW m \in Messages, NEW w,
         w = Walk(t, m, TRUE) \/ w = Walk(t, m, FALSE)
  PROVE  w \in Walks /\ Between(subs, w)
<1>1. /\ w \in Walks /\ w.pos = 1 /\ w.dangling = FALSE
      /\ w.route = IF m.category # "ALL" THEN <<m.class, m.category>>
                   ELSE <<m.class, "SYSTEM", "USER", "ALL">>
      /\ \A h \in Handlers : h \in w.due <=> \E i \in 1..Len(w.route) : h \in Range(subs[w.route[i]])
  <2>1. CASE w = Walk(t, m, TRUE)
    <3>1. /\ w \in Walks /\ w.pos = 1 /\ w.dangling = FALSE
          /\ w.route = IF m.category # "ALL" THEN <<m.class, m.category>>
                       ELSE <<m.class, "SYSTEM", "USER", "ALL">>
      BY <2>1, WalkFacts
    <3>2. \A h \in Handlers : h \in w.due <=> \E i \in 1..Len(w.route) : h \in Range(subs[w.route[i]])
      BY <2>1, WalkFacts
    <3>. QED
      BY <3>1, <3>2
  <2>2. CASE w = Walk(t, m, FALSE)
    <3>1. /\ w \in Walks /\ w.pos = 1 /\ w.dangling = FALSE
          /\ w.route = IF m.category # "ALL" THEN <<m.class, m.category>>
                       ELSE <<m.class, "SYSTEM", "USER", "ALL">>
      BY <2>2, WalkFacts
    <3>2. \A h \in Handlers : h \in w.due <=> \E i \in 1..Len(w.route) : h \in Range(subs[w.route[i]])
      BY <2>2, WalkFacts
    <3>. QED
      BY <3>1, <3>2
  <2>. QED
    BY <2>1, <2>2
<1>2. m.class \notin Categories /\ m.category \in Categories
  BY RenderFrameAssumption
<1>3. Routed(w)
  <2>1. CASE m.category # "ALL"
    <3>1. w.route = <<m.class, m.category>> /\ m.class # m.category
      BY <1>1, <1>2, <2>1
    <3>2. Len(w.route) = 2 /\ DOMAIN w.route = 1..2 /\ w.route[1] = m.class /\ w.route[2] = m.category
      BY <3>1
    <3>. QED
      BY <1>2, <3>1, <3>2 DEF Routed, IsInjective
  <2>2. CASE m.category = "ALL"
    <3>1. w.route = <<m.class, "SYSTEM", "USER", "ALL">>
      BY <1>1, <2>2
    <3>2. /\ Len(w.route) = 4 /\ DOMAIN w.route = 1..4 /\ w.route[1] = m.class
          /\ w.route[2] = "SYSTEM" /\ w.route[3] = "USER" /\ w.route[4] = "ALL"
      BY <3>1
    <3>3. m.class # "SYSTEM" /\ m.class # "USER" /\ m.class # "ALL"
      BY <1>2 DEF Categories
    <3>. QED
      BY <3>2, <3>3 DEF Routed, IsInjective, Categories
  <2>. QED
    BY <2>1, <2>2
<1>4. subs \in [Lists -> Seq(Handlers)]
  BY DEF FrameTypeOK
<1>5. \A h \in Handlers : h \in w.due <=> Ahead(subs, w, 1, h)
  BY <1>1, <1>4, AheadAll
<1>6. w.route # <<>> => 1 <= Len(subs[Head(w.route)]) + 1
  <2>. SUFFICES ASSUME w.route # <<>> PROVE 1 <= Len(subs[Head(w.route)]) + 1
    OBVIOUS
  <2>1. Head(w.route) \in Lists
    BY <1>1, RouteFacts
  <2>. QED
    BY <1>4, <2>1
<1>. QED
  BY <1>1, <1>3, <1>5, <1>6 DEF Between, Owes

(* DeSubscribe does to a call what EraseInside asks for.                   *)
LEMMA EraseWalk ==
  ASSUME FrameTypeOK, Subscribed, NEW h \in Handlers, DeSubscribe(h),
         NEW w \in Walks, Inside(subs, w), NEW v, v = Erased(w, h)
  PROVE  Inside(subs', v)
<1>1. PICK s \in [Lists -> Seq(Handlers)] : s = subs
  BY DEF FrameTypeOK
<1>2. PICK r \in [Lists -> Seq(Handlers)] : r = subs'
  BY DeSubscribeTypes
<1>. DEFINE L == s[Head(w.route)]
<1>3. /\ w.route # <<>> /\ Head(w.route) \in Lists /\ w.pos \in Nat \ {0} /\ Inside(s, w)
      /\ h \in Range(L) => Head(w.route) \in Filter[h]
  BY <1>1, RouteFacts DEF Inside, Subscribed, Walks
<1>4. /\ v \in Walks /\ v.route = w.route /\ v.due = w.due \ {h}
  BY ErasedFacts
<1>5. Erasing(s, r, h)
  BY <1>1, <1>2 DEF Subscribed, DeSubscribe, Without, Erasing
<1>6. ~w.dangling => w.pos \in 1..Len(L)
  <2>1. Len(L) \in Nat
    BY <1>3
  <2>. QED
    BY <1>3, <2>1 DEF Inside, Owes
<1>7. CASE h \notin Range(L)
  <2>1. Moved(w, h) = w
    BY <1>1, <1>7, MovedFacts
  <2>2. v.pos = w.pos /\ v.dangling = w.dangling
    BY <2>1, ErasedFacts
  <2>3. ~v.dangling => ~w.dangling /\ L[w.pos] # h
    BY <1>3, <1>6, <1>7, <2>2 DEF Range
  <2>4. MovedBy(s, w, h, v)
    BY <1>4, <1>7, <2>2, <2>3 DEF MovedBy
  <2>. QED
    BY <1>2, <1>3, <1>4, <1>5, <2>4, EraseInside
<1>8. CASE h \in Range(L)
  <2>1. ~(w.route = <<>> \/ Head(w.route) \notin Filter[h] \/ h \notin Range(subs[Head(w.route)]))
    BY <1>1, <1>3, <1>8
  <2>2. /\ Moved(w, h).dangling = (w.dangling \/ StandsOn(w, h))
        /\ Moved(w, h).pos = IF \E i \in 1..(w.pos - 1) : subs[Head(w.route)][i] = h
                             THEN w.pos - 1 ELSE w.pos
    BY <2>1, MovedFacts
  <2>3. v.pos = IF Before(L, w.pos, h) THEN w.pos - 1 ELSE w.pos
    BY <1>1, <2>2, ErasedFacts DEF Before
  <2>4. ~v.dangling => ~w.dangling /\ ~StandsOn(w, h)
    BY <2>2, ErasedFacts
  <2>5. ~v.dangling => ~w.dangling /\ L[w.pos] # h
    BY <1>1, <1>3, <1>6, <2>4 DEF StandsOn
  <2>6. MovedBy(s, w, h, v)
    BY <1>4, <1>8, <2>3, <2>5 DEF MovedBy
  <2>. QED
    BY <1>2, <1>3, <1>4, <1>5, <2>6, EraseInside
<1>. QED
  BY <1>7, <1>8

LEMMA SubscribeGoesOn ==
  ASSUME NEW s \in [Lists -> Seq(Handlers)], NEW r \in [Lists -> Seq(Handlers)],
         NEW h \in Handlers, NEW w \in Walks, NEW v \in Walks,
         Subscribing(s, r, h), GrownBy(w, h, v), v.pos = w.pos, v.dangling = w.dangling
  PROVE  /\ Between(s, w) => Between(r, v)
         /\ Inside(s, w) => Inside(r, v)
<1>1. \A p \in Nat : Owes(s, w, p) => Owes(r, v, p)
  BY SubscribeOwes
<1>2. w.pos \in Nat /\ w.pos + 1 \in Nat
  BY DEF Walks
<1>3. v.route = w.route
  BY DEF GrownBy
<1>. QED
  BY <1>1, <1>2, <1>3 DEF Between, Inside, Routed

(* Subscribe adds to a call what it owes.                                  *)
LEMMA SubscribeWalk ==
  ASSUME FrameTypeOK, NEW h \in Handlers, Subscribe(h), NEW w \in Walks, NEW v \in Walks,
         GrownBy(w, h, v), v.pos = w.pos, v.dangling = w.dangling
  PROVE  /\ Between(subs, w) => Between(subs', v)
         /\ Inside(subs, w) => Inside(subs', v)
<1>2. PICK s \in [Lists -> Seq(Handlers)] : s = subs
  BY DEF FrameTypeOK
<1>3. PICK r \in [Lists -> Seq(Handlers)] : r = subs'
  BY SubscribeTypes
<1>4. Subscribing(s, r, h)
  BY <1>2, <1>3 DEF Subscribe, Subscribing
<1>5. (Between(s, w) => Between(r, v)) /\ (Inside(s, w) => Inside(r, v))
  BY <1>4, SubscribeGoesOn
<1>. QED
  BY <1>2, <1>3, <1>5

(* Every step without undefined behaviour leaves each call with what it    *)
(* owes.                                                                   *)
LEMMA NextDelivery == FrameInv /\ [Next]_vars /\ ~broken' => Delivery'
<1>. SUFFICES ASSUME FrameInv, [Next]_vars, ~broken' PROVE Delivery'
  OBVIOUS
<1>0. /\ FrameTypeOK /\ Nest /\ Subscribed
      /\ stack \in Seq(Walks) /\ Len(stack) \in Nat /\ \A i \in 1..Len(stack) : stack[i] \in Walks
      /\ subs \in [Lists -> Seq(Handlers)]
  BY DEF FrameInv, FrameTypeOK
<1>00. Placed /\ Delivery
  <2>1. ~broken
    BY DEF Next, vars
  <2>. QED
    BY <2>1 DEF FrameInv
<1>1. ASSUME UNCHANGED <<stack, subs>>, frame' = "walk" <=> frame = "walk" PROVE Delivery'
  BY <1>00, <1>1 DEF Delivery
<1>2. ASSUME UNCHANGED <<stack, subs>>, stack = <<>> PROVE Delivery'
  BY <1>2 DEF Delivery
<1>3. ASSUME NEW h \in Handlers, Subscribe(h), UNCHANGED frame PROVE Delivery'
  <2>1. /\ Len(stack') = Len(stack)
        /\ \A i \in 1..Len(stack) :
             stack'[i] = IF Filter[h] \cap Range(stack[i].route) = {} THEN stack[i]
                         ELSE [stack[i] EXCEPT !.due = @ \cup {h}]
    BY <1>0, <1>3, SubscribeTypes
  <2>2. ASSUME NEW i \in 1..Len(stack)
        PROVE  /\ Between(subs, stack[i]) => Between(subs', stack'[i])
               /\ Inside(subs, stack[i]) => Inside(subs', stack'[i])
    <3>1. PICK w \in Walks : w = stack[i]
      BY <1>0
    <3>2. PICK v : v = stack'[i]
      OBVIOUS
    <3>3. v \in Walks /\ v.pos = w.pos /\ v.dangling = w.dangling /\ GrownBy(w, h, v)
      <4>1. CASE Filter[h] \cap Range(w.route) = {}
        <5>1. v = w
          BY <2>1, <3>1, <3>2, <4>1
        <5>. QED
          BY <4>1, <5>1 DEF GrownBy
      <4>2. CASE Filter[h] \cap Range(w.route) # {}
        <5>1. v = [w EXCEPT !.due = @ \cup {h}]
          BY <2>1, <3>1, <3>2, <4>2
        <5>. QED
          BY <4>2, <5>1 DEF Walks, GrownBy
      <4>. QED
        BY <4>1, <4>2
    <3>. QED
      BY <1>0, <1>3, <3>1, <3>2, <3>3, SubscribeWalk
  <2>. QED
    BY <1>00, <1>3, <2>1, <2>2 DEF Delivery
<1>4. ASSUME NEW h \in Handlers, HandlerErases(h) PROVE Delivery'
  <2>1. DeSubscribe(h) /\ frame = "in" /\ frame' = "out"
    BY <1>4 DEF HandlerErases
  <2>2. Len(stack') = Len(stack) /\ \A i \in 1..Len(stack) : stack'[i] = Erased(stack[i], h)
    BY <1>0, <2>1, DeSubscribeTypes
  <2>3. \A i \in 1..Len(stack) : Inside(subs, stack[i])
    BY <1>00, <2>1 DEF Delivery
  <2>4. ASSUME NEW i \in 1..Len(stack) PROVE Inside(subs', stack'[i])
    BY <1>0, <2>1, <2>2, <2>3, EraseWalk
  <2>. QED
    BY <2>1, <2>2, <2>4 DEF Delivery
<1>5. ASSUME stack # <<>>, Len(stack') = Len(stack), UNCHANGED subs,
             \A i \in 1..(Len(stack) - 1) : stack'[i] = stack[i],
             IF frame' = "walk" THEN Between(subs, stack'[Len(stack)])
             ELSE Inside(subs, stack'[Len(stack)])
      PROVE  Delivery'
  <2>1. Len(stack) \in Nat \ {0} /\ \A i \in 1..Len(stack) : i # Len(stack) => i \in 1..(Len(stack) - 1)
    BY <1>0, <1>5, TopFacts
  <2>2. \A i \in 1..Len(stack) : i # Len(stack) => Inside(subs, stack'[i])
    BY <1>00, <1>5, <2>1 DEF Delivery
  <2>. QED
    BY <1>5, <2>1, <2>2 DEF Delivery
<1>6. CASE CallHandler
  <2>1. /\ stack # <<>> /\ Top \in Walks /\ Top = stack[Len(stack)] /\ Len(stack') = Len(stack)
        /\ \A i \in 1..(Len(stack) - 1) : stack'[i] = stack[i]
        /\ stack'[Len(stack)] = [Top EXCEPT !.due = @ \ {subs[Head(Top.route)][Top.pos]}]
    BY <1>0, <1>6, CallTop
  <2>2. PICK w \in Walks : w = Top
    BY <2>1
  <2>3. PICK v : v = stack'[Len(stack)]
    OBVIOUS
  <2>4. PICK h : h = subs[Head(w.route)][w.pos]
    OBVIOUS
  <2>5. v \in Walks /\ v.route = w.route /\ v.pos = w.pos /\ v.due = w.due \ {h}
    BY <2>1, <2>2, <2>3, <2>4 DEF Walks
  <2>6. /\ Between(subs, w) /\ w.route # <<>> /\ w.pos <= Len(subs[Head(w.route)])
    <3>1. Len(stack) \in 1..Len(stack)
      BY <1>0, <2>1, TopFacts
    <3>. QED
      BY <1>00, <1>6, <2>1, <2>2, <3>1 DEF CallHandler, Delivery
  <2>7. /\ Head(w.route) \in Lists /\ Head(w.route) = w.route[1] /\ DOMAIN w.route = 1..Len(w.route)
        /\ Len(w.route) \in Nat \ {0} /\ \A k \in 2..Len(w.route) : w.route[k] \in Lists
    BY <2>6, RouteFacts
  <2>8. IsInjective(subs[Head(w.route)]) /\ h \in Range(subs[Head(w.route)]) /\ h \in Handlers
    BY <1>0, <2>2, <2>4, <2>6, <2>7 DEF Subscribed, Range, Walks
  <2>9. \A k \in 2..Len(w.route) : h \notin Range(subs[w.route[k]])
    <3>. SUFFICES ASSUME NEW k \in 2..Len(w.route), h \in Range(subs[w.route[k]]) PROVE FALSE
      OBVIOUS
    <3>1. Head(w.route) \in Filter[h] /\ w.route[k] \in Filter[h] /\ w.route[k] \in Categories
      BY <1>0, <2>6, <2>7, <2>8 DEF Subscribed, Between, Routed
    <3>2. PICK c \in Categories : Filter[h] = {c}
      BY <2>8, <3>1, RenderFrameAssumption
    <3>3. w.route[k] # w.route[1]
      BY <2>6, <2>7 DEF Between, Routed, IsInjective
    <3>. QED
      BY <2>7, <3>1, <3>2, <3>3
  <2>10. Inside(subs, v)
    BY <1>0, <2>4, <2>5, <2>6, <2>8, <2>9, CallInside
  <2>. QED
    BY <1>5, <1>6, <2>1, <2>3, <2>10 DEF CallHandler, subVars
<1>7. CASE HandlerReturns
  <2>1. /\ stack # <<>> /\ Top \in Walks /\ Top = stack[Len(stack)] /\ Len(stack') = Len(stack)
        /\ \A i \in 1..(Len(stack) - 1) : stack'[i] = stack[i]
        /\ stack'[Len(stack)] = [Top EXCEPT !.pos = @ + 1]
    BY <1>0, <1>7, ReturnTop
  <2>2. PICK w \in Walks : w = Top
    BY <2>1
  <2>3. PICK v : v = stack'[Len(stack)]
    OBVIOUS
  <2>4. v \in Walks /\ v.route = w.route /\ v.pos = w.pos + 1 /\ v.due = w.due /\ v.dangling = w.dangling
    BY <2>1, <2>2, <2>3 DEF Walks
  <2>5. Inside(subs, w) /\ ~w.dangling
    <3>1. Len(stack) \in 1..Len(stack)
      BY <1>0, <2>1, TopFacts
    <3>. QED
      BY <1>00, <1>7, <2>1, <2>2, <3>1 DEF HandlerReturns, Delivery
  <2>6. Between(subs, v)
    BY <2>4, <2>5, ReturnBetween
  <2>. QED
    BY <1>5, <1>7, <2>1, <2>3, <2>6 DEF HandlerReturns, subVars
<1>8. CASE NextList
  <2>1. /\ stack # <<>> /\ Top \in Walks /\ Top = stack[Len(stack)] /\ Len(stack') = Len(stack)
        /\ \A i \in 1..(Len(stack) - 1) : stack'[i] = stack[i]
        /\ stack'[Len(stack)] = [Top EXCEPT !.route = Tail(@), !.pos = 1]
        /\ Top.route # <<>> /\ Tail(Top.route) \in Seq(Lists)
    BY <1>0, <1>8, ListTop
  <2>2. PICK w \in Walks : w = Top
    BY <2>1
  <2>3. PICK v : v = stack'[Len(stack)]
    OBVIOUS
  <2>4. /\ v \in Walks /\ v.route = Tail(w.route) /\ v.pos = 1 /\ v.due = w.due
        /\ v.dangling = w.dangling
    BY <2>1, <2>2, <2>3, WalkOn
  <2>5. Between(subs, w) /\ w.route # <<>> /\ w.pos > Len(subs[Head(w.route)])
    <3>1. Len(stack) \in 1..Len(stack)
      BY <1>0, <2>1, TopFacts
    <3>. QED
      BY <1>00, <1>8, <2>1, <2>2, <3>1 DEF NextList, Delivery
  <2>6. Between(subs, v)
    BY <1>0, <2>4, <2>5, ListBetween
  <2>. QED
    BY <1>5, <1>8, <2>1, <2>3, <2>6 DEF NextList, subVars
<1>9. CASE Handle
  <2>1. /\ Head(queue) \in Tasks /\ msg[Head(queue)] \in Messages /\ UNCHANGED subs
        /\ frame' = "walk" /\ stack' = <<Walk(Head(queue), msg[Head(queue)], FALSE)>>
    BY <1>0, <1>00, <1>9, QueuedFacts DEF Handle, subVars
  <2>2. PICK w : w = Walk(Head(queue), msg[Head(queue)], FALSE)
    OBVIOUS
  <2>3. Between(subs, w)
    BY <1>0, <2>1, <2>2, WalkBetween
  <2>4. \A i \in 1..Len(stack') : i = Len(stack') /\ stack'[i] = w
    <3>1. stack' = <<w>>
      BY <2>1, <2>2
    <3>2. Len(stack') = 1 /\ stack'[1] = w
      BY <3>1
    <3>. QED
      BY <3>2
  <2>. QED
    BY <2>1, <2>3, <2>4 DEF Delivery
<1>10. ASSUME NEW t \in Tasks, NEW m \in Messages, BroadcastTask(t, m) PROVE Delivery'
  <2>1. m.class # Null /\ frame = "in" /\ frame' = "walk" /\ UNCHANGED subs
    BY <1>10 DEF BroadcastTask, subVars
  <2>3. PICK w : w = Walk(t, m, TRUE)
    OBVIOUS
  <2>n. PICK n \in Nat \ {0} : n = Len(stack)
    BY <1>0, <1>10, <2>1, BroadcastTop
  <2>2. Len(stack') = n + 1 /\ stack'[n + 1] = w /\ \A i \in 1..n : stack'[i] = stack[i]
    BY <1>0, <1>10, <2>1, <2>3, <2>n, BroadcastTop
  <2>4. Between(subs, w)
    BY <1>0, <2>3, WalkBetween
  <2>5. \A i \in 1..n : Inside(subs, stack[i])
    BY <1>00, <2>1, <2>n DEF Delivery
  <2>i. \A i \in 1..(n + 1) : i = n + 1 \/ (i # n + 1 /\ i \in 1..n)
    BY <2>n
  <2>6. \A i \in 1..Len(stack') :
          \/ i = Len(stack') /\ stack'[i] = w
          \/ i # Len(stack') /\ Inside(subs, stack'[i])
    BY <2>2, <2>5, <2>i
  <2>. QED
    BY <2>1, <2>4, <2>6 DEF Delivery
<1>11. CASE EndBroadcast \/ EndHandle
  <2>1. stack # <<>> /\ frame = "walk" /\ frame' # "walk" /\ UNCHANGED subs /\ stack' = Pop
    BY <1>0, <1>11 DEF EndBroadcast, EndHandle, subVars, Nest
  <2>2. /\ Len(stack) \in Nat \ {0} /\ Len(stack') = Len(stack) - 1
        /\ \A i \in 1..(Len(stack) - 1) : stack'[i] = stack[i]
    BY <1>0, <2>1, TopFacts
  <2>3. \A i \in 1..(Len(stack) - 1) : i \in 1..Len(stack) /\ i # Len(stack)
    BY <2>2
  <2>. QED
    BY <1>00, <2>1, <2>2, <2>3 DEF Delivery
<1>12. ASSUME NEW t \in Tasks, NEW m \in Messages, NEW who \in {"main", "worker"}, Post(t, m, who)
       PROVE Delivery'
  BY <1>1, <1>12 DEF Post, subVars
<1>13. ASSUME NEW f \in Funcs, AddFunc(f) PROVE Delivery'
  BY <1>1, <1>13 DEF AddFunc, subVars
<1>14. ASSUME NEW t \in Tasks, Finishing(t) PROVE Delivery'
  <2>1. CASE OnFinish(t)
    BY <1>1, <2>1 DEF OnFinish, subVars
  <2>2. ASSUME NEW w \in finishing, FinishNext(w) PROVE Delivery'
    BY <1>1, <2>2 DEF FinishNext, subVars
  <2>3. ASSUME NEW w \in finishing, ReleaseReturned(w) PROVE Delivery'
    <3>1. frame' = "walk" <=> frame = "walk"
      BY <2>3 DEF ReleaseReturned, Finisher
    <3>. QED
      BY <1>1, <2>3, <3>1 DEF ReleaseReturned, subVars
  <2>. QED
    BY <1>14, <2>1, <2>2, <2>3 DEF Finishing
<1>15. ASSUME NEW h \in Handlers, Subscribe0(h) PROVE Delivery'
  BY <1>3, <1>15 DEF Subscribe0
<1>16. CASE BeginFrame \/ ThreadExit \/ EndDrain \/ RunFuncs \/ DestroyRunner
  BY <1>1, <1>16 DEF BeginFrame, ThreadExit, EndDrain, RunFuncs, DestroyRunner, subVars
<1>17. ASSUME NEW t \in Tasks, NEW m \in Messages, HandlerSends(t, m) PROVE Delivery'
  BY <1>1, <1>17 DEF HandlerSends, subVars
<1>18. CASE CallJavaScript \/ MainServes
  BY <1>1, <1>18 DEF CallJavaScript, MainServes, subVars
<1>19. CASE StartFrame \/ DestroyReact \/ StopFrame \/ Join
  BY <1>0, <1>1, <1>19 DEF StartFrame, DestroyReact, StopFrame, Join, subVars, Nest
<1>20. CASE InitReact
  BY <1>3, <1>20, RenderFrameAssumption DEF InitReact
<1>21. CASE UNCHANGED vars
  BY <1>1, <1>21 DEF vars, subVars
<1>. QED
  BY <1>4, <1>6, <1>7, <1>8, <1>9, <1>10, <1>11, <1>12, <1>13, <1>14, <1>15, <1>16, <1>17, <1>18,
     <1>19, <1>20, <1>21
  DEF Next, FrameStep, HandlerStep, MainStep

-----------------------------------------------------------------------------
(* The contract.                                                           *)

(* While the users keep to it, no Task is anywhere unless all services run.*)
LEMMA KeptFacts ==
  ASSUME FrameInv, contract
  PROVE  /\ Kept /\ Placed /\ Finished /\ Delivery /\ ~broken
         /\ finishing # {} => returned # {} /\ Live # {}
         /\ main # "running" => Live = {} /\ stack = <<>> /\ queue = <<>> /\ returned = {}
         /\ Live # {} \/ stack # <<>> \/ queue # <<>> => main = "running" /\ freed = {}
<1>1. /\ Kept /\ Placed /\ Finished /\ Delivery /\ ~broken
      /\ stack \in Seq(Walks) /\ queue \in Seq(Tasks)
  BY DEF FrameInv, Kept, FrameTypeOK
<1>5. finishing # {} => returned # {} /\ Live # {}
  BY <1>1 DEF Finished, Placed
<1>2. stack # <<>> => stack[1].task \in Walked
  BY <1>1 DEF Walked
<1>3. queue # <<>> => Head(queue) \in Range(queue)
  BY <1>1, TailOnce
<1>4. Live = {} => stack = <<>> /\ queue = <<>> /\ returned = {}
  BY <1>1, <1>2, <1>3 DEF Placed
<1>. QED
  BY <1>1, <1>4, <1>5 DEF Kept

(* A worker's walk never dangles: nothing is erased while there is one.    *)
LEMMA NextLoose ==
  ASSUME FrameInv, contract, [Next]_vars
  PROVE  \A w \in finishing' : ~w.dangling
<1>. DEFINE Loose == \A w \in finishing' : ~w.dangling
<1>00. FrameTypeOK /\ Kept /\ Placed /\ Finished /\ (finishing # {} => returned # {})
  BY KeptFacts DEF FrameInv
<1>1. ASSUME UNCHANGED finishing PROVE Loose
  BY <1>00, <1>1 DEF Kept
<1>2. ASSUME NEW t \in Tasks, OnFinish(t) PROVE Loose
  <2>1. t \in Live
    BY <1>00, <1>2 DEF OnFinish, Placed
  <2>2. PICK v \in Finishes : ~v.dangling /\ finishing' = finishing \cup {v}
    BY <1>00, <1>2, <2>1, OnFinishFacts
  <2>. QED
    BY <1>00, <2>2 DEF Kept
<1>3. ASSUME NEW w \in finishing, FinishNext(w) PROVE Loose
  <2>1. PICK v \in Finishes : v.dangling = w.dangling /\ finishing' = (finishing \ {w}) \cup {v}
    BY <1>00, <1>3, FinishFacts
  <2>. QED
    BY <1>00, <2>1 DEF Kept
<1>4. ASSUME NEW w \in finishing, ReleaseReturned(w) PROVE Loose
  BY <1>00, <1>4 DEF ReleaseReturned, Kept
<1>5. ASSUME NEW h \in Handlers, HandlerErases(h) PROVE Loose
  <2>1. finishing = {}
    BY <1>00, <1>5 DEF HandlerErases, MayErase
  <2>. QED
    BY <1>5, <2>1 DEF HandlerErases, DeSubscribe
<1>6. ASSUME NEW t \in Tasks, NEW m \in Messages, NEW who \in {"main", "worker"}, Post(t, m, who)
      PROVE Loose
  BY <1>1, <1>6 DEF Post, SendTaskAsync
<1>7. ASSUME NEW f \in Funcs, AddFunc(f) PROVE Loose
  BY <1>1, <1>7 DEF AddFunc, taskVars
<1>8. ASSUME NEW h \in Handlers, Subscribe0(h) PROVE Loose
  BY <1>1, <1>8 DEF Subscribe0, taskVars
<1>9. ASSUME NEW t \in Tasks, NEW m \in Messages, HandlerSends(t, m) \/ BroadcastTask(t, m)
      PROVE Loose
  BY <1>1, <1>9 DEF HandlerSends, SendTaskAsync, BroadcastTask
<1>10. CASE CallJavaScript \/ MainServes \/ BeginFrame \/ ThreadExit \/ EndDrain \/ RunFuncs
  BY <1>1, <1>10 DEF CallJavaScript, MainServes, BeginFrame, ThreadExit, EndDrain, RunFuncs, taskVars
<1>11. CASE \/ Handle \/ CallHandler \/ HandlerReturns \/ NextList
            \/ EndBroadcast \/ EndHandle \/ DestroyRunner
  BY <1>1, <1>11
  DEF Handle, CallHandler, HandlerReturns, NextList, EndBroadcast, EndHandle, DestroyRunner, taskVars
<1>12. CASE MainStep
  BY <1>1, <1>12 DEF MainStep, StartFrame, InitReact, DestroyReact, StopFrame, Join, taskVars
<1>13. CASE UNCHANGED vars
  BY <1>1, <1>13 DEF vars, taskVars
<1>. QED
  BY <1>2, <1>3, <1>4, <1>5, <1>6, <1>7, <1>8, <1>9, <1>10, <1>11, <1>12, <1>13
  DEF Next, FrameStep, HandlerStep, Finishing

(* Every step preserves what the contract keeps up.                        *)
LEMMA NextKept == FrameInv /\ [Next]_vars /\ contract' => Kept'
<1>. SUFFICES ASSUME FrameInv, [Next]_vars, contract' PROVE Kept'
  OBVIOUS
<1>c. contract
  BY DEF Next, FrameStep, HandlerStep, MainStep, Post, AddFunc, Finishing, OnFinish, FinishNext,
     ReleaseReturned, Subscribe0,
     BeginFrame, ThreadExit, MainServes, Handle, CallHandler, HandlerReturns, NextList,
     EndBroadcast, EndHandle, EndDrain, RunFuncs, DestroyRunner, HandlerErases, HandlerSends,
     BroadcastTask, CallJavaScript, StartFrame, InitReact, DestroyReact, StopFrame, Join, vars
<1>0. /\ FrameTypeOK /\ Nest /\ Subscribed
      /\ stack \in Seq(Walks) /\ Len(stack) \in Nat /\ \A i \in 1..Len(stack) : stack[i] \in Walks
  BY DEF FrameInv, FrameTypeOK
<1>k. /\ Kept /\ Placed /\ Finished /\ Delivery /\ ~broken
      /\ finishing # {} => returned # {} /\ Live # {}
      /\ main # "running" => Live = {} /\ stack = <<>> /\ queue = <<>> /\ returned = {}
      /\ Live # {} \/ stack # <<>> \/ queue # <<>> => main = "running" /\ freed = {}
  BY <1>c, KeptFacts
<1>f. \A w \in finishing' : ~w.dangling
  BY <1>c, NextLoose
<1>. DEFINE Undangling == \A i \in 1..Len(stack') : ~stack'[i].dangling
<1>1. ASSUME UNCHANGED <<main, freed, msg>>, ~broken', Undangling PROVE Kept'
  BY <1>f, <1>k, <1>1 DEF Kept, Live
<1>2. ASSUME UNCHANGED stack PROVE Undangling
  BY <1>k, <1>2 DEF Kept
<1>3. ASSUME NEW t \in Tasks, NEW m \in Messages, main = "running", m.class # Null,
             msg' = [msg EXCEPT ![t] = m], UNCHANGED <<main, freed>>, ~broken', Undangling
      PROVE  Kept'
  BY <1>0, <1>f, <1>k, <1>3 DEF Kept, Live, FrameTypeOK
<1>4. ASSUME NEW t \in Tasks, msg' = [msg EXCEPT ![t] = Null], UNCHANGED <<main, freed>>, ~broken',
             Undangling
      PROVE  Kept'
  BY <1>0, <1>f, <1>k, <1>4 DEF Kept, Live, FrameTypeOK
<1>5. ASSUME NEW h \in Handlers, Subscribe(h) PROVE Undangling
  <2>1. /\ Len(stack') = Len(stack)
        /\ \A i \in 1..Len(stack) :
             stack'[i] = IF Filter[h] \cap Range(stack[i].route) = {} THEN stack[i]
                         ELSE [stack[i] EXCEPT !.due = @ \cup {h}]
    BY <1>0, <1>5, SubscribeTypes
  <2>2. \A i \in 1..Len(stack) : [stack[i] EXCEPT !.due = @ \cup {h}].dangling = stack[i].dangling
    BY <1>0 DEF Walks
  <2>. QED
    BY <1>k, <2>1, <2>2 DEF Kept
<1>6. ASSUME NEW h \in Handlers, HandlerErases(h) PROVE Kept'
  <2>1. /\ DeSubscribe(h) /\ UNCHANGED <<main, freed, msg>>
        /\ returned = {}
        /\ \A i \in 1..Len(stack) :
             ~StandsOn(stack[i], h) /\ (AtClass(stack[i]) => Filter[h] \subseteq Categories)
    BY <1>c, <1>6 DEF HandlerErases, MayErase
  <2>2. ~broken'
    <3>1. finishing = {}
      BY <1>k, <2>1
    <3>2. ~Disturbed(h)
      BY <2>1, <3>1 DEF Disturbed
    <3>. QED
      BY <2>1, <3>2 DEF DeSubscribe
  <2>3. Len(stack') = Len(stack) /\ \A i \in 1..Len(stack) : stack'[i] = Erased(stack[i], h)
    BY <1>0, <2>1, DeSubscribeTypes
  <2>4. ASSUME NEW i \in 1..Len(stack) PROVE ~Erased(stack[i], h).dangling
    <3>1. PICK w \in Walks : w = stack[i]
      BY <1>0
    <3>2. ~w.dangling /\ ~StandsOn(w, h)
      BY <1>k, <2>1, <3>1 DEF Kept
    <3>3. ~Erased(w, h).dangling
      BY <3>2, ErasedElsewhere
    <3>. QED
      BY <3>1, <3>3
  <2>. QED
    BY <1>1, <2>1, <2>2, <2>3, <2>4
<1>7. ASSUME NEW t \in Tasks, NEW m \in Messages, NEW who \in {"main", "worker", "frame"},
             SendTaskAsync(t, m, who), UNCHANGED <<main, stack, freed>>
      PROVE  Kept'
  <2>1. main = "running" /\ m.class # Null /\ msg' = [msg EXCEPT ![t] = m]
    BY <1>c, <1>7 DEF SendTaskAsync, MayPost
  <2>2. ~broken'
    BY <1>0, <1>7, <2>1 DEF SendTaskAsync, Nest
  <2>. QED
    BY <1>2, <1>3, <1>7, <2>1, <2>2
<1>8. ASSUME NEW t \in Tasks, NEW m \in Messages, NEW who \in {"main", "worker"}, Post(t, m, who)
      PROVE Kept'
  BY <1>7, <1>8 DEF Post, subVars
<1>9. ASSUME NEW t \in Tasks, NEW m \in Messages, HandlerSends(t, m) PROVE Kept'
  BY <1>7, <1>9 DEF HandlerSends, subVars
<1>10. ASSUME NEW t \in Tasks, Finishing(t) PROVE Kept'
  <2>1. CASE OnFinish(t)
    BY <1>1, <1>2, <1>k, <2>1 DEF OnFinish, subVars
  <2>2. ASSUME NEW w \in finishing, FinishNext(w) PROVE Kept'
    <3>1. freed = {}
      BY <1>k, <2>2
    <3>2. ~w.dangling
      BY <1>k, <2>2 DEF Kept
    <3>3. ~broken'
      BY <2>2, <3>1, <3>2 DEF FinishNext
    <3>. QED
      BY <1>1, <1>2, <2>2, <3>3 DEF FinishNext, subVars
  <2>3. ASSUME NEW w \in finishing, ReleaseReturned(w) PROVE Kept'
    <3>1. w.task \in Tasks
      BY <1>0, <2>3 DEF FrameTypeOK, Finishes
    <3>. QED
      BY <1>2, <1>4, <1>k, <2>3, <3>1 DEF ReleaseReturned, Release, subVars
  <2>. QED
    BY <1>10, <2>1, <2>2, <2>3 DEF Finishing
<1>11. CASE Handle
  <2>1. /\ queue # <<>> /\ Head(queue) \in Tasks /\ msg[Head(queue)] \in Messages
        /\ Head(queue) \in Live
    BY <1>0, <1>k, <1>11, QueuedFacts DEF Handle, Placed
  <2>2. msg[Head(queue)].class # Null
    BY <1>k, <2>1 DEF Kept
  <2>3. PICK w : w = Walk(Head(queue), msg[Head(queue)], FALSE)
    OBVIOUS
  <2>4. w.dangling = FALSE
    BY <1>0, <2>1, <2>3, WalkFacts
  <2>5. stack' = <<w>>
    BY <1>11, <2>2, <2>3 DEF Handle
  <2>6. Undangling
    BY <2>4, <2>5
  <2>. QED
    BY <1>1, <1>k, <1>11, <2>2, <2>6 DEF Handle, subVars
<1>12. ASSUME stack # <<>>, Len(stack') = Len(stack),
              \A i \in 1..(Len(stack) - 1) : stack'[i] = stack[i], ~stack'[Len(stack)].dangling
       PROVE  Undangling
  <2>1. Len(stack) \in Nat \ {0} /\ \A i \in 1..Len(stack) : i # Len(stack) => i \in 1..(Len(stack) - 1)
    BY <1>0, <1>12, TopFacts
  <2>. QED
    BY <1>k, <1>12, <2>1 DEF Kept
<1>13. ASSUME stack # <<>> PROVE ~Top.dangling /\ Top \in Walks
  BY <1>0, <1>k, <1>13, TopFacts DEF Kept
<1>14. CASE CallHandler
  <2>1. stack # <<>> /\ freed = {}
    BY <1>0, <1>k, <1>14, CallTop
  <2>2. ~stack'[Len(stack)].dangling
    BY <1>0, <1>13, <1>14, <2>1, CallTop DEF Walks
  <2>. QED
    BY <1>0, <1>1, <1>12, <1>14, <2>1, <2>2, CallTop DEF CallHandler, taskVars, subVars
<1>15. CASE HandlerReturns
  <2>1. ~stack'[Len(stack)].dangling
    BY <1>0, <1>13, <1>15, ReturnTop DEF Walks
  <2>. QED
    BY <1>0, <1>1, <1>12, <1>13, <1>15, <2>1, ReturnTop DEF HandlerReturns, taskVars, subVars
<1>16. CASE NextList
  <2>1. ~stack'[Len(stack)].dangling
    BY <1>0, <1>13, <1>16, ListTop, WalkOn
  <2>. QED
    BY <1>0, <1>1, <1>k, <1>12, <1>16, <2>1, ListTop DEF NextList, taskVars, subVars
<1>17. ASSUME NEW t \in Tasks, NEW m \in Messages, BroadcastTask(t, m) PROVE Kept'
  <2>1. m.class # Null /\ msg' = [msg EXCEPT ![t] = m] /\ ~broken' /\ UNCHANGED <<main, freed>>
    BY <1>c, <1>k, <1>17 DEF BroadcastTask, subVars
  <2>2. /\ stack # <<>> /\ Len(stack') = Len(stack) + 1 /\ stack'[Len(stack) + 1] = Walk(t, m, TRUE)
        /\ \A i \in 1..Len(stack) : stack'[i] = stack[i]
    BY <1>0, <1>17, <2>1, BroadcastTop, EmptySeq
  <2>3. Walk(t, m, TRUE).dangling = FALSE
    BY <1>0, WalkFacts
  <2>4. \A i \in 1..(Len(stack) + 1) : i = Len(stack) + 1 \/ i \in 1..Len(stack)
    BY <1>0
  <2>5. Undangling
    BY <1>k, <2>2, <2>3, <2>4 DEF Kept
  <2>6. main = "running"
    BY <1>k, <2>2
  <2>. QED
    BY <1>3, <2>1, <2>5, <2>6
<1>18. CASE EndBroadcast \/ EndHandle
  <2>1. stack # <<>> /\ stack' = Pop /\ UNCHANGED <<main, freed>>
    BY <1>0, <1>18 DEF EndBroadcast, EndHandle, subVars, Nest
  <2>2. Undangling
    BY <1>0, <1>k, <2>1, TopFacts DEF Kept
  <2>3. Top.task \in Tasks
    BY <1>13, <2>1 DEF Walks
  <2>4. ~broken'
    BY <1>k, <1>18 DEF EndBroadcast, EndHandle
  <2>5. msg' = msg \/ msg' = [msg EXCEPT ![Top.task] = Null]
    BY <1>18 DEF EndBroadcast, EndHandle, Release
  <2>. QED
    BY <1>1, <1>4, <2>1, <2>2, <2>3, <2>4, <2>5
<1>19. CASE DestroyRunner
  <2>1. queue = <<>> /\ UNCHANGED <<main, freed, stack>>
    BY <1>0, <1>k, <1>19 DEF DestroyRunner, Nest, subVars
  <2>2. Range(queue) = {}
    BY <2>1 DEF Range
  <2>3. msg' = msg /\ ~broken'
    BY <1>0, <1>19, <2>1, <2>2 DEF DestroyRunner, FrameTypeOK
  <2>. QED
    BY <1>1, <1>2, <2>1, <2>3
<1>20. CASE DestroyReact
  <2>1. main' = "closing" /\ Live = {} /\ UNCHANGED <<msg, stack, broken>>
    BY <1>c, <1>20 DEF DestroyReact, MayEnd, taskVars
  <2>. QED
    BY <1>2, <1>f, <1>k, <2>1 DEF Kept, Live
<1>21. CASE StartFrame \/ StopFrame \/ Join
  <2>1. /\ main # "running" /\ main' # "running" /\ UNCHANGED <<msg, stack, broken, freed>>
        /\ main' \in {"boot", "started", "running"} => main \in {"boot", "started", "running"}
    BY <1>21 DEF StartFrame, StopFrame, Join, taskVars, subVars
  <2>. QED
    BY <1>2, <1>f, <1>k, <2>1 DEF Kept, Live
<1>22. CASE InitReact
  <2>1. /\ main = "started" /\ main' = "running" /\ Subscribe(React) /\ React \in Handlers
        /\ UNCHANGED <<msg, freed>>
    BY <1>22, RenderFrameAssumption DEF InitReact, taskVars
  <2>2. ~broken'
    BY <1>k, <1>22, <2>1 DEF InitReact
  <2>. QED
    BY <1>5, <1>f, <1>k, <2>1, <2>2 DEF Kept, Live
<1>23. ASSUME NEW h \in Handlers, Subscribe0(h) PROVE Kept'
  BY <1>1, <1>5, <1>k, <1>23 DEF Subscribe0, taskVars
<1>24. ASSUME NEW f \in Funcs, AddFunc(f) PROVE Kept'
  BY <1>1, <1>2, <1>k, <1>24 DEF AddFunc, taskVars, subVars
<1>25. CASE BeginFrame \/ ThreadExit \/ EndDrain \/ RunFuncs \/ CallJavaScript \/ MainServes
  BY <1>1, <1>2, <1>k, <1>25
  DEF BeginFrame, ThreadExit, EndDrain, RunFuncs, CallJavaScript, MainServes, taskVars, subVars
<1>26. CASE UNCHANGED vars
  BY <1>1, <1>2, <1>k, <1>26 DEF vars, taskVars, subVars
<1>. QED
  BY <1>6, <1>8, <1>9, <1>10, <1>11, <1>14, <1>15, <1>16, <1>17, <1>18, <1>19, <1>20, <1>21, <1>22,
     <1>23, <1>24, <1>25, <1>26
  DEF Next, FrameStep, HandlerStep, MainStep

-----------------------------------------------------------------------------
(* Theorems.                                                               *)

LEMMA InitFrameInv == Init => FrameInv
<1>. SUFFICES ASSUME Init PROVE FrameInv
  OBVIOUS
<1>1. FrameTypeOK
  <2>1. stack \in Seq(Walks) /\ queue \in Seq(Tasks) /\ subs \in [Lists -> Seq(Handlers)]
    BY DEF Init
  <2>2. /\ contract \in BOOLEAN /\ main = "boot" /\ frame \in Frames /\ broken \in BOOLEAN
        /\ msg \in [Tasks -> Messages \cup {Null}] /\ home \in [Tasks -> {"main", "frame", "worker"}]
    BY DEF Init, Frames
  <2>3. /\ func \in [Funcs -> {"none", "queued", "run"}]
        /\ dropped \subseteq Tasks /\ returned \subseteq Tasks /\ freed \subseteq Handlers
        /\ finishing \subseteq Finishes
    BY DEF Init
  <2>. QED
    BY <2>1, <2>2, <2>3 DEF FrameTypeOK
<1>2. Nest
  BY DEF Init, Nest
<1>3. \A l \in Lists : subs[l] = <<>>
  BY DEF Init
<1>4. IsInjective(<<>>) /\ Range(<<>>) = {}
  BY DEF IsInjective, Range
<1>5. Subscribed
  BY <1>3, <1>4 DEF Subscribed
<1>6. Live = {} /\ Walked = {}
  BY DEF Init, Live, Walked
<1>7. Placed /\ Finished
  BY <1>4, <1>6, FS_EmptySet DEF Init, Placed, Finished
<1>8. Delivery /\ Kept
  BY <1>6 DEF Init, Delivery, Kept
<1>. QED
  BY <1>1, <1>2, <1>5, <1>7, <1>8 DEF FrameInv

LEMMA NextFrameInv == FrameInv /\ [Next]_vars => FrameInv'
BY NextFrameTypes, NextNest, NextSubscribed, NextPlaced, NextFinished, NextDelivery, NextKept DEF FrameInv

LEMMA FrameInvariant == Spec => []FrameInv
BY InitFrameInv, NextFrameInv, PTL DEF Spec

(* EventDispatcher::Handle calls every handler that was subscribed when    *)
(* the call began, once, unless an earlier one took it away, however       *)
(* handlers erase each other and broadcast.                                *)
THEOREM HandlersAreCalledOnce == Spec => []DeliveredOnce
<1>1. FrameInv => DeliveredOnce
  <2>. SUFFICES ASSUME FrameInv, ~broken, NEW i \in 1..Len(stack), NEW w, w = stack[i]
       PROVE  /\ w.route = <<>> => w.due = {}
              /\ frame = "walk" /\ i = Len(stack) /\ w.route # <<>> =>
                   \A j \in w.pos..Len(subs[Head(w.route)]) : subs[Head(w.route)][j] \in w.due
    BY DEF DeliveredOnce
  <2>1. w \in Walks /\ subs \in [Lists -> Seq(Handlers)]
    BY DEF FrameInv, FrameTypeOK
  <2>2. IF frame = "walk" /\ i = Len(stack) THEN Between(subs, w) ELSE Inside(subs, w)
    BY DEF FrameInv, Delivery
  <2>3. ASSUME w.route = <<>> PROVE w.due = {}
    <3>1. Owes(subs, w, w.pos)
      BY <2>2, <2>3 DEF Inside, Between
    <3>2. \A h : ~Ahead(subs, w, w.pos, h)
      BY <2>3 DEF Ahead
    <3>. QED
      BY <2>1, <3>1, <3>2 DEF Owes, Walks
  <2>4. ASSUME frame = "walk", i = Len(stack), w.route # <<>>,
               NEW j \in w.pos..Len(subs[Head(w.route)])
        PROVE  subs[Head(w.route)][j] \in w.due
    <3>. DEFINE L == subs[Head(w.route)]
    <3>1. Owes(subs, w, w.pos)
      BY <2>2, <2>4 DEF Between
    <3>2. L \in Seq(Handlers) /\ w.pos \in Nat \ {0}
      BY <2>1, <2>4, RouteFacts DEF Walks
    <3>3. j \in 1..Len(L) /\ j >= w.pos /\ L[j] \in Handlers
      BY <3>2
    <3>4. Rest(L, w.pos, L[j])
      BY <3>3 DEF Rest
    <3>5. Ahead(subs, w, w.pos, L[j])
      BY <2>1, <2>4, <3>4, AheadSplit
    <3>. QED
      BY <3>1, <3>3, <3>5 DEF Owes
  <2>. QED
    BY <2>3, <2>4
<1>. QED
  BY <1>1, FrameInvariant, PTL

(* Sets without a common element add up.                                   *)
LEMMA DisjointUnion ==
  ASSUME NEW S, NEW T, IsFiniteSet(S), IsFiniteSet(T), S \cap T = {}
  PROVE  IsFiniteSet(S \cup T) /\ Cardinality(S \cup T) = Cardinality(S) + Cardinality(T)
<1>1. /\ IsFiniteSet(S \cup T)
      /\ Cardinality(S \cup T) = Cardinality(S) + Cardinality(T) - Cardinality(S \cap T)
  BY FS_Union
<1>2. Cardinality(S \cap T) = 0
  BY FS_EmptySet
<1>3. Cardinality(S) \in Nat /\ Cardinality(T) \in Nat
  BY FS_CardinalityType
<1>. QED
  BY <1>1, <1>2, <1>3

(* A Task that was sent is in one place until it is released, or lost to a *)
(* queue that was full.                                                    *)
THEOREM TasksAreNotLost == Spec => []NothingLost
<1>1. FrameInv => NothingLost
  <2>. SUFFICES ASSUME FrameInv, ~broken
       PROVE  /\ Live = Range(queue) \cup Walked \cup returned \cup dropped
              /\ Cardinality(Live) = Len(queue) + Len(stack) + Cardinality(returned)
                                     + Cardinality(dropped)
    BY DEF NothingLost, Walked
  <2>1. /\ Placed /\ queue \in Seq(Tasks) /\ stack \in Seq(Walks)
        /\ \A i \in 1..Len(stack) : stack[i] \in Walks
    BY DEF FrameInv, FrameTypeOK
  <2>2. IsFiniteSet(Range(queue)) /\ Cardinality(Range(queue)) = Len(queue)
    BY <2>1, InjectiveLen DEF Placed
  <2>3. IsFiniteSet(Walked) /\ Cardinality(Walked) = Len(stack)
    <3>. DEFINE ts == [i \in 1..Len(stack) |-> stack[i].task]
    <3>1. ts \in Seq(Tasks) /\ Len(ts) = Len(stack) /\ DOMAIN ts = 1..Len(stack)
      BY <2>1, SeqDef DEF Walks
    <3>2. Range(ts) = Walked
      BY <3>1 DEF Range, Walked
    <3>3. IsInjective(ts)
      BY <2>1, <3>1 DEF IsInjective, Placed
    <3>. QED
      BY <3>1, <3>2, <3>3, InjectiveLen
  <2>4. IsFiniteSet(returned) /\ IsFiniteSet(dropped)
    BY <2>1 DEF Placed
  <2>5. \A S, T : IsFiniteSet(S) /\ IsFiniteSet(T) /\ S \cap T = {} =>
          IsFiniteSet(S \cup T) /\ Cardinality(S \cup T) = Cardinality(S) + Cardinality(T)
    BY DisjointUnion
  <2>. DEFINE A == Range(queue) \cup Walked
              B == A \cup returned
  <2>6. IsFiniteSet(A) /\ Cardinality(A) = Len(queue) + Len(stack)
    <3>1. Range(queue) \cap Walked = {}
      BY <2>1 DEF Placed
    <3>2. /\ IsFiniteSet(Range(queue) \cup Walked)
          /\ Cardinality(Range(queue) \cup Walked)
               = Cardinality(Range(queue)) + Cardinality(Walked)
      BY <2>2, <2>3, <2>5, <3>1, Zenon
    <3>. QED
      BY <2>2, <2>3, <3>2
  <2>7. A \cap returned = {} /\ B \cap dropped = {}
    BY <2>1 DEF Placed
  <2>. HIDE DEF A
  <2>8. IsFiniteSet(B) /\ Cardinality(B) = Len(queue) + Len(stack) + Cardinality(returned)
    BY <2>4, <2>5, <2>6, <2>7
  <2>9. Live = B \cup dropped
    BY <2>1 DEF Placed, A
  <2>. HIDE DEF B
  <2>10. Cardinality(Live) = Len(queue) + Len(stack) + Cardinality(returned) + Cardinality(dropped)
    BY <2>4, <2>5, <2>7, <2>8, <2>9
  <2>. QED
    BY <2>1, <2>10 DEF Placed
<1>. QED
  BY <1>1, FrameInvariant, PTL

(* The rules MayPost, MayEnd, MayErase and MaySync are enough to keep the  *)
(* frame thread, its handlers and its queue from undefined behaviour.      *)
THEOREM RulesAreEnough == Spec => []ContractSuffices
<1>1. FrameInv => ContractSuffices
  BY DEF FrameInv, Kept, ContractSuffices
<1>. QED
  BY <1>1, FrameInvariant, PTL

-----------------------------------------------------------------------------
(* The web view of Android.                                                *)

AndroidTypeOK ==
  /\ view \in [Views -> {"none", "live", "destroyed", "dropped"}]
  /\ url \in [Views -> Urls \cup {NoUrl}]
  /\ page \in [Views -> {"none", "asked", "loading", "failed", "done"}]
  /\ failed \in [Views -> BOOLEAN]
  /\ seen \in [Views -> Seq({"finish", "error"})]
  /\ messagingEnabled \in [Views -> BOOLEAN]
  /\ bridged \in [Views -> BOOLEAN]

(* mLastLoadFailed says whether the page that is shown has failed: it is   *)
(* what onPageFinished decides by.                                         *)
FailedIsOfPage ==
  \A v \in Views : /\ page[v] = "loading" => ~failed[v]
                   /\ page[v] = "failed" => failed[v]

AndroidInv == AndroidTypeOK /\ FailedIsOfPage /\ LoadEventsPaired

(* No page has been asked for.                                             *)
LEMMA AndroidInitInv == AndroidInit => AndroidInv
BY DEF AndroidInit, AndroidInv, AndroidTypeOK, FailedIsOfPage, LoadEventsPaired

(* The callbacks of a page keep its events paired; the commands only take  *)
(* a view to a state of which nothing is asked.                            *)
LEMMA AndroidNextInv == AndroidInv /\ [AndroidNext]_androidVars => AndroidInv'
<1> SUFFICES ASSUME AndroidInv, [AndroidNext]_androidVars PROVE AndroidInv'
  OBVIOUS
<1> USE DEF AndroidInv
<1>1. ASSUME NEW v \in Views, CreateView(v) PROVE AndroidInv'
  BY <1>1 DEF CreateView, AndroidTypeOK, FailedIsOfPage, LoadEventsPaired
<1>2. ASSUME NEW v \in Views, HostDestroy(v) \/ DropView(v) PROVE AndroidInv'
  BY <1>2 DEF HostDestroy, DropView, Destroy, AndroidTypeOK, FailedIsOfPage, LoadEventsPaired
<1>3. ASSUME NEW v \in Views, ReceiveCommand(v) PROVE AndroidInv'
  BY <1>3 DEF ReceiveCommand, AndroidTypeOK, FailedIsOfPage, LoadEventsPaired
<1>4. ASSUME NEW v \in Views, NEW u \in Urls \cup {NoUrl}, SetSource(v, u) PROVE AndroidInv'
  BY <1>4 DEF SetSource, AndroidTypeOK, FailedIsOfPage, LoadEventsPaired
<1>5. ASSUME NEW v \in Views, NEW b \in BOOLEAN, SetMessagingEnabled(v, b) PROVE AndroidInv'
  BY <1>5 DEF SetMessagingEnabled, AndroidTypeOK, FailedIsOfPage, LoadEventsPaired
<1>6. ASSUME NEW v \in Views, OnPageStarted(v) PROVE AndroidInv'
  BY <1>6 DEF OnPageStarted, AndroidTypeOK, FailedIsOfPage, LoadEventsPaired
<1>7. ASSUME NEW v \in Views, OnReceivedError(v) PROVE AndroidInv'
  <2>1. seen[v] = <<>>
    BY <1>7 DEF OnReceivedError, LoadEventsPaired
  <2>2. seen' = [seen EXCEPT ![v] = <<"finish", "error">>]
    BY <1>7, <2>1 DEF OnReceivedError
  <2>3. AndroidTypeOK'
    <3>1. <<"finish", "error">> \in Seq({"finish", "error"})
      OBVIOUS
    <3> QED
      BY <1>7, <2>2, <3>1 DEF OnReceivedError, AndroidTypeOK
  <2>4. FailedIsOfPage'
    BY <1>7 DEF OnReceivedError, AndroidTypeOK, FailedIsOfPage
  <2>5. LoadEventsPaired'
    BY <1>7, <2>2 DEF OnReceivedError, AndroidTypeOK, LoadEventsPaired
  <2> QED
    BY <2>3, <2>4, <2>5
<1>8. ASSUME NEW v \in Views, OnPageFinished(v) PROVE AndroidInv'
  <2>1. CASE failed[v]
    BY <1>8, <2>1 DEF OnPageFinished, AndroidTypeOK, FailedIsOfPage, LoadEventsPaired
  <2>2. CASE ~failed[v]
    <3>1. seen[v] = <<>>
      BY <1>8, <2>2 DEF OnPageFinished, FailedIsOfPage, LoadEventsPaired
    <3>2. seen' = [seen EXCEPT ![v] = <<"finish">>]
      BY <1>8, <2>2, <3>1 DEF OnPageFinished
    <3>3. AndroidTypeOK'
      <4>1. <<"finish">> \in Seq({"finish", "error"})
        OBVIOUS
      <4> QED
        BY <1>8, <2>2, <3>2, <4>1 DEF OnPageFinished, AndroidTypeOK
    <3>4. FailedIsOfPage'
      BY <1>8 DEF OnPageFinished, AndroidTypeOK, FailedIsOfPage
    <3>5. LoadEventsPaired'
      BY <1>8, <2>2, <3>2 DEF OnPageFinished, AndroidTypeOK, LoadEventsPaired
    <3> QED
      BY <3>3, <3>4, <3>5
  <2> QED
    BY <2>1, <2>2
<1>9. CASE UNCHANGED androidVars
  BY <1>9 DEF androidVars, AndroidTypeOK, FailedIsOfPage, LoadEventsPaired
<1> QED
  BY <1>1, <1>2, <1>3, <1>4, <1>5, <1>6, <1>7, <1>8, <1>9 DEF AndroidNext

(* "JS side expect to get a finish event first, and then get an error      *)
(* event": of every page, after any redirects, commands and failures.      *)
THEOREM EventsArePaired == AndroidSpec => []LoadEventsPaired
<1>1. AndroidInv => LoadEventsPaired
  BY DEF AndroidInv
<1> QED
  BY AndroidInitInv, AndroidNextInv, <1>1, PTL DEF AndroidSpec

-----------------------------------------------------------------------------
(* The web view of iOS.                                                    *)

IOSTypeOK ==
  /\ lock \in Requests \cup {0}
  /\ condition \in [Requests -> Requests \cup {0}]
  /\ shouldStartLoad \in {"yes", "no"}
  /\ waiting \in Requests \cup {0}
  /\ asked \subseteq Requests
  /\ answer \in [Requests -> {"none", "yes", "no"}]
  /\ storing \in Requests \cup {0}
  /\ stored \in BOOLEAN
  /\ decision \in [Requests -> {"none", "yes", "no", "late"}]
  /\ met \in [Requests -> Requests \cup {0}]
  /\ storing # 0 => answer[storing] # "none"
  /\ \A r \in Requests : met[r] # 0 => answer[met[r]] # "none"

(* The main thread waits for the lock it made; a request that is not made  *)
(* yet has not been answered, and its condition is its number.  A lock     *)
(* that is open was opened by its own answer or by the one it met.         *)
LockIsOfRequest ==
  /\ waiting # 0 => lock = waiting
  /\ lock # 0 => lock = waiting \/ decision[lock] # "none"
  /\ \A r \in Requests :
       /\ condition[r] \in {0, r}
       /\ condition[r] = 0 => answer[r] # "none" \/ met[r] # 0
       /\ condition[r] = 0 => decision[r] # "none" \/ r = waiting
       /\ answer[r] # "none" => r \in asked
       /\ r \in asked => decision[r] # "none" \/ r = waiting

(* The answering thread holds the lock that is there, or the one there met *)
(* it; _shouldStartLoad is the answer of the request it stores for, but    *)
(* for the YES of a request that was made meanwhile.                       *)
StoringIsOwn ==
  /\ storing # 0 => /\ lock # 0 /\ condition[lock] = lock
                    /\ lock = storing \/ met[lock] = storing
  /\ stored => /\ storing # 0
               /\ \/ shouldStartLoad = answer[storing]
                  \/ lock # storing /\ shouldStartLoad = "yes"

(* _shouldStartLoad is what DecisionIsOwn lets request r return.           *)
ReadyFor(r) ==
  \/ shouldStartLoad = answer[r]
  \/ met[r] # 0 /\ shouldStartLoad \in {"yes", answer[met[r]]}

(* The lock is open for the main thread: what it reads is for its request. *)
OpenIsAnswered == lock # 0 /\ condition[lock] = 0 => ReadyFor(lock)

IOSInv == IOSTypeOK /\ LockIsOfRequest /\ StoringIsOwn /\ OpenIsAnswered /\ DecisionIsOwn

(* No request has been made.                                               *)
LEMMA IOSInitInv == IOSInit => IOSInv
BY RequestsAssumption
   DEF IOSInit, IOSInv, IOSTypeOK, LockIsOfRequest, StoringIsOwn, OpenIsAnswered, ReadyFor, DecisionIsOwn

(* Every variable keeps its type, and what is stored is an answer.         *)
LEMMA IOSTypes == IOSTypeOK /\ [IOSNext]_iosVars => IOSTypeOK'
<1> SUFFICES ASSUME IOSTypeOK, [IOSNext]_iosVars PROVE IOSTypeOK'
  OBVIOUS
<1> USE RequestsAssumption DEF IOSTypeOK
<1>1. ASSUME NEW r \in Requests, NewLock(r) PROVE IOSTypeOK'
  BY <1>1 DEF NewLock
<1>2. CASE Ask
  BY <1>2 DEF Ask
<1>3. CASE TakeAnswer
  BY <1>3 DEF TakeAnswer
<1>4. CASE TimeOut
  BY <1>4 DEF TimeOut
<1>5. ASSUME NEW r \in Requests, NEW result \in {"yes", "no"}, StartLoadWithResult(r, result)
      PROVE IOSTypeOK'
  BY <1>5 DEF StartLoadWithResult
<1>6. CASE Store
  BY <1>6 DEF Store
<1>7. CASE Unlock
  BY <1>7 DEF Unlock
<1>8. CASE UNCHANGED iosVars
  BY <1>8 DEF iosVars
<1> QED
  BY <1>1, <1>2, <1>3, <1>4, <1>5, <1>6, <1>7, <1>8 DEF IOSNext

(* The lock changes under the answering thread only by NewLock, which      *)
(* notes whose answer the new one met; nothing else opens a lock.          *)
LEMMA IOSNextInv == IOSInv /\ [IOSNext]_iosVars => IOSInv'
<1> DEFINE Own == LockIsOfRequest /\ StoringIsOwn /\ OpenIsAnswered /\ DecisionIsOwn
<1> SUFFICES ASSUME IOSTypeOK, Own, [IOSNext]_iosVars PROVE Own'
  BY IOSTypes DEF IOSInv
<1> USE RequestsAssumption
    DEF IOSTypeOK, LockIsOfRequest, StoringIsOwn, OpenIsAnswered, ReadyFor, DecisionIsOwn
<1>1. ASSUME NEW r \in Requests, NewLock(r) PROVE Own'
  BY <1>1 DEF NewLock
<1>2. CASE Ask
  BY <1>2 DEF Ask
<1>3. CASE TakeAnswer
  BY <1>3 DEF TakeAnswer
<1>4. CASE TimeOut
  BY <1>4 DEF TimeOut
<1>5. ASSUME NEW r \in Requests, NEW result \in {"yes", "no"}, StartLoadWithResult(r, result)
      PROVE Own'
  BY <1>5 DEF StartLoadWithResult, CanLock
<1>6. CASE Store
  BY <1>6 DEF Store
<1>7. CASE Unlock
  BY <1>7 DEF Unlock
<1>8. CASE UNCHANGED iosVars
  BY <1>8 DEF iosVars
<1> QED
  BY <1>1, <1>2, <1>3, <1>4, <1>5, <1>6, <1>7, <1>8 DEF IOSNext

(* What shouldStartLoadForRequest returns is the default, the answer to    *)
(* its own request or, for a request that was made while an answer was     *)
(* being stored, that answer or YES; for any number of requests.           *)
THEOREM DecisionsAreOwn == IOSSpec => []DecisionIsOwn
<1>1. IOSInv => DecisionIsOwn
  BY DEF IOSInv, DecisionIsOwn
<1> QED
  BY IOSInitInv, IOSNextInv, <1>1, PTL DEF IOSSpec
=============================================================================
