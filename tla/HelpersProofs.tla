---------------------------- MODULE HelpersProofs ----------------------------
(***************************************************************************)
(* Theorems of Base64, StringTool and UniqueID for arguments of any        *)
(* length, and the lemmas on numbers, finite sets and folds they rest on.  *)
(*                                                                         *)
(* No induction is available.  A recursive function or a fold is defined   *)
(* because there is one for every smaller argument (FoldExists), and that  *)
(* it computes what it should is shown by the least argument for which it  *)
(* does not (SmallestOf).                                                  *)
(*                                                                         *)
(* Base64.  After 3q+r octets the encoder has written 4q+r characters and  *)
(* keeps the bits of the next one (EncodedAt).                             *)
(*                                                                         *)
(* Split.  What it returns from a position on is the runs that start there *)
(* or later (RunsFrom).  Match.  At a position of pattern and string it    *)
(* decides whether the rest of the string can be cut as the rest of the    *)
(* tokens say (CutAs); a token is as many characters of the pattern as     *)
(* Written says, of which no other token's start is one.                   *)
(***************************************************************************)
EXTENDS Helpers, Integers, Sequences, SequencesExt, FiniteSetsExt, FiniteSetTheorems,
        FunctionTheorems, SequenceTheorems, WellFoundedInduction, TLAPS

(* Numbers, finite sets and folds over them.                               *)
(* Of a set of numbers one is smallest.                                    *)
LEMMA SmallestOf ==
  ASSUME NEW S \in SUBSET Nat, S # {}
  PROVE  \E n \in S : \A k \in S : n <= k
<1>1. PICK n \in S : \A k \in S : ~(<<k, n>> \in OpToRel(<, Nat))
  BY WFMin, NatLessThanWellFounded
<1>2. ASSUME NEW k \in S PROVE n <= k
  <2>1. k \in Nat /\ n \in Nat
    OBVIOUS
  <2>2. k < n => <<k, n>> \in OpToRel(<, Nat)
    BY <2>1, Zenon DEF OpToRel
  <2>3. ~(k < n)
    BY <1>1, <2>2, Zenon
  <2>. QED
    BY <2>1, <2>3
<1>. QED
  BY <1>2

(* So Min of a set of numbers is what its name says.                       *)
LEMMA LeastOf ==
  ASSUME NEW S \in SUBSET Nat, S # {}
  PROVE  Min(S) \in S /\ \A n \in S : Min(S) <= n
<1>1. PICK n \in S : \A k \in S : n <= k
  BY SmallestOf
<1>. QED
  BY <1>1 DEF Min

(* Min of two numbers.                                                     *)
LEMMA SmallerOf ==
  ASSUME NEW a \in Int, NEW b \in Int
  PROVE  Min({a, b}) = IF a <= b THEN a ELSE b
<1>1. \E x \in {a, b} : \A y \in {a, b} : x <= y
  OBVIOUS
<1>2. Min({a, b}) \in {a, b} /\ Min({a, b}) <= a /\ Min({a, b}) <= b
  BY <1>1 DEF Min
<1>. QED
  BY <1>2

(* Induction up to a number.                                               *)
LEMMA UpTo ==
  ASSUME NEW n \in Nat, NEW T, 0 \in T, \A k \in 1..n : k - 1 \in T => k \in T
  PROVE  \A k \in 0..n : k \in T
<1>. DEFINE Bad == {k \in 0..n : k \notin T}
<1>. SUFFICES ASSUME Bad # {} PROVE FALSE
  OBVIOUS
<1>1. Bad \in SUBSET Nat
  OBVIOUS
<1>2. PICK k \in Bad : \A j \in Bad : k <= j
  <2>. HIDE DEF Bad
  <2>. QED
    BY <1>1, SmallestOf
<1>3. k \in 0..n /\ k \notin T /\ k # 0
  OBVIOUS
<1>4. k \in 1..n /\ k - 1 \in 0..n /\ k - 1 \notin Bad
  <2>1. k \in 1..n /\ k - 1 \in 0..n /\ ~(k <= k - 1)
    BY <1>3
  <2>. HIDE DEF Bad
  <2>. QED
    BY <1>2, <2>1
<1>. QED
  BY <1>3, <1>4

(* The last position is the largest of a set of positions.                 *)
LEMMA LargestOf ==
  ASSUME NEW n \in Nat, NEW U \in SUBSET (1..n), U # {}
  PROVE  Code!Max(U) \in U /\ \A k \in U : Code!Max(U) >= k
<1>. DEFINE S == {n - k : k \in U}
<1>1. S \in SUBSET Nat /\ S # {}
  <2>1. \A k \in U : n - k \in Nat
    OBVIOUS
  <2>2. PICK k \in U : n - k \in S
    OBVIOUS
  <2>. QED
    BY <2>1, <2>2
<1>. HIDE DEF S
<1>2. PICK m \in S : \A k \in S : m <= k
  BY <1>1, SmallestOf
<1>3. PICK x \in U : m = n - x
  BY DEF S
<1>4. ASSUME NEW k \in U PROVE x >= k
  <2>1. m <= n - k
    BY <1>2 DEF S
  <2>. QED
    BY <1>3, <2>1
<1>. QED
  BY <1>4 DEF Code!Max

(* Max of a set of positions.                                              *)
LEMMA GreatestOf ==
  ASSUME NEW n \in Nat, NEW U \in SUBSET (1..n), U # {}
  PROVE  Max(U) \in U /\ \A k \in U : Max(U) >= k
<1>1. Max(U) = Code!Max(U)
  BY DEF Max, Code!Max
<1>. QED
  BY <1>1, LargestOf

(* The first n numbers without the last.                                   *)
LEMMA LastOfInterval ==
  ASSUME NEW n \in Nat \ {0}
  PROVE  1..n # {} /\ Max(1..n) = n /\ (1..n) \ {n} = 1..(n - 1)
<1>1. n \in 1..n /\ 1..n \in SUBSET (1..n) /\ (1..n) \ {n} = 1..(n - 1)
  OBVIOUS
<1>2. Max(1..n) \in 1..n /\ \A j \in 1..n : Max(1..n) >= j
  BY <1>1, GreatestOf
<1>3. Max(1..n) >= n
  BY <1>1, <1>2
<1>. QED
  BY <1>1, <1>2, <1>3

(* Every collection of subsets of a finite set has a member that leaves it *)
(* when any one element is taken away: induction over finite sets.         *)
LEMMA SmallestSet ==
  ASSUME NEW S, IsFiniteSet(S), NEW C \in SUBSET SUBSET S, C # {}
  PROVE  \E T \in C : \A x \in T : T \ {x} \notin C
<1>1. \A T \in C : IsFiniteSet(T) /\ Cardinality(T) \in Nat
  BY FS_Subset, FS_CardinalityType
<1>. DEFINE Cards == {Cardinality(T) : T \in C}
<1>2. Cards \in SUBSET Nat /\ Cards # {}
  BY <1>1
<1>3. PICK n \in Cards : \A k \in Cards : n <= k
  <2>. HIDE DEF Cards
  <2>. QED
    BY <1>2, SmallestOf
<1>4. PICK T \in C : Cardinality(T) = n
  OBVIOUS
<1>5. ASSUME NEW x \in T, T \ {x} \in C PROVE FALSE
  <2>1. Cardinality(T \ {x}) = Cardinality(T) - 1
    BY <1>1, FS_RemoveElement
  <2>2. n <= Cardinality(T \ {x})
    BY <1>3, <1>5
  <2>. QED
    BY <1>1, <1>4, <2>1, <2>2
<1>. QED
  BY <1>5

-----------------------------------------------------------------------------
(* Folds over finite sets: g folds step over every subset of T, the        *)
(* element pick[U] of a set U last.                                        *)
IsFold(g, base, pick, step, T) ==
  g = [U \in SUBSET T |-> IF U = {} THEN base ELSE step[<<pick[U], g[U \ {pick[U]}]>>]]

(* There is only one such g.                                               *)
LEMMA FoldsAgree ==
  ASSUME NEW base, NEW pick, NEW step, NEW T, NEW V, NEW g, NEW h, IsFiniteSet(T),
         \A U \in SUBSET T : U # {} => pick[U] \in U,
         IsFold(g, base, pick, step, T), IsFold(h, base, pick, step, V)
  PROVE  \A U : U \subseteq T /\ U \subseteq V => g[U] = h[U]
<1>. DEFINE C == {W \in SUBSET T : W \subseteq V /\ g[W] # h[W]}
<1>. SUFFICES ASSUME C # {} PROVE FALSE
  OBVIOUS
<1>1. PICK W \in C : \A x \in W : W \ {x} \notin C
  BY SmallestSet
<1>2. \A X : X \subseteq T /\ X \subseteq V =>
        /\ g[X] = IF X = {} THEN base ELSE step[<<pick[X], g[X \ {pick[X]}]>>]
        /\ h[X] = IF X = {} THEN base ELSE step[<<pick[X], h[X \ {pick[X]}]>>]
  BY DEF IsFold
<1>3. W # {} /\ pick[W] \in W
  BY <1>2
<1>4. g[W \ {pick[W]}] = h[W \ {pick[W]}]
  BY <1>1, <1>3
<1>. HIDE DEF C
<1>5. W \subseteq T /\ W \subseteq V /\ g[W] # h[W]
  BY DEF C
<1>6. g[W] = step[<<pick[W], g[W \ {pick[W]}]>>] /\ h[W] = step[<<pick[W], h[W \ {pick[W]}]>>]
  BY <1>2, <1>3, <1>5
<1>. QED
  BY <1>4, <1>5, <1>6

(* And there is one.                                                       *)
LEMMA FoldExists ==
  ASSUME NEW S, IsFiniteSet(S), NEW R, NEW base \in R, NEW pick, NEW step,
         \A U \in SUBSET S : U # {} => pick[U] \in U,
         \A x \in S, v \in R : step[<<x, v>>] \in R
  PROVE  \E g \in [SUBSET S -> R] : IsFold(g, base, pick, step, S)
<1>. DEFINE Has(T) == \E g \in [SUBSET T -> R] : IsFold(g, base, pick, step, T)
            C == {T \in SUBSET S : ~Has(T)}
            of(T) == CHOOSE g \in [SUBSET T -> R] : IsFold(g, base, pick, step, T)
<1>. SUFFICES ASSUME C # {} PROVE FALSE
  OBVIOUS
<1>1. PICK T \in C : \A x \in T : T \ {x} \notin C
  BY SmallestSet
<1>2. IsFiniteSet(T) /\ T \subseteq S
  BY FS_Subset
<1>3. ASSUME NEW x \in T PROVE of(T \ {x}) \in [SUBSET (T \ {x}) -> R]
               /\ IsFold(of(T \ {x}), base, pick, step, T \ {x})
  <2>1. T \ {x} \subseteq S /\ Has(T \ {x})
    BY <1>1
  <2>. QED
    BY <2>1
<1>. DEFINE g == [U \in SUBSET T |->
                    IF U = T THEN IF T = {} THEN base
                                  ELSE step[<<pick[T], of(T \ {pick[T]})[T \ {pick[T]}]>>]
                    ELSE of(T \ {CHOOSE x \in T : x \notin U})[U]]
<1>. HIDE DEF of
<1>4. ASSUME NEW x \in T, NEW U \in SUBSET (T \ {x}) PROVE g[U] = of(T \ {x})[U]
  <2>. DEFINE y == CHOOSE y \in T : y \notin U
  <2>1. y \in T /\ y \notin U
    BY <1>4
  <2>2. g[U] = of(T \ {y})[U]
    BY <2>1
  <2>. HIDE DEF y, g
  <2>3. of(T \ {y})[U] = of(T \ {x})[U]
    <3>1. U \in SUBSET (T \ {y}) /\ U \subseteq T \ {x} /\ IsFiniteSet(T \ {y})
      BY <1>2, <2>1, FS_RemoveElement
    <3>2. IsFold(of(T \ {y}), base, pick, step, T \ {y}) /\ IsFold(of(T \ {x}), base, pick, step, T \ {x})
      BY <1>3, <2>1
    <3>3. \A X \in SUBSET (T \ {y}) : X # {} => pick[X] \in X
      BY <1>2
    <3>. QED
      BY <3>1, <3>2, <3>3, FoldsAgree
  <2>. QED
    BY <2>2, <2>3
<1>7. ASSUME NEW x \in T
      PROVE  of(T \ {x})[{}] = base /\ \A U \in SUBSET (T \ {x}) : of(T \ {x})[U] \in R
  <2>1. PICK h \in [SUBSET (T \ {x}) -> R] :
          h = of(T \ {x}) /\ IsFold(h, base, pick, step, T \ {x})
    BY <1>3
  <2>2. h[{}] = base
    BY <2>1 DEF IsFold
  <2>3. \A U \in SUBSET (T \ {x}) : h[U] \in R
    OBVIOUS
  <2>. QED
    BY <2>1, <2>2, <2>3
<1>5. ASSUME NEW U \in SUBSET T
      PROVE  /\ g[U] = IF U = {} THEN base ELSE step[<<pick[U], g[U \ {pick[U]}]>>]
             /\ g[U] \in R
  <2>1. CASE U = T /\ T = {}
    BY <2>1
  <2>2. CASE U = T /\ T # {}
    <3>. DEFINE x == pick[T]
    <3>1. x \in T /\ x \in S
      BY <1>2, <2>2
    <3>2. g[U] = step[<<x, of(T \ {x})[T \ {x}]>>]
      BY <2>2
    <3>. HIDE DEF x, g
    <3>3. g[T \ {x}] = of(T \ {x})[T \ {x}]
      BY <1>4, <3>1
    <3>4. of(T \ {x})[T \ {x}] \in R
      BY <1>7, <3>1
    <3>5. g[U] \in R
      BY <3>1, <3>2, <3>4
    <3>. QED
      BY <2>2, <3>2, <3>3, <3>5 DEF x
  <2>3. CASE U # T
    <3>1. PICK x \in T : U \subseteq T \ {x}
      BY <2>3
    <3>. HIDE DEF g
    <3>2. g[U] = of(T \ {x})[U] /\ g[U] \in R
      BY <1>4, <1>7, <3>1
    <3>3. CASE U = {}
      BY <1>7, <3>2, <3>3
    <3>4. CASE U # {}
      <4>1. pick[U] \in U /\ U \ {pick[U]} \in SUBSET (T \ {x})
        BY <1>2, <3>1, <3>4
      <4>2. g[U \ {pick[U]}] = of(T \ {x})[U \ {pick[U]}]
        BY <1>4, <4>1
      <4>3. of(T \ {x})[U] = step[<<pick[U], of(T \ {x})[U \ {pick[U]}]>>]
        <5>1. IsFold(of(T \ {x}), base, pick, step, T \ {x})
          BY <1>3
        <5>. QED
          BY <3>1, <3>4, <5>1 DEF IsFold
      <4>. QED
        BY <3>2, <3>4, <4>2, <4>3
    <3>. QED
      BY <3>3, <3>4
  <2>. HIDE DEF g
  <2>. QED
    BY <2>1, <2>2, <2>3
<1>6. g \in [SUBSET T -> R] /\ IsFold(g, base, pick, step, T)
  <2>1. g = [U \in SUBSET T |-> g[U]]
    OBVIOUS
  <2>. HIDE DEF g
  <2>. QED
    BY <1>5, <2>1 DEF IsFold
<1>. QED
  BY <1>6

-----------------------------------------------------------------------------
(* The base64 encoder.                                                     *)
Octets == 0..255

(* The six bits of the characters for the g-th three octets of p.          *)
Quad(out, p, g) ==
  /\ out[4 * g + 1] = p[3 * g + 1] \div 4
  /\ out[4 * g + 2] = (p[3 * g + 1] % 4) * 16 + (p[3 * g + 2] \div 16)
  /\ out[4 * g + 3] = (p[3 * g + 2] % 16) * 4 + (p[3 * g + 3] \div 64)
  /\ out[4 * g + 4] = p[3 * g + 3] % 64

Encoders == [triplet_index : 0..2, last_encoded_value : Nat, output : Seq(Nat)]

(* What an encoder is after the octets p, 3q of them and r more.           *)
EncodedAt(rest, p, q, r) ==
  /\ Len(p) = 3 * q + r /\ Len(rest.output) = 4 * q + r
  /\ rest.triplet_index = r
  /\ \A g \in 0..(q - 1) : Quad(rest.output, p, g)
  /\ r = 0 => rest.last_encoded_value = 0
  /\ r = 1 => /\ rest.last_encoded_value = (p[3 * q + 1] % 4) * 16
              /\ rest.output[4 * q + 1] = p[3 * q + 1] \div 4
  /\ r = 2 => /\ rest.last_encoded_value = (p[3 * q + 2] % 16) * 4
              /\ rest.output[4 * q + 1] = p[3 * q + 1] \div 4
              /\ rest.output[4 * q + 2] = (p[3 * q + 1] % 4) * 16 + (p[3 * q + 2] \div 16)

Encoded(rest, p) == rest \in Encoders /\ \E q \in Nat, r \in 0..2 : EncodedAt(rest, p, q, r)

(* Before the first octet.                                                 *)
LEMMA NothingEncoded == Encoded(Code!state, <<>>)
<1>1. Code!state \in Encoders
  BY DEF Code!state, Encoders
<1>2. EncodedAt(Code!state, <<>>, 0, 0)
  BY DEF Code!state, EncodedAt
<1>. QED
  BY <1>1, <1>2 DEF Encoded

(* What is written of an octet, or kept of it, is a number.                *)
LEMMA OctetParts ==
  ASSUME NEW c \in Octets
  PROVE  /\ c \div 4 \in Nat /\ c \div 16 \in Nat /\ c \div 64 \in Nat /\ c % 64 \in Nat
         /\ (c % 4) * 16 \in Nat /\ (c % 16) * 4 \in Nat
  BY DEF Octets

(* What a sequence is after one more element.                              *)
LEMMA OneMore ==
  ASSUME NEW s \in Seq(Nat), NEW n \in Nat, Len(s) = n, NEW a \in Nat
  PROVE  /\ <<a>> \in Seq(Nat) /\ Append(s, a) = s \o <<a>> /\ Append(s, a) \in Seq(Nat)
         /\ Append(s, a)[n + 1] = a /\ Len(Append(s, a)) = n + 1
         /\ \A i \in 1..n : Append(s, a)[i] = s[i]
<1>. DEFINE h == Append(s, a)
            k == s \o <<a>>
<1>1. <<a>> \in Seq(Nat) /\ Len(<<a>>) = 1 /\ <<a>>[1] = a
  OBVIOUS
<1>2. h \in Seq(Nat) /\ h[n + 1] = a /\ Len(h) = n + 1 /\ \A i \in 1..n : h[i] = s[i]
  OBVIOUS
<1>3. k \in Seq(Nat) /\ k[n + 1] = a /\ Len(k) = n + 1 /\ \A i \in 1..n : k[i] = s[i]
  OBVIOUS
<1>. HIDE DEF h, k
<1>4. h = k
  <2>1. \A i \in 1..(n + 1) : i = n + 1 \/ i \in 1..n
    OBVIOUS
  <2>2. h = [i \in 1..(n + 1) |-> h[i]] /\ k = [i \in 1..(n + 1) |-> k[i]]
    BY <1>2, <1>3
  <2>3. \A i \in 1..(n + 1) : h[i] = k[i]
    BY <1>2, <1>3, <2>1
  <2>. QED
    BY <2>2, <2>3
<1>. QED
  BY <1>1, <1>2, <1>4 DEF h, k

(* One turn of the loop.                                                   *)
LEMMA OctetEncoded ==
  ASSUME NEW p \in Seq(Octets), NEW rest, Encoded(rest, p), NEW c \in Octets
  PROVE  Encoded(Code!octet(rest, c), Append(p, c))
<1>. DEFINE next == Code!octet(rest, c)
            m == Append(p, c)
<1>1. PICK q \in Nat, r \in 0..2 : EncodedAt(rest, p, q, r)
  BY DEF Encoded
<1>2. rest \in Encoders
  BY DEF Encoded
<1>3. /\ m \in Seq(Octets) /\ Len(m) = Len(p) + 1 /\ m[Len(p) + 1] = c
      /\ \A i \in 1..Len(p) : m[i] = p[i]
  OBVIOUS
<1>4. Len(p) = 3 * q + r /\ Len(rest.output) = 4 * q + r /\ rest.output \in Seq(Nat)
      /\ rest.triplet_index = r /\ rest.last_encoded_value \in Nat
  BY <1>1, <1>2 DEF EncodedAt, Encoders
<1>5. ASSUME NEW more \in Seq(Nat), next.output = rest.output \o more, NEW g \in 0..(q - 1)
      PROVE  Quad(next.output, m, g)
  <2>1. \A i \in 1..(4 * q) : next.output[i] = rest.output[i]
    <3>1. PICK o \in Seq(Nat) : o = rest.output /\ 4 * q <= Len(o)
      BY <1>4
    <3>2. \A i \in 1..(4 * q) : (o \o more)[i] = o[i]
      BY <3>1
    <3>. HIDE DEF next
    <3>. QED
      BY <1>5, <3>1, <3>2
  <2>2. \A i \in 1..(3 * q) : m[i] = p[i]
    BY <1>3, <1>4
  <2>3. Quad(rest.output, p, g)
    BY <1>1 DEF EncodedAt
  <2>4. 4 * g + 1 \in 1..(4 * q) /\ 4 * g + 2 \in 1..(4 * q) /\ 4 * g + 3 \in 1..(4 * q)
        /\ 4 * g + 4 \in 1..(4 * q)
    OBVIOUS
  <2>5. 3 * g + 1 \in 1..(3 * q) /\ 3 * g + 2 \in 1..(3 * q) /\ 3 * g + 3 \in 1..(3 * q)
    OBVIOUS
  <2>. HIDE DEF next, m
  <2>. QED
    BY <2>1, <2>2, <2>3, <2>4, <2>5 DEF Quad
<1>6. CASE r = 0
  <2>1. next = [triplet_index |-> 1, last_encoded_value |-> (c % 4) * 16,
                output |-> Append(rest.output, c \div 4)]
    BY <1>4, <1>6 DEF Code!octet
  <2>2. next \in Encoders
    BY <1>4, <2>1, OctetParts DEF Encoders
  <2>3. PICK u \in Nat : u = c \div 4
    BY OctetParts
  <2>4. /\ next.output[4 * q + 1] = u /\ Len(next.output) = 4 * q + 1
        /\ next.output = rest.output \o <<u>> /\ <<u>> \in Seq(Nat)
    <3>. DEFINE n == 4 * q
    <3>1. next.output = Append(rest.output, u) /\ Len(rest.output) = n /\ n \in Nat
      BY <1>4, <1>6, <2>1, <2>3
    <3>2. PICK o \in Seq(Nat) : o = rest.output /\ Len(o) = n
      BY <1>4, <3>1
    <3>. HIDE DEF next, n
    <3>3. Append(o, u)[n + 1] = u /\ Len(Append(o, u)) = n + 1 /\ Append(o, u) = o \o <<u>>
          /\ <<u>> \in Seq(Nat)
      BY <3>1, <3>2, OneMore
    <3>. QED
      BY <3>1, <3>2, <3>3 DEF n
  <2>5. m[3 * q + 1] = c /\ Len(m) = 3 * q + 1
    BY <1>3, <1>4, <1>6
  <2>6. next.triplet_index = 1 /\ next.last_encoded_value = (c % 4) * 16
    BY <2>1
  <2>. HIDE DEF next, m
  <2>8. \A g \in 0..(q - 1) : Quad(next.output, m, g)
    BY <1>5, <2>4
  <2>7. EncodedAt(next, m, q, 1)
    BY <2>3, <2>4, <2>5, <2>6, <2>8 DEF EncodedAt
  <2>. QED
    BY <2>2, <2>7 DEF Encoded, next, m
<1>7. CASE r = 1
  <2>1. PICK v \in Nat : v = rest.last_encoded_value + (c \div 16)
    BY <1>4, OctetParts
  <2>2. next = [triplet_index |-> 2, last_encoded_value |-> (c % 16) * 4,
                output |-> Append(rest.output, v)]
    BY <1>4, <1>7, <2>1 DEF Code!octet, Code!combine
  <2>3. next \in Encoders
    BY <1>4, <2>2, OctetParts DEF Encoders
  <2>4. v = (p[3 * q + 1] % 4) * 16 + (c \div 16)
        /\ rest.output[4 * q + 1] = p[3 * q + 1] \div 4
    BY <1>1, <1>7, <2>1 DEF EncodedAt
  <2>5. next.output = Append(rest.output, v) /\ Len(rest.output) = 4 * q + 1
    BY <1>4, <1>7, <2>2
  <2>6. /\ next.output[4 * q + 2] = v /\ next.output[4 * q + 1] = rest.output[4 * q + 1]
        /\ Len(next.output) = 4 * q + 2
        /\ next.output = rest.output \o <<v>> /\ <<v>> \in Seq(Nat)
    <3>. DEFINE n == 4 * q + 1
    <3>1. n \in Nat /\ 4 * q + 1 \in 1..n /\ n + 1 = 4 * q + 2
      OBVIOUS
    <3>2. PICK o \in Seq(Nat) : o = rest.output /\ Len(o) = n
      BY <1>4, <2>5
    <3>. HIDE DEF next, n
    <3>3. Append(o, v)[n + 1] = v /\ Len(Append(o, v)) = n + 1 /\ Append(o, v) = o \o <<v>>
          /\ <<v>> \in Seq(Nat) /\ \A i \in 1..n : Append(o, v)[i] = o[i]
      BY <3>1, <3>2, OneMore
    <3>. QED
      BY <2>5, <3>1, <3>2, <3>3
  <2>7. m[3 * q + 1] = p[3 * q + 1] /\ m[3 * q + 2] = c /\ Len(m) = 3 * q + 2
    BY <1>3, <1>4, <1>7
  <2>8. next.triplet_index = 2 /\ next.last_encoded_value = (c % 16) * 4
    BY <2>2
  <2>. HIDE DEF next, m
  <2>10. \A g \in 0..(q - 1) : Quad(next.output, m, g)
    BY <1>5, <2>6
  <2>12. 2 # 0 /\ 2 # 1 /\ next.last_encoded_value = (m[3 * q + 2] % 16) * 4
    BY <2>7, <2>8
  <2>11. /\ next.output[4 * q + 1] = m[3 * q + 1] \div 4
         /\ next.output[4 * q + 2] = (m[3 * q + 1] % 4) * 16 + (m[3 * q + 2] \div 16)
    BY <2>4, <2>6, <2>7, Zenon
  <2>9. EncodedAt(next, m, q, 2)
    BY <2>6, <2>7, <2>8, <2>10, <2>11, <2>12, Zenon DEF EncodedAt
  <2>. QED
    BY <2>3, <2>9 DEF Encoded, next, m
<1>8. CASE r = 2
  <2>1. PICK v \in Nat, w \in Nat : v = rest.last_encoded_value + (c \div 64) /\ w = c % 64
    BY <1>4, OctetParts
  <2>2. next = [triplet_index |-> 0, last_encoded_value |-> 0, output |-> rest.output \o <<v, w>>]
    BY <1>4, <1>8, <2>1 DEF Code!octet, Code!combine
  <2>3. next \in Encoders
    BY <1>4, <2>2 DEF Encoders
  <2>4. /\ v = (p[3 * q + 2] % 16) * 4 + (c \div 64)
        /\ rest.output[4 * q + 1] = p[3 * q + 1] \div 4
        /\ rest.output[4 * q + 2] = (p[3 * q + 1] % 4) * 16 + (p[3 * q + 2] \div 16)
    BY <1>1, <1>8, <2>1 DEF EncodedAt
  <2>5. /\ next.output = rest.output \o <<v, w>> /\ <<v, w>> \in Seq(Nat)
        /\ Len(rest.output) = 4 * q + 2
    <3>1. next.output = rest.output \o <<v, w>>
      BY <2>2
    <3>2. <<v, w>> \in Seq(Nat)
      OBVIOUS
    <3>3. Len(rest.output) = 4 * q + 2
      BY <1>4, <1>8
    <3>. QED
      BY <3>1, <3>2, <3>3
  <2>6. /\ next.output[4 * q + 3] = v /\ next.output[4 * q + 4] = w
        /\ next.output[4 * q + 1] = rest.output[4 * q + 1]
        /\ next.output[4 * q + 2] = rest.output[4 * q + 2]
        /\ Len(next.output) = 4 * (q + 1)
    <3>. DEFINE n == 4 * q + 2
    <3>1. n \in Nat /\ 4 * q + 1 \in 1..n /\ 4 * q + 2 \in 1..n
          /\ n + 1 = 4 * q + 3 /\ n + 2 = 4 * q + 4 /\ n + 2 = 4 * (q + 1)
      OBVIOUS
    <3>2. PICK o \in Seq(Nat) : o = rest.output /\ Len(o) = n
      BY <1>4, <2>5
    <3>. HIDE DEF next, n
    <3>3. PICK t \in Seq(Nat) : t = <<v, w>> /\ Len(t) = 2 /\ t[1] = v /\ t[2] = w
      BY <2>5
    <3>7. /\ Len(o \o t) = Len(o) + Len(t)
          /\ \A i \in 1..(Len(o) + Len(t)) :
               (o \o t)[i] = IF i <= Len(o) THEN o[i] ELSE t[i - Len(o)]
      BY ConcatProperties, Zenon
    <3>4. (o \o t)[n + 1] = t[1] /\ (o \o t)[n + 2] = t[2]
      <4>1. /\ n + 1 \in 1..(Len(o) + Len(t)) /\ ~(n + 1 <= Len(o)) /\ (n + 1) - Len(o) = 1
            /\ n + 2 \in 1..(Len(o) + Len(t)) /\ ~(n + 2 <= Len(o)) /\ (n + 2) - Len(o) = 2
        BY <3>1, <3>2, <3>3
      <4>. QED
        BY <3>7, <4>1, Zenon
    <3>5. Len(o \o t) = n + 2 /\ \A i \in 1..n : (o \o t)[i] = o[i]
      BY <3>1, <3>2, <3>3, <3>7
    <3>6. next.output = o \o t
      BY <2>5, <3>2, <3>3
    <3>. QED
      BY <3>1, <3>2, <3>3, <3>4, <3>5, <3>6
  <2>7. /\ m[3 * q + 1] = p[3 * q + 1] /\ m[3 * q + 2] = p[3 * q + 2] /\ m[3 * q + 3] = c
        /\ Len(m) = 3 * (q + 1)
    BY <1>3, <1>4, <1>8
  <2>8. next.triplet_index = 0 /\ next.last_encoded_value = 0
    BY <2>2
  <2>9. Quad(next.output, m, q)
    <3>. HIDE DEF next, m
    <3>. QED
      BY <2>1, <2>4, <2>6, <2>7 DEF Quad
  <2>. HIDE DEF next, m
  <2>10. \A g \in 0..((q + 1) - 1) : Quad(next.output, m, g)
    <3>1. \A g \in 0..((q + 1) - 1) : g = q \/ g \in 0..(q - 1)
      OBVIOUS
    <3>. QED
      BY <1>5, <2>5, <2>9, <3>1
  <2>11. EncodedAt(next, m, q + 1, 0)
    <3>1. /\ Len(m) = 3 * (q + 1) + 0 /\ Len(next.output) = 4 * (q + 1) + 0
          /\ ~(0 = 1) /\ ~(0 = 2)
      BY <2>6, <2>7
    <3>. QED
      BY <2>8, <2>10, <3>1, Zenon DEF EncodedAt
  <2>. QED
    BY <2>3, <2>11 DEF Encoded, next, m
<1>. QED
  BY <1>6, <1>7, <1>8

(* Three octets are 24 bits.                                               *)
Bits(a, b, c) == a * 65536 + b * 256 + c

(* The number n of 24 bits is three octets, and four characters.           *)
Sextets(n, a, b, c) ==
  /\ (n \div 262144) % 64 = a \div 4
  /\ (n \div 4096) % 64 = (a % 4) * 16 + (b \div 16)
  /\ (n \div 64) % 64 = (b % 16) * 4 + (c \div 64)
  /\ (n \div 1) % 64 = c % 64

LEMMA SextetsOf24Bits ==
  ASSUME NEW a \in Octets, NEW b \in Octets, NEW c \in Octets,
         NEW n, n = Bits(a, b, c)
  PROVE  Sextets(n, a, b, c)
<1>1. PICK x \in 0..63, y \in 0..3 : a = 4 * x + y /\ a \div 4 = x /\ a % 4 = y
  <2>1. a \div 4 \in 0..63 /\ a % 4 \in 0..3 /\ a = 4 * (a \div 4) + (a % 4)
    BY DEF Octets
  <2>. QED
    BY <2>1
<1>2. PICK z \in 0..15, w \in 0..15 : b = 16 * z + w /\ b \div 16 = z /\ b % 16 = w
  <2>1. b \div 16 \in 0..15 /\ b % 16 \in 0..15 /\ b = 16 * (b \div 16) + (b % 16)
    BY DEF Octets
  <2>. QED
    BY <2>1
<1>3. PICK u \in 0..3, v \in 0..63 : c = 64 * u + v /\ c \div 64 = u /\ c % 64 = v
  <2>1. c \div 64 \in 0..3 /\ c % 64 \in 0..63 /\ c = 64 * (c \div 64) + (c % 64)
    BY DEF Octets
  <2>. QED
    BY <2>1
<1>4. n = 262144 * x + 65536 * y + 4096 * z + 256 * w + 64 * u + v
  BY <1>1, <1>2, <1>3, SMT DEF Bits
<1>5. n \div 262144 = x /\ x % 64 = x
  BY <1>4
<1>6. n \div 4096 = 64 * x + 16 * y + z /\ (64 * x + 16 * y + z) % 64 = 16 * y + z
  BY <1>4
<1>7. n \div 64 = 4096 * x + 1024 * y + 64 * z + 4 * w + u
      /\ (4096 * x + 1024 * y + 64 * z + 4 * w + u) % 64 = 4 * w + u
  BY <1>4
<1>8. n \div 1 = n /\ n = 64 * (4096 * x + 1024 * y + 64 * z + 4 * w + u) + v
      /\ n % 64 = v
  BY <1>4
<1>9. (n \div 262144) % 64 = a \div 4
  BY <1>1, <1>5
<1>10. (n \div 4096) % 64 = (a % 4) * 16 + (b \div 16)
  BY <1>1, <1>2, <1>6
<1>11. (n \div 64) % 64 = (b % 16) * 4 + (c \div 64)
  BY <1>2, <1>3, <1>7
<1>12. (n \div 1) % 64 = c % 64
  BY <1>3, <1>8
<1>. QED
  BY <1>9, <1>10, <1>11, <1>12, SMT DEF Sextets

LEMMA ThreeOctets ==
  ASSUME NEW a \in Octets, NEW b \in Octets, NEW c \in Octets
  PROVE  Bits(a, b, c) \in Nat
  BY SMT DEF Octets, Bits

(* The g-th four characters of s are those of three octets, as far as more *)
(* bits are left.                                                          *)
Four(s, g, a, b, c, left) ==
  /\ s[4 * g + 1] = IF 0 >= left THEN 64 ELSE a \div 4
  /\ s[4 * g + 2] = IF 6 >= left THEN 64 ELSE (a % 4) * 16 + (b \div 16)
  /\ s[4 * g + 3] = IF 12 >= left THEN 64 ELSE (b % 16) * 4 + (c \div 64)
  /\ s[4 * g + 4] = IF 18 >= left THEN 64 ELSE c % 64

(* So are they in the reference definition.                                *)
LEMMA RfcAt ==
  ASSUME NEW p \in Seq(Octets), NEW g \in Nat,
         NEW a \in Octets, a = IF 3 * g + 1 <= Len(p) THEN p[3 * g + 1] ELSE 0,
         NEW b \in Octets, b = IF 3 * g + 2 <= Len(p) THEN p[3 * g + 2] ELSE 0,
         NEW c \in Octets, c = IF 3 * g + 3 <= Len(p) THEN p[3 * g + 3] ELSE 0,
         NEW left \in Int, left = 8 * (Len(p) - 3 * g),
         4 * g + 4 <= 4 * ((Len(p) + 2) \div 3)
  PROVE  Four(Code!Rfc4648(p), g, a, b, c, left)
<1>. DEFINE rfc == Code!Rfc4648(p)
            value(i) == IF i <= Len(p) THEN p[i] ELSE 0
            bits(h) == value(3 * h + 1) * 65536 + value(3 * h + 2) * 256 + value(3 * h + 3)
            sextet(k) == (bits((k - 1) \div 4) \div (64 ^ (3 - ((k - 1) % 4)))) % 64
            size == 4 * ((Len(p) + 2) \div 3)
<1>1. \A k \in 1..size :
        rfc[k] = IF 6 * ((k - 1) % 4) >= 8 * (Len(p) - 3 * ((k - 1) \div 4))
                 THEN Code!Pad ELSE sextet(k)
  BY DEF Code!Rfc4648
<1>2. PICK n \in Nat : n = Bits(a, b, c)
  BY ThreeOctets
<1>3. bits(g) = n
  BY <1>2, SMT DEF Bits
<1>4. ASSUME NEW j \in 0..3
      PROVE  rfc[4 * g + (j + 1)] = IF 6 * j >= left THEN 64 ELSE (n \div (64 ^ (3 - j))) % 64
  <2>. DEFINE k == 4 * g + (j + 1)
  <2>1. k \in 1..size
    <3>1. PICK w \in Int : w = (Len(p) + 2) \div 3
      OBVIOUS
    <3>. QED
      BY <3>1
  <2>2. (k - 1) % 4 = j /\ (k - 1) \div 4 = g
    OBVIOUS
  <2>. HIDE DEF rfc, size, k
  <2>3. rfc[k] = IF 6 * j >= 8 * (Len(p) - 3 * g) THEN Code!Pad ELSE sextet(k)
    BY <1>1, <2>1, <2>2
  <2>. HIDE DEF bits
  <2>4. sextet(k) = (n \div (64 ^ (3 - j))) % 64
    BY <1>3, <2>2
  <2>. HIDE DEF sextet
  <2>. QED
    BY <2>3, <2>4 DEF Code!Pad, k
<1>. HIDE DEF rfc
<1>5. 64 ^ 3 = 262144 /\ 64 ^ 2 = 4096 /\ 64 ^ 1 = 64 /\ 64 ^ 0 = 1
  BY SMT
<1>6. /\ (n \div 262144) % 64 = a \div 4
      /\ (n \div 4096) % 64 = (a % 4) * 16 + (b \div 16)
      /\ (n \div 64) % 64 = (b % 16) * 4 + (c \div 64)
      /\ (n \div 1) % 64 = c % 64
  <2>1. Sextets(n, a, b, c)
    BY <1>2, SextetsOf24Bits
  <2>. QED
    BY <2>1 DEF Sextets
<1>7. rfc[4 * g + 1] = IF 0 >= left THEN 64 ELSE a \div 4
  <2>1. rfc[4 * g + (0 + 1)] = IF 6 * 0 >= left THEN 64 ELSE (n \div (64 ^ (3 - 0))) % 64
    BY <1>4
  <2>2. 4 * g + (0 + 1) = 4 * g + 1 /\ 6 * 0 = 0 /\ 3 - 0 = 3
    OBVIOUS
  <2>3. rfc[4 * g + 1] = IF 0 >= left THEN 64 ELSE (n \div (64 ^ 3)) % 64
    BY <2>1, <2>2
  <2>. QED
    BY <1>5, <1>6, <2>3
<1>8. rfc[4 * g + 2] = IF 6 >= left THEN 64 ELSE (a % 4) * 16 + (b \div 16)
  <2>1. rfc[4 * g + (1 + 1)] = IF 6 * 1 >= left THEN 64 ELSE (n \div (64 ^ (3 - 1))) % 64
    BY <1>4
  <2>2. 4 * g + (1 + 1) = 4 * g + 2 /\ 6 * 1 = 6 /\ 3 - 1 = 2
    OBVIOUS
  <2>3. rfc[4 * g + 2] = IF 6 >= left THEN 64 ELSE (n \div (64 ^ 2)) % 64
    BY <2>1, <2>2
  <2>. QED
    BY <1>5, <1>6, <2>3
<1>9. rfc[4 * g + 3] = IF 12 >= left THEN 64 ELSE (b % 16) * 4 + (c \div 64)
  <2>1. rfc[4 * g + (2 + 1)] = IF 6 * 2 >= left THEN 64 ELSE (n \div (64 ^ (3 - 2))) % 64
    BY <1>4
  <2>2. 4 * g + (2 + 1) = 4 * g + 3 /\ 6 * 2 = 12 /\ 3 - 2 = 1
    OBVIOUS
  <2>3. rfc[4 * g + 3] = IF 12 >= left THEN 64 ELSE (n \div (64 ^ 1)) % 64
    BY <2>1, <2>2
  <2>. QED
    BY <1>5, <1>6, <2>3
<1>10. rfc[4 * g + 4] = IF 18 >= left THEN 64 ELSE c % 64
  <2>1. rfc[4 * g + (3 + 1)] = IF 6 * 3 >= left THEN 64 ELSE (n \div (64 ^ (3 - 3))) % 64
    BY <1>4
  <2>2. 4 * g + (3 + 1) = 4 * g + 4 /\ 6 * 3 = 18 /\ 3 - 3 = 0
    OBVIOUS
  <2>3. rfc[4 * g + 4] = IF 18 >= left THEN 64 ELSE (n \div (64 ^ 0)) % 64
    BY <2>1, <2>2
  <2>. QED
    BY <1>5, <1>6, <2>3
<1>. QED
  BY <1>7, <1>8, <1>9, <1>10 DEF Four, rfc

(* encode_rest writes the last ones and the padding.                       *)
LEMMA RestEncoded ==
  ASSUME NEW p \in Seq(Octets), NEW rest, Encoded(rest, p)
  PROVE  /\ Code!encode_rest(rest).output = Code!Rfc4648(p)
         /\ [Code!encode_rest(rest) EXCEPT !.output = <<>>] = Code!state
<1>. DEFINE done == Code!encode_rest(rest)
            out == done.output
            rfc == Code!Rfc4648(p)
<1>1. PICK q \in Nat, r \in 0..2 : EncodedAt(rest, p, q, r)
  BY DEF Encoded
<1>2. PICK o \in Seq(Nat), last \in Nat : o = rest.output /\ last = rest.last_encoded_value
  BY DEF Encoded, Encoders
<1>3. rest = [triplet_index |-> r, last_encoded_value |-> last, output |-> o]
  BY <1>1, <1>2 DEF Encoded, Encoders, EncodedAt
<1>4. Len(p) = 3 * q + r /\ Len(o) = 4 * q + r /\ \A g \in 0..(q - 1) : Quad(o, p, g)
  BY <1>1, <1>2 DEF EncodedAt
<1>5. PICK n \in Nat : n = IF r = 0 THEN q ELSE q + 1
  OBVIOUS
<1>6. (Len(p) + 2) \div 3 = n
  BY <1>4, <1>5
<1>7. rfc = [k \in 1..(4 * n) |-> rfc[k]]
  BY <1>6 DEF Code!Rfc4648
<1>8. \A i \in 1..Len(p) : p[i] \in Octets
  OBVIOUS
<1>9. 0 \in Octets
  BY DEF Octets
<1>10. ASSUME NEW g \in 0..(q - 1)
       PROVE  /\ rfc[4 * g + 1] = o[4 * g + 1] /\ rfc[4 * g + 2] = o[4 * g + 2]
              /\ rfc[4 * g + 3] = o[4 * g + 3] /\ rfc[4 * g + 4] = o[4 * g + 4]
  <2>1. 3 * g + 1 \in 1..Len(p) /\ 3 * g + 2 \in 1..Len(p) /\ 3 * g + 3 \in 1..Len(p)
        /\ 4 * g + 4 <= 4 * n
    BY <1>4, <1>5
  <2>2. PICK a \in Octets, b \in Octets, c \in Octets :
          a = p[3 * g + 1] /\ b = p[3 * g + 2] /\ c = p[3 * g + 3]
    BY <1>8, <2>1
  <2>3. PICK left \in Int : left = 8 * (Len(p) - 3 * g) /\ left > 18
    BY <1>4
  <2>4. /\ a = IF 3 * g + 1 <= Len(p) THEN p[3 * g + 1] ELSE 0
        /\ b = IF 3 * g + 2 <= Len(p) THEN p[3 * g + 2] ELSE 0
        /\ c = IF 3 * g + 3 <= Len(p) THEN p[3 * g + 3] ELSE 0
    BY <2>1, <2>2
  <2>5. g \in Nat /\ 4 * g + 4 <= 4 * ((Len(p) + 2) \div 3)
    BY <1>6, <2>1
  <2>. HIDE DEF rfc
  <2>6. Four(rfc, g, a, b, c, left)
    BY <2>3, <2>4, <2>5, RfcAt DEF rfc
  <2>7. Quad(o, p, g)
    BY <1>4
  <2>8. ~(0 >= left) /\ ~(6 >= left) /\ ~(12 >= left) /\ ~(18 >= left)
    BY <2>3
  <2>. QED
    BY <2>2, <2>6, <2>7, <2>8 DEF Four, Quad
<1>. HIDE DEF rfc
<1>11. \A k \in 1..(4 * q) : rfc[k] = o[k]
  <2>. SUFFICES ASSUME NEW k \in 1..(4 * q) PROVE rfc[k] = o[k]
    OBVIOUS
  <2>1. PICK g \in Int : g = (k - 1) \div 4
    OBVIOUS
  <2>2. g \in 0..(q - 1) /\ (k = 4 * g + 1 \/ k = 4 * g + 2 \/ k = 4 * g + 3 \/ k = 4 * g + 4)
    BY <2>1
  <2>. QED
    BY <1>10, <2>2
<1>12. CASE r = 0
  <2>1. done = rest /\ last = 0
    BY <1>1, <1>2, <1>3, <1>12 DEF Code!encode_rest, EncodedAt
  <2>2. o = [k \in 1..(4 * n) |-> o[k]] /\ n = q
    BY <1>4, <1>5, <1>12
  <2>5. out = o
    BY <1>3, <2>1
  <2>. HIDE DEF out
  <2>3. out = rfc
    BY <1>7, <1>11, <2>2, <2>5
  <2>4. [done EXCEPT !.output = <<>>] = Code!state
    BY <1>3, <1>12, <2>1 DEF Code!state
  <2>. QED
    BY <2>3, <2>4 DEF rfc, out
<1>13. CASE r # 0
  <2>1. PICK t \in Seq(Nat) :
          /\ t = <<last, Code!Pad>> \o (IF r < 2 THEN <<Code!Pad>> ELSE <<>>)
          /\ Len(t) = 4 - r /\ t[1] = last /\ \A i \in 2..(4 - r) : t[i] = 64
    <3>1. CASE r = 1
      <4>. DEFINE t == <<last, 64, 64>>
      <4>1. t = <<last, 64>> \o <<64>>
        OBVIOUS
      <4>2. t \in Seq(Nat) /\ Len(t) = 4 - r /\ t[1] = last /\ t[2] = 64 /\ t[3] = 64
        BY <3>1
      <4>3. \A i \in 2..(4 - r) : t[i] = 64
        BY <3>1, <4>2
      <4>4. t = <<last, Code!Pad>> \o (IF r < 2 THEN <<Code!Pad>> ELSE <<>>)
        BY <3>1, <4>1 DEF Code!Pad
      <4>. HIDE DEF t
      <4>. QED
        BY <4>2, <4>3, <4>4, Zenon
    <3>2. CASE r = 2
      <4>. DEFINE t == <<last, 64>>
      <4>1. t = <<last, 64>> \o <<>>
        OBVIOUS
      <4>2. t \in Seq(Nat) /\ Len(t) = 4 - r /\ t[1] = last /\ t[2] = 64
        BY <3>2
      <4>3. \A i \in 2..(4 - r) : t[i] = 64
        BY <3>2, <4>2
      <4>4. t = <<last, Code!Pad>> \o (IF r < 2 THEN <<Code!Pad>> ELSE <<>>)
        BY <3>2, <4>1 DEF Code!Pad
      <4>. HIDE DEF t
      <4>. QED
        BY <4>2, <4>3, <4>4, Zenon
    <3>3. r = 1 \/ r = 2
      BY <1>13
    <3>. QED
      BY <3>1, <3>2, <3>3, Zenon
  <2>2. done = [Code!state EXCEPT !.output = o \o t]
    <3>1. done = [Code!state EXCEPT !.output =
                    o \o <<last, Code!Pad>> \o (IF r < 2 THEN <<Code!Pad>> ELSE <<>>)]
      BY <1>3, <1>13 DEF Code!encode_rest
    <3>2. o \o <<last, Code!Pad>> \o (IF r < 2 THEN <<Code!Pad>> ELSE <<>>) = o \o t
      BY <2>1 DEF Code!Pad
    <3>. QED
      BY <3>1, <3>2, Zenon
  <2>3. out = o \o t
    BY <2>2 DEF Code!state
  <2>4. /\ o \o t \in Seq(Nat) /\ Len(o \o t) = Len(o) + Len(t)
        /\ \A i \in 1..(Len(o) + Len(t)) :
             (o \o t)[i] = IF i <= Len(o) THEN o[i] ELSE t[i - Len(o)]
    BY ConcatProperties, Zenon
  <2>. HIDE DEF done
  <2>5. /\ n = q + 1 /\ Len(o) + Len(t) = 4 * n
        /\ \A i \in 1..Len(o) : out[i] = o[i]
        /\ out[(4 * q + r) + 1] = last
        /\ \A i \in ((4 * q + r) + 2)..(4 * q + 4) : out[i] = 64
    <3>1. n = q + 1 /\ Len(o) + Len(t) = 4 * n
      BY <1>4, <1>5, <1>13, <2>1
    <3>2. \A i \in 1..Len(o) : out[i] = o[i]
      BY <2>1, <2>3, <2>4
    <3>3. out[(4 * q + r) + 1] = last
      <4>1. (4 * q + r) + 1 \in 1..(Len(o) + Len(t)) /\ ~((4 * q + r) + 1 <= Len(o))
            /\ ((4 * q + r) + 1) - Len(o) = 1
        BY <1>4, <2>1
      <4>. QED
        BY <2>1, <2>3, <2>4, <4>1, Zenon
    <3>4. ASSUME NEW i \in ((4 * q + r) + 2)..(4 * q + 4) PROVE out[i] = 64
      <4>1. i \in 1..(Len(o) + Len(t)) /\ ~(i <= Len(o)) /\ i - Len(o) \in 2..(4 - r)
        BY <1>4, <2>1
      <4>. QED
        BY <2>1, <2>3, <2>4, <4>1, Zenon
    <3>. QED
      BY <3>1, <3>2, <3>3, <3>4
  <2>6. out = [k \in 1..(4 * n) |-> out[k]]
    <3>1. out \in Seq(Nat) /\ Len(out) = 4 * n
      BY <2>3, <2>4, <2>5, Zenon
    <3>. HIDE DEF out
    <3>. QED
      BY <3>1
  <2>. HIDE DEF out
  <2>7. 4 * q + 4 <= 4 * ((Len(p) + 2) \div 3) /\ 3 * q + 1 \in 1..Len(p)
    BY <1>4, <1>6, <1>13, <2>5
  <2>8. rfc[4 * q + 1] = out[4 * q + 1] /\ rfc[4 * q + 2] = out[4 * q + 2]
        /\ rfc[4 * q + 3] = out[4 * q + 3] /\ rfc[4 * q + 4] = out[4 * q + 4]
    <3>1. PICK a \in Octets : a = p[3 * q + 1]
      BY <1>8, <2>7
    <3>2. PICK left \in Int : left = 8 * (Len(p) - 3 * q) /\ left = 8 * r
      BY <1>4
    <3>3. CASE r = 1
      <4>1. /\ a = IF 3 * q + 1 <= Len(p) THEN p[3 * q + 1] ELSE 0
            /\ 0 = IF 3 * q + 2 <= Len(p) THEN p[3 * q + 2] ELSE 0
            /\ 0 = IF 3 * q + 3 <= Len(p) THEN p[3 * q + 3] ELSE 0
        BY <1>4, <3>1, <3>3
      <4>2. Four(rfc, q, a, 0, 0, left)
        BY <1>9, <2>7, <3>2, <4>1, RfcAt DEF rfc
      <4>3. ~(0 >= left) /\ ~(6 >= left) /\ 12 >= left /\ 18 >= left
        BY <3>2, <3>3
      <4>4. rfc[4 * q + 1] = a \div 4 /\ rfc[4 * q + 2] = (a % 4) * 16 + (0 \div 16)
            /\ rfc[4 * q + 3] = 64 /\ rfc[4 * q + 4] = 64
        BY <4>2, <4>3 DEF Four
      <4>5. last = (a % 4) * 16 /\ o[4 * q + 1] = a \div 4
        BY <1>1, <1>2, <3>1, <3>3 DEF EncodedAt
      <4>6. (a % 4) * 16 + (0 \div 16) = last
        BY <4>5
      <4>7. out[4 * q + 1] = a \div 4
        <5>1. 4 * q + 1 \in 1..Len(o)
          BY <1>4, <3>3
        <5>2. out[4 * q + 1] = o[4 * q + 1]
          BY <2>5, <5>1, Zenon
        <5>. QED
          BY <4>5, <5>2
      <4>8. out[4 * q + 2] = last /\ out[4 * q + 3] = 64 /\ out[4 * q + 4] = 64
        <5>1. (4 * q + r) + 1 = 4 * q + 2 /\ 4 * q + 3 \in ((4 * q + r) + 2)..(4 * q + 4)
              /\ 4 * q + 4 \in ((4 * q + r) + 2)..(4 * q + 4)
          BY <3>3
        <5>. QED
          BY <2>5, <5>1, Zenon
      <4>. QED
        BY <4>4, <4>6, <4>7, <4>8
    <3>4. CASE r = 2
      <4>1. PICK b \in Octets : b = p[3 * q + 2] /\ 3 * q + 2 <= Len(p)
        BY <1>4, <1>8, <3>4
      <4>2. /\ a = IF 3 * q + 1 <= Len(p) THEN p[3 * q + 1] ELSE 0
            /\ b = IF 3 * q + 2 <= Len(p) THEN p[3 * q + 2] ELSE 0
            /\ 0 = IF 3 * q + 3 <= Len(p) THEN p[3 * q + 3] ELSE 0
        BY <1>4, <3>1, <3>4, <4>1
      <4>3. Four(rfc, q, a, b, 0, left)
        BY <1>9, <2>7, <3>2, <4>2, RfcAt DEF rfc
      <4>4. ~(0 >= left) /\ ~(6 >= left) /\ ~(12 >= left) /\ 18 >= left
        BY <3>2, <3>4
      <4>5. /\ rfc[4 * q + 1] = a \div 4 /\ rfc[4 * q + 2] = (a % 4) * 16 + (b \div 16)
            /\ rfc[4 * q + 3] = (b % 16) * 4 + (0 \div 64) /\ rfc[4 * q + 4] = 64
        BY <4>3, <4>4 DEF Four
      <4>6. /\ last = (b % 16) * 4 /\ o[4 * q + 1] = a \div 4
            /\ o[4 * q + 2] = (a % 4) * 16 + (b \div 16)
        BY <1>1, <1>2, <3>1, <3>4, <4>1 DEF EncodedAt
      <4>7. (b % 16) * 4 + (0 \div 64) = last
        BY <4>6
      <4>8. out[4 * q + 1] = o[4 * q + 1] /\ out[4 * q + 2] = o[4 * q + 2]
        <5>1. 4 * q + 1 \in 1..Len(o) /\ 4 * q + 2 \in 1..Len(o)
          BY <1>4, <3>4
        <5>. QED
          BY <2>5, <5>1, Zenon
      <4>9. out[4 * q + 3] = last /\ out[4 * q + 4] = 64
        <5>1. (4 * q + r) + 1 = 4 * q + 3 /\ 4 * q + 4 \in ((4 * q + r) + 2)..(4 * q + 4)
          BY <3>4
        <5>. QED
          BY <2>5, <5>1, Zenon
      <4>. QED
        BY <4>5, <4>6, <4>7, <4>8, <4>9
    <3>. QED
      BY <1>13, <3>3, <3>4
  <2>9. \A k \in 1..(4 * n) : rfc[k] = out[k]
    <3>1. \A k \in 1..(4 * n) : k \in 1..(4 * q) \/ k = 4 * q + 1 \/ k = 4 * q + 2
                                \/ k = 4 * q + 3 \/ k = 4 * q + 4
      BY <2>5
    <3>2. \A k \in 1..(4 * q) : k \in 1..Len(o)
      BY <1>4
    <3>. QED
      BY <1>11, <2>5, <2>8, <3>1, <3>2
  <2>10. out = rfc
    BY <1>7, <2>6, <2>9
  <2>11. [done EXCEPT !.output = <<>>] = Code!state
    <3>1. done = [triplet_index |-> 0, last_encoded_value |-> 0, output |-> o \o t]
      BY <2>2 DEF Code!state
    <3>. QED
      BY <3>1 DEF Code!state
  <2>. QED
    BY <2>10, <2>11 DEF rfc, out, done
<1>. QED
  BY <1>12, <1>13

(* An encoder stays an encoder.                                            *)
LEMMA OctetType ==
  ASSUME NEW rest \in Encoders, NEW c \in Octets
  PROVE  Code!octet(rest, c) \in Encoders
<1>1. rest.triplet_index \in 0..2 /\ rest.last_encoded_value \in Nat /\ rest.output \in Seq(Nat)
  BY DEF Encoders
<1>2. PICK o \in Seq(Nat) : o = rest.output
  BY <1>1
<1>3. CASE rest.triplet_index = 0
  <2>1. PICK u \in Nat, l \in Nat : u = c \div 4 /\ l = (c % 4) * 16
    BY OctetParts
  <2>2. Code!octet(rest, c) = [triplet_index |-> 1, last_encoded_value |-> l, output |-> Append(o, u)]
    BY <1>2, <1>3, <2>1 DEF Code!octet
  <2>. QED
    BY <2>2 DEF Encoders
<1>4. CASE rest.triplet_index = 1
  <2>1. PICK u \in Nat, l \in Nat : u = rest.last_encoded_value + (c \div 16) /\ l = (c % 16) * 4
    BY <1>1, OctetParts
  <2>2. Code!octet(rest, c) = [triplet_index |-> 2, last_encoded_value |-> l, output |-> Append(o, u)]
    BY <1>2, <1>4, <2>1 DEF Code!octet, Code!combine
  <2>. QED
    BY <2>2 DEF Encoders
<1>5. CASE rest.triplet_index = 2
  <2>1. PICK u \in Nat, v \in Nat : u = rest.last_encoded_value + (c \div 64) /\ v = c % 64
    BY <1>1, OctetParts
  <2>2. Code!octet(rest, c) = [triplet_index |-> 0, last_encoded_value |-> 0, output |-> o \o <<u, v>>]
    BY <1>2, <1>5, <2>1 DEF Code!octet, Code!combine
  <2>. QED
    BY <2>2 DEF Encoders
<1>. QED
  BY <1>1, <1>3, <1>4, <1>5

(* encode takes the octets of a chunk one by one.                          *)
LEMMA EncodeSteps ==
  ASSUME NEW chunk \in Seq(Octets), NEW rest \in Encoders
  PROVE  \E g : /\ Code!encode(chunk, rest) = g[DOMAIN chunk]
                /\ g[{}] = rest
                /\ \A U \in SUBSET DOMAIN chunk : U # {} =>
                     g[U] = Code!octet(g[U \ {Code!Max(U)}], chunk[Code!Max(U)])
<1>. DEFINE D == DOMAIN chunk
            pick == [U \in SUBSET D |-> Code!Max(U)]
            step == [a \in D \X Encoders |-> Code!octet(a[2], chunk[a[1]])]
<1>1. D = 1..Len(chunk) /\ Len(chunk) \in Nat /\ \A i \in D : chunk[i] \in Octets
  OBVIOUS
<1>2. IsFiniteSet(D)
  BY <1>1, FS_Interval
<1>3. \A U \in SUBSET D : U # {} => pick[U] \in U
  BY <1>1, LargestOf
<1>4. \A x \in D, v \in Encoders : step[<<x, v>>] = Code!octet(v, chunk[x])
  OBVIOUS
<1>. HIDE DEF step
<1>5. \A x \in D, v \in Encoders : step[<<x, v>>] \in Encoders
  BY <1>1, <1>4, OctetType
<1>. HIDE DEF pick
<1>6. PICK g \in [SUBSET D -> Encoders] : IsFold(g, rest, pick, step, D)
  <2>. HIDE DEF D
  <2>. QED
    BY <1>2, <1>3, <1>5, FoldExists
<1>7. ASSUME NEW U \in SUBSET D
      PROVE  g[U] = IF U = {} THEN rest ELSE Code!octet(g[U \ {Code!Max(U)}], chunk[Code!Max(U)])
  <2>. HIDE DEF D
  <2>1. CASE U = {}
    BY <1>6, <2>1 DEF IsFold
  <2>2. CASE U # {}
    <3>1. pick[U] = Code!Max(U) /\ pick[U] \in D /\ g[U \ {pick[U]}] \in Encoders
      BY <1>3, <2>2 DEF pick
    <3>2. g[U] = step[<<pick[U], g[U \ {pick[U]}]>>]
      BY <1>6, <2>2 DEF IsFold
    <3>. QED
      BY <1>4, <2>2, <3>1, <3>2
  <2>. QED
    BY <2>1, <2>2
<1>8. g = [U \in SUBSET D |->
             IF U = {} THEN rest ELSE Code!octet(g[U \ {Code!Max(U)}], chunk[Code!Max(U)])]
  <2>1. g = [U \in SUBSET D |-> g[U]]
    OBVIOUS
  <2>. QED
    BY <1>7, <2>1
<1>. DEFINE h == CHOOSE h : h = [U \in SUBSET DOMAIN chunk |->
                   IF U = {} THEN rest
                   ELSE LET x == Code!Max(U) IN Code!octet(h[U \ {x}], chunk[x])]
<1>9. h = [U \in SUBSET D |->
             IF U = {} THEN rest ELSE Code!octet(h[U \ {Code!Max(U)}], chunk[Code!Max(U)])]
  BY <1>8
<1>10. Code!encode(chunk, rest) = h[DOMAIN chunk]
  BY DEF Code!encode, Code!FoldLeft, Code!MapThenFoldSet
<1>. HIDE DEF h
<1>11. h[{}] = rest /\ \A U \in SUBSET D : U # {} =>
          h[U] = Code!octet(h[U \ {Code!Max(U)}], chunk[Code!Max(U)])
  BY <1>9
<1>. QED
  BY <1>10, <1>11

(* However much it has encoded, a chunk adds its octets.                   *)
LEMMA ChunkEncoded ==
  ASSUME NEW p \in Seq(Octets), NEW rest, Encoded(rest, p), NEW chunk \in Seq(Octets)
  PROVE  Encoded(Code!encode(chunk, rest), p \o chunk)
<1>1. rest \in Encoders
  BY DEF Encoded
<1>2. PICK g : /\ Code!encode(chunk, rest) = g[DOMAIN chunk]
               /\ g[{}] = rest
               /\ \A U \in SUBSET DOMAIN chunk : U # {} =>
                    g[U] = Code!octet(g[U \ {Code!Max(U)}], chunk[Code!Max(U)])
  BY <1>1, EncodeSteps
<1>3. DOMAIN chunk = 1..Len(chunk) /\ Len(chunk) \in Nat /\ \A i \in DOMAIN chunk : chunk[i] \in Octets
  OBVIOUS
<1>. DEFINE done(k) == p \o SubSeq(chunk, 1, k)
            Bad == {k \in 0..Len(chunk) : ~Encoded(g[1..k], done(k))}
<1>4. Bad = {}
  <2>. SUFFICES ASSUME Bad # {} PROVE FALSE
    OBVIOUS
  <2>1. Bad \in SUBSET Nat
    OBVIOUS
  <2>2. PICK k \in Bad : \A j \in Bad : k <= j
    <3>. HIDE DEF Bad
    <3>. QED
      BY <2>1, SmallestOf
  <2>3. k # 0
    <3>1. 1..0 = {} /\ done(0) = p
      OBVIOUS
    <3>. QED
      BY <1>2, <3>1
  <2>4. k \in 1..Len(chunk) /\ k - 1 \in 0..Len(chunk) /\ k - 1 \notin Bad
    BY <2>2, <2>3
  <2>11. k \in Nat /\ k \in 1..k /\ \A i \in 1..k : i \in 1..Len(chunk)
    <3>. HIDE DEF Bad
    <3>. QED
      BY <1>3, <2>4
  <2>5. Encoded(g[1..(k - 1)], done(k - 1))
    BY <2>4
  <2>6. Code!Max(1..k) = k /\ (1..k) \ {k} = 1..(k - 1)
    <3>1. 1..k # {}
      BY <2>11
    <3>2. Code!Max(1..k) \in 1..k /\ \A j \in 1..k : Code!Max(1..k) >= j
      <4>1. k \in Nat /\ 1..k \in SUBSET (1..k)
        BY <2>11
      <4>. QED
        BY <3>1, <4>1, LargestOf
    <3>. HIDE DEF Bad
    <3>. QED
      BY <2>11, <3>2
  <2>7. g[1..k] = Code!octet(g[1..(k - 1)], chunk[k])
    <3>1. 1..k \in SUBSET DOMAIN chunk /\ 1..k # {}
      BY <1>3, <2>11
    <3>. QED
      BY <1>2, <2>6, <3>1
  <2>8. done(k - 1) \in Seq(Octets) /\ chunk[k] \in Octets
    BY <1>3, <2>4
  <2>9. done(k) = Append(done(k - 1), chunk[k])
    <3>. HIDE DEF Bad
    <3>1. SubSeq(chunk, 1, k) = Append(SubSeq(chunk, 1, k - 1), chunk[k])
      BY <2>4
    <3>2. PICK s \in Seq(Octets), x \in Octets : s = SubSeq(chunk, 1, k - 1) /\ x = chunk[k]
      <4>1. SubSeq(chunk, 1, k - 1) \in Seq(Octets)
        BY <1>3, <2>4
      <4>. QED
        BY <2>8, <4>1
    <3>3. p \o Append(s, x) = Append(p \o s, x)
      OBVIOUS
    <3>. QED
      BY <3>1, <3>2, <3>3
  <2>10. Encoded(g[1..k], done(k))
    <3>. HIDE DEF done
    <3>. QED
      BY <2>5, <2>7, <2>8, <2>9, OctetEncoded
  <2>. QED
    BY <2>10
<1>5. Encoded(g[1..Len(chunk)], done(Len(chunk)))
  BY <1>3, <1>4
<1>6. done(Len(chunk)) = p \o chunk
  OBVIOUS
<1>. QED
  BY <1>2, <1>3, <1>5, <1>6

(* Base64: of any octets, however they are cut in two chunks, the encoder  *)
(* writes what RFC 4648 says, and keeps nothing for the next input.        *)
THEOREM AnyChunksAgree ==
  ASSUME NEW first \in Seq(Octets), NEW second \in Seq(Octets)
  PROVE  Code!ChunksAgree(first, second)
<1>1. Encoded(Code!encode(first, Code!state), first)
  <2>1. <<>> \o first = first /\ <<>> \in Seq(Octets)
    OBVIOUS
  <2>2. Encoded(Code!encode(first, Code!state), <<>> \o first)
    BY <2>1, NothingEncoded, ChunkEncoded
  <2>. QED
    BY <2>1, <2>2
<1>. DEFINE two == Code!encode(second, Code!encode(first, Code!state))
            all == Code!encode(first \o second, Code!state)
<1>2. Encoded(two, first \o second)
  BY <1>1, ChunkEncoded
<1>3. first \o second \in Seq(Octets)
  OBVIOUS
<1>4. Encoded(all, first \o second)
  <2>1. <<>> \o (first \o second) = first \o second /\ <<>> \in Seq(Octets)
    OBVIOUS
  <2>2. Encoded(all, <<>> \o (first \o second))
    BY <1>3, <2>1, NothingEncoded, ChunkEncoded
  <2>. QED
    BY <2>1, <2>2
<1>. QED
  BY <1>2, <1>3, <1>4, RestEncoded DEF Code!ChunksAgree, Code!encodeAll

-----------------------------------------------------------------------------
(* Convert: bytes survive the wide string and back, and are the characters *)
(* they were meant to be just if they are below 128.                       *)
THEOREM ConversionsKeepBytes ==
  ASSUME NEW bytes \in Seq(Octets)
  PROVE  Util!ConversionsAgree(bytes)
<1>1. bytes = [i \in DOMAIN bytes |-> bytes[i]] /\ \A i \in DOMAIN bytes : bytes[i] \in Octets
  OBVIOUS
<1>. DEFINE w == Util!Widen(bytes)
            n == Util!Narrow(w)
<1>2. DOMAIN w = DOMAIN bytes
  BY DEF Util!Widen
<1>3. ASSUME NEW i \in DOMAIN bytes
      PROVE  /\ bytes[i] \in Int /\ n[i] = bytes[i]
             /\ w[i] = IF bytes[i] < 128 THEN bytes[i] ELSE bytes[i] - 256
  <2>1. bytes[i] \in 0..255
    BY <1>1 DEF Octets
  <2>2. w[i] = IF bytes[i] < 128 THEN bytes[i] ELSE bytes[i] - 256
    BY DEF Util!Widen
  <2>3. n[i] = w[i] % 256
    BY <1>2 DEF Util!Narrow
  <2>4. PICK b \in 0..255 : b = bytes[i]
    BY <2>1
  <2>5. (IF b < 128 THEN b ELSE b - 256) % 256 = b
    OBVIOUS
  <2>6. n[i] = bytes[i]
    BY <2>2, <2>3, <2>4, <2>5, Zenon
  <2>. QED
    BY <2>2, <2>4, <2>6
<1>4. n = bytes
  <2>1. n = [i \in DOMAIN bytes |-> n[i]]
    BY <1>2 DEF Util!Narrow
  <2>. HIDE DEF n, w
  <2>. QED
    BY <1>1, <1>3, <2>1
<1>5. w = [i \in DOMAIN bytes |-> w[i]]
  BY DEF Util!Widen
<1>. HIDE DEF n, w
<1>6. ASSUME \A i \in DOMAIN bytes : bytes[i] < 128 PROVE w = bytes
  BY <1>1, <1>3, <1>5, <1>6
<1>7. ASSUME w = bytes, NEW i \in DOMAIN bytes PROVE bytes[i] < 128
  <2>1. bytes[i] = IF bytes[i] < 128 THEN bytes[i] ELSE bytes[i] - 256
    BY <1>3, <1>7
  <2>2. bytes[i] \in Int
    BY <1>3
  <2>. QED
    BY <2>1, <2>2
<1>. QED
  BY <1>4, <1>6, <1>7 DEF Util!ConversionsAgree, n, w

(* LastOf is the last position of one of the characters, or 0.             *)
LEMMA LastPosition ==
  ASSUME NEW S, NEW s \in Seq(S), NEW set
  PROVE  /\ Util!LastOf(s, set) \in 0..Len(s)
         /\ Util!LastOf(s, set) # 0 => s[Util!LastOf(s, set)] \in set
         /\ \A i \in 1..Len(s) : i > Util!LastOf(s, set) => s[i] \notin set
<1>. DEFINE P == {i \in 1..Len(s) : s[i] \in set} \cup {0}
            D == {Len(s) - i : i \in P}
<1>0. Len(s) \in Nat
  OBVIOUS
<1>1. D \in SUBSET Nat /\ D # {}
  <2>1. \A i \in P : Len(s) - i \in Nat
    BY <1>0
  <2>2. Len(s) - 0 \in D
    OBVIOUS
  <2>. QED
    BY <2>1, <2>2
<1>. HIDE DEF D
<1>2. PICK m \in D : \A k \in D : m <= k
  BY <1>1, SmallestOf
<1>3. PICK x \in P : m = Len(s) - x
  BY DEF D
<1>4. ASSUME NEW k \in P PROVE x >= k
  <2>1. m <= Len(s) - k
    BY <1>2 DEF D
  <2>2. x \in Int /\ k \in Int
    OBVIOUS
  <2>. QED
    BY <1>0, <1>3, <2>1, <2>2
<1>5. \A y \in P : y \in Int
  OBVIOUS
<1>. HIDE DEF P
<1>6. Util!LastOf(s, set) = Util!Max(P)
  BY DEF Util!LastOf, P
<1>7. Util!LastOf(s, set) \in P /\ \A k \in P : Util!LastOf(s, set) >= k
  BY <1>4, <1>6 DEF Util!Max
<1>8. PICK l \in P : l = Util!LastOf(s, set) /\ \A k \in P : l >= k
  BY <1>7
<1>9. l \in 0..Len(s) /\ (l # 0 => s[l] \in set)
  BY <1>0 DEF P
<1>10. ASSUME NEW i \in 1..Len(s), i > l PROVE s[i] \notin set
  <2>1. i \notin P
    BY <1>5, <1>8, <1>10
  <2>. QED
    BY <2>1 DEF P
<1>. QED
  BY <1>8, <1>9, <1>10

(* A sequence is its length and its elements.                              *)
LEMMA SameElements ==
  ASSUME NEW S, NEW s \in Seq(S), NEW t \in Seq(S), Len(s) = Len(t),
         \A i \in 1..Len(s) : s[i] = t[i]
  PROVE  s = t
  OBVIOUS

(* The rest of a sequence behind a position.                               *)
LEMMA RestOf ==
  ASSUME NEW S, NEW s \in Seq(S), NEW i \in 1..(Len(s) + 1)
  PROVE  /\ Util!From(s, i) \in Seq(S) /\ Len(Util!From(s, i)) = Len(s) - i + 1
         /\ \A k \in 1..(Len(s) - i + 1) : Util!From(s, i)[k] = s[i + k - 1]
         /\ SubSeq(s, 1, i - 1) \in Seq(S) /\ Len(SubSeq(s, 1, i - 1)) = i - 1
         /\ \A k \in 1..(i - 1) : SubSeq(s, 1, i - 1)[k] = s[k]
         /\ SubSeq(s, 1, i - 1) \o Util!From(s, i) = s
<1>. DEFINE f == Util!From(s, i)
            b == SubSeq(s, 1, i - 1)
<1>1. f \in Seq(S) /\ Len(f) = Len(s) - i + 1 /\ \A k \in 1..(Len(s) - i + 1) : f[k] = s[i + k - 1]
  BY DEF Util!From
<1>2. b \in Seq(S) /\ Len(b) = i - 1 /\ \A k \in 1..(i - 1) : b[k] = s[k]
  OBVIOUS
<1>. HIDE DEF f, b
<1>0. /\ b \o f \in Seq(S) /\ Len(b \o f) = Len(b) + Len(f)
      /\ \A k \in 1..(Len(b) + Len(f)) : (b \o f)[k] = IF k <= Len(b) THEN b[k] ELSE f[k - Len(b)]
  BY <1>1, <1>2, ConcatProperties, Zenon
<1>3. b \o f \in Seq(S) /\ Len(b \o f) = Len(s) /\ Len(b) + Len(f) = Len(s)
  BY <1>0, <1>1, <1>2
<1>4. ASSUME NEW k \in 1..Len(s) PROVE (b \o f)[k] = s[k]
  <2>1. (b \o f)[k] = IF k <= Len(b) THEN b[k] ELSE f[k - Len(b)]
    BY <1>0, <1>3
  <2>2. CASE k <= i - 1
    BY <1>2, <2>1, <2>2
  <2>3. CASE k > i - 1
    <3>1. k - Len(b) \in 1..(Len(s) - i + 1) /\ i + (k - Len(b)) - 1 = k /\ ~(k <= Len(b))
      BY <1>2, <2>3
    <3>. QED
      BY <1>1, <2>1, <3>1
  <2>4. k <= i - 1 \/ k > i - 1
    OBVIOUS
  <2>. QED
    BY <2>2, <2>3, <2>4, Zenon
<1>5. b \o f = s
  <2>1. \A k \in 1..Len(b \o f) : (b \o f)[k] = s[k]
    BY <1>3, <1>4
  <2>. QED
    BY <1>3, <2>1, SameElements, Zenon
<1>. QED
  BY <1>1, <1>2, <1>5 DEF f, b

(* Two parts of a sequence, apart again.                                   *)
LEMMA PartsOf ==
  ASSUME NEW S, NEW r \in Seq(S), NEW p \in Seq(S)
  PROVE  /\ r \o p \in Seq(S) /\ Len(r \o p) = Len(r) + Len(p)
         /\ SubSeq(r \o p, 1, Len(r)) = r /\ Util!From(r \o p, Len(r) + 1) = p
<1>. DEFINE c == r \o p
<1>1. c \in Seq(S) /\ Len(c) = Len(r) + Len(p) /\ Len(r) \in Nat /\ Len(p) \in Nat
  OBVIOUS
<1>2. \A k \in 1..Len(c) : c[k] = IF k <= Len(r) THEN r[k] ELSE p[k - Len(r)]
  OBVIOUS
<1>. HIDE DEF c
<1>3. PICK i \in 1..(Len(c) + 1) : i = Len(r) + 1 /\ i - 1 = Len(r)
  BY <1>1
<1>. DEFINE f == Util!From(c, i)
            b == SubSeq(c, 1, i - 1)
<1>4. /\ f \in Seq(S) /\ Len(f) = Len(c) - i + 1
      /\ \A k \in 1..(Len(c) - i + 1) : f[k] = c[i + k - 1]
      /\ b \in Seq(S) /\ Len(b) = i - 1 /\ \A k \in 1..(i - 1) : b[k] = c[k]
  BY <1>1, RestOf
<1>. HIDE DEF f, b
<1>5. b = r
  <2>1. Len(b) = Len(r)
    BY <1>3, <1>4
  <2>2. ASSUME NEW k \in 1..Len(r) PROVE b[k] = r[k]
    <3>1. k \in 1..(i - 1) /\ k \in 1..Len(c) /\ k <= Len(r)
      BY <1>1, <1>3
    <3>. QED
      BY <1>2, <1>4, <3>1, Zenon
  <2>. QED
    BY <1>4, <2>1, <2>2, SameElements, Zenon
<1>6. f = p
  <2>1. Len(f) = Len(p)
    BY <1>1, <1>3, <1>4
  <2>2. ASSUME NEW k \in 1..Len(p) PROVE f[k] = p[k]
    <3>1. k \in 1..(Len(c) - i + 1) /\ i + k - 1 = Len(r) + k /\ Len(r) + k \in 1..Len(c)
          /\ ~(Len(r) + k <= Len(r)) /\ (Len(r) + k) - Len(r) = k
      BY <1>1, <1>3
    <3>2. f[k] = c[i + k - 1]
      BY <1>4, <3>1
    <3>3. c[Len(r) + k] = p[(Len(r) + k) - Len(r)]
      BY <1>2, <3>1
    <3>. QED
      BY <3>1, <3>2, <3>3
  <2>. QED
    BY <1>4, <2>1, <2>2, SameElements, Zenon
<1>. QED
  BY <1>1, <1>3, <1>5, <1>6 DEF c, f, b

(* A path is its directory, a delimiter, the name and the extension.       *)
LEMMA PartsOfPath ==
  ASSUME NEW S, NEW p \in Seq(S)
  PROVE  LET file == Util!SplitFilename(p)
             name == Util!GetFileName(p)
         IN /\ \/ name = p /\ file.path = <<>>
               \/ \E d \in Util!PathDelim : p = file.path \o <<d>> \o name
            /\ Util!PathDelim \cap Util!ToSet(name) = {}
            /\ file.ext # <<>> => "." = Head(file.ext) /\ "." \notin Util!ToSet(Tail(file.ext))
<1>. DEFINE file == Util!SplitFilename(p)
<1>1. PICK d \in 0..Len(p) :
        /\ d = Util!LastOf(p, Util!PathDelim) /\ (d # 0 => p[d] \in Util!PathDelim)
        /\ \A i \in 1..Len(p) : i > d => p[i] \notin Util!PathDelim
  BY LastPosition
<1>3. PICK i \in 1..(Len(p) + 1) : i = d + 1 /\ i - 1 = d
  OBVIOUS
<1>11. Len(p) \in Nat /\ Len(p) - i + 1 = Len(p) - d /\ \A k \in Nat : i + k - 1 = d + k
  BY <1>3
<1>4. PICK f \in Seq(S) :
        /\ f = Util!From(p, d + 1) /\ Len(f) = Len(p) - d
        /\ \A k \in 1..(Len(p) - d) : f[k] = p[d + k]
        /\ SubSeq(p, 1, d) \in Seq(S) /\ Len(SubSeq(p, 1, d)) = d
        /\ \A k \in 1..d : SubSeq(p, 1, d)[k] = p[k]
        /\ SubSeq(p, 1, d) \o f = p
  <2>1. PICK f \in Seq(S) :
        /\ f = Util!From(p, i) /\ Len(f) = Len(p) - i + 1
        /\ \A k \in 1..(Len(p) - i + 1) : f[k] = p[i + k - 1]
        /\ SubSeq(p, 1, i - 1) \in Seq(S) /\ Len(SubSeq(p, 1, i - 1)) = i - 1
        /\ \A k \in 1..(i - 1) : SubSeq(p, 1, i - 1)[k] = p[k]
        /\ SubSeq(p, 1, i - 1) \o f = p
    BY RestOf
  <2>2. \A k \in 1..(Len(p) - d) : f[k] = p[d + k]
    <3>1. d \in Int /\ i = d + 1 /\ Len(p) \in Nat
      BY <1>11
    <3>2. ASSUME NEW k \in 1..(Len(p) - d) PROVE f[k] = p[d + k]
      <4>1. k \in 1..(Len(p) - i + 1) /\ i + k - 1 = d + k
        BY <3>1
      <4>. QED
        BY <2>1, <4>1
    <3>. QED
      BY <3>2
  <2>. QED
    BY <1>3, <1>11, <2>1, <2>2
<1>5. PICK dot \in 0..Len(f) :
        /\ dot = Util!LastOf(f, {"."}) /\ (dot # 0 => f[dot] \in {"."})
        /\ \A k \in 1..Len(f) : k > dot => f[k] \notin {"."}
  BY LastPosition
<1>2. file = [path |-> IF d = 0 THEN <<>> ELSE SubSeq(p, 1, d - 1),
              name |-> IF dot = 0 THEN f ELSE SubSeq(f, 1, dot - 1),
              ext |-> IF dot = 0 THEN <<>> ELSE Util!From(f, dot)]
  BY <1>1, <1>4, <1>5 DEF Util!SplitFilename
<1>6. Util!GetFileName(p) = f
  <2>1. Util!GetFileName(p) = file.name \o file.ext
    BY DEF Util!GetFileName
  <2>. HIDE DEF file
  <2>2. CASE dot = 0
    <3>1. file.name = f /\ file.ext = <<>>
      BY <1>2, <2>2
    <3>2. f \o <<>> = f
      BY <1>4
    <3>. QED
      BY <2>1, <3>1, <3>2
  <2>3. CASE dot # 0
    <3>1. file.name = SubSeq(f, 1, dot - 1) /\ file.ext = Util!From(f, dot)
      BY <1>2, <2>3
    <3>2. dot \in 1..(Len(f) + 1)
      BY <1>5, <2>3
    <3>3. SubSeq(f, 1, dot - 1) \o Util!From(f, dot) = f
      BY <1>4, <3>2, RestOf
    <3>. QED
      BY <2>1, <3>1, <3>3
  <2>. QED
    BY <2>2, <2>3
<1>. HIDE DEF file
<1>7. ASSUME d = 0 PROVE f = p /\ file.path = <<>>
  <2>1. file.path = <<>>
    BY <1>2, <1>7
  <2>2. f = p
    <3>1. \A k \in 1..Len(f) : f[k] = p[k]
      BY <1>1, <1>4, <1>7
    <3>2. Len(f) = Len(p)
      BY <1>1, <1>4, <1>7
    <3>. QED
      BY <1>4, <3>1, <3>2, SameElements, Zenon
  <2>. QED
    BY <2>1, <2>2
<1>8. ASSUME d # 0 PROVE p = file.path \o <<p[d]>> \o f
  <2>1. file.path = SubSeq(p, 1, d - 1) /\ d \in 1..Len(p)
    BY <1>1, <1>2, <1>8
  <2>2. SubSeq(p, 1, d) = SubSeq(p, 1, d - 1) \o <<p[d]>>
    <3>. DEFINE a == SubSeq(p, 1, d - 1)
                b == <<p[d]>>
    <3>1. a \in Seq(S) /\ Len(a) = d - 1 /\ \A k \in 1..(d - 1) : a[k] = p[k]
      BY <2>1
    <3>2. b \in Seq(S) /\ Len(b) = 1 /\ b[1] = p[d]
      BY <2>1
    <3>. HIDE DEF a, b
    <3>3. /\ a \o b \in Seq(S) /\ Len(a \o b) = Len(a) + Len(b)
          /\ \A k \in 1..(Len(a) + Len(b)) : (a \o b)[k] = IF k <= Len(a) THEN a[k] ELSE b[k - Len(a)]
      BY <3>1, <3>2, ConcatProperties, Zenon
    <3>4. Len(a) + Len(b) = d
      BY <2>1, <3>1, <3>2
    <3>5. ASSUME NEW k \in 1..d PROVE (a \o b)[k] = p[k]
      <4>1. CASE k = d
        <5>1. ~(k <= Len(a)) /\ k - Len(a) = 1
          BY <2>1, <3>1, <4>1
        <5>2. (a \o b)[k] = b[k - Len(a)]
          BY <3>3, <3>4, <5>1
        <5>. QED
          BY <3>2, <4>1, <5>1, <5>2
      <4>2. CASE k # d
        <5>1. k <= Len(a) /\ k \in 1..(d - 1)
          BY <2>1, <3>1, <4>2
        <5>. QED
          BY <3>1, <3>3, <3>4, <5>1
      <4>. QED
        BY <4>1, <4>2
    <3>6. /\ Len(SubSeq(p, 1, d)) = Len(a \o b)
          /\ \A k \in 1..Len(SubSeq(p, 1, d)) : SubSeq(p, 1, d)[k] = (a \o b)[k]
      BY <1>4, <3>3, <3>4, <3>5
    <3>7. SubSeq(p, 1, d) = a \o b
      BY <1>4, <3>3, <3>6, SameElements, Zenon
    <3>. QED
      BY <3>7 DEF a, b
  <2>3. p = file.path \o <<p[d]>> \o f
    BY <1>4, <2>1, <2>2
  <2>. QED
    BY <2>3
<1>9. Util!PathDelim \cap Util!ToSet(f) = {}
  <2>1. \A k \in DOMAIN f : f[k] \notin Util!PathDelim
    <3>1. DOMAIN f = 1..(Len(p) - d)
      BY <1>1, <1>4
    <3>2. \A k \in 1..(Len(p) - d) : d + k \in 1..Len(p) /\ d + k > d
      BY <1>1
    <3>. QED
      BY <1>1, <1>4, <3>1, <3>2
  <2>. QED
    BY <2>1 DEF Util!ToSet
<1>10. ASSUME file.ext # <<>>
       PROVE  "." = Head(file.ext) /\ "." \notin Util!ToSet(Tail(file.ext))
  <2>. DEFINE x == Util!From(f, dot)
  <2>1. dot # 0 /\ file.ext = x
    BY <1>2, <1>10
  <2>2. dot \in 1..(Len(f) + 1) /\ dot \in 1..Len(f)
    BY <1>5, <2>1
  <2>3. x \in Seq(S) /\ Len(x) = Len(f) - dot + 1
        /\ \A k \in 1..(Len(f) - dot + 1) : x[k] = f[dot + k - 1]
    BY <1>4, <2>2, RestOf
  <2>. HIDE DEF x
  <2>4. x[1] = "."
    <3>1. 1 \in 1..(Len(f) - dot + 1) /\ dot + 1 - 1 = dot
      BY <2>2
    <3>2. x[1] = f[dot + 1 - 1]
      BY <2>3, <3>1
    <3>. QED
      BY <1>5, <2>1, <3>1, <3>2
  <2>5. Len(x) > 0 /\ x # <<>>
    BY <2>2, <2>3
  <2>6. Head(x) = "."
    BY <2>3, <2>4, <2>5
  <2>7. ASSUME NEW k \in DOMAIN Tail(x) PROVE Tail(x)[k] # "."
    <3>1. k \in 1..(Len(x) - 1) /\ Tail(x)[k] = x[k + 1]
      BY <2>3, <2>5
    <3>2. k + 1 \in 1..(Len(f) - dot + 1) /\ dot + (k + 1) - 1 = dot + k
          /\ dot + k \in 1..Len(f) /\ dot + k > dot
      <4>1. Len(x) - 1 = Len(f) - dot /\ k \in 1..(Len(f) - dot)
        BY <2>2, <2>3, <3>1
      <4>. QED
        BY <2>2, <4>1
    <3>3. Tail(x)[k] = f[dot + k]
      BY <2>3, <3>1, <3>2
    <3>. QED
      BY <1>5, <3>2, <3>3
  <2>. QED
    BY <2>1, <2>6, <2>7 DEF Util!ToSet
<1>12. \/ f = p /\ file.path = <<>>
       \/ \E c \in Util!PathDelim : p = file.path \o <<c>> \o f
  BY <1>1, <1>7, <1>8
<1>. QED
  BY <1>6, <1>9, <1>10, <1>12 DEF file

(* A path that has been made standard stays as it is: its separators are   *)
(* all of one kind and it ends in one.                                     *)
LEMMA StandardPathStays ==
  ASSUME NEW Chars, NEW p \in Seq(Chars), p # <<>>
  PROVE  Util!StandardisePath(Util!StandardisePath(p)) = Util!StandardisePath(p)
<1>. DEFINE T == Chars \cup {"/"}
<1>9. "/" \in T /\ "/" # "\\"
  OBVIOUS
<1>0. p \in Seq(T) /\ Len(p) \in Nat /\ Len(p) > 0 /\ "/" \in T /\ "/" # "\\"
  <2>1. p \in Seq(T)
    OBVIOUS
  <2>2. Len(p) \in Nat /\ Len(p) > 0
    OBVIOUS
  <2>. QED
    BY <1>9, <2>1, <2>2
<1>. HIDE DEF T
<1>. DEFINE res == [i \in DOMAIN p |-> IF p[i] = "\\" THEN "/" ELSE p[i]]
            std == Util!StandardisePath(p)
<1>1. res \in Seq(T) /\ Len(res) = Len(p) /\ \A i \in 1..Len(p) : res[i] # "\\"
  <2>1. DOMAIN p = 1..Len(p) /\ \A i \in 1..Len(p) : p[i] \in T
    BY <1>0
  <2>2. "/" \in T /\ "/" # "\\"
    BY <1>0
  <2>3. \A i \in 1..Len(p) : (IF p[i] = "\\" THEN "/" ELSE p[i]) \in T
    BY <2>1, <2>2
  <2>4. DOMAIN res = 1..Len(p) /\ \A i \in 1..Len(p) : res[i] \in T /\ res[i] # "\\"
    BY <2>1, <2>2, <2>3
  <2>5. res = [i \in 1..Len(p) |-> res[i]]
    BY <2>1
  <2>. HIDE DEF res
  <2>. QED
    BY <1>0, <2>4, <2>5
<1>2. std = IF Last(res) # "/" THEN Append(res, "/") ELSE res
  BY DEF Util!StandardisePath, Util!Last, Last
<1>. HIDE DEF res
<1>3. std \in Seq(T) /\ Len(std) > 0 /\ std[Len(std)] = "/"
      /\ \A i \in 1..Len(std) : std[i] # "\\"
  <2>1. CASE Last(res) # "/"
    <3>1. std = Append(res, "/")
      BY <1>2, <2>1
    <3>. HIDE DEF std
    <3>2. /\ std \in Seq(T) /\ Len(std) = Len(res) + 1 /\ std[Len(res) + 1] = "/"
          /\ \A i \in 1..Len(res) : std[i] = res[i]
      <4>1. PICK q \in Seq(T) : q = res
        BY <1>1
      <4>2. PICK slash \in T : slash = "/"
        BY <1>0
      <4>3. /\ Append(q, slash) \in Seq(T) /\ Len(Append(q, slash)) = Len(q) + 1
            /\ Append(q, slash)[Len(q) + 1] = slash
        OBVIOUS
      <4>4. \A i \in 1..Len(q) : Append(q, slash)[i] = q[i]
        OBVIOUS
      <4>5. std = Append(q, slash)
        BY <3>1, <4>1, <4>2
      <4>. HIDE DEF res
      <4>. QED
        BY <4>1, <4>2, <4>3, <4>4, <4>5
    <3>. QED
      BY <1>0, <1>1, <3>2
  <2>2. CASE Last(res) = "/"
    <3>1. std = res
      BY <1>2, <2>2
    <3>. HIDE DEF std
    <3>. QED
      BY <1>0, <1>1, <2>2, <3>1 DEF Last
  <2>. QED
    BY <2>1, <2>2
<1>. HIDE DEF std
<1>4. [i \in DOMAIN std |-> IF std[i] = "\\" THEN "/" ELSE std[i]] = std
  <2>1. DOMAIN std = 1..Len(std) /\ std = [i \in DOMAIN std |-> std[i]]
    BY <1>3
  <2>. QED
    BY <1>3, <2>1
<1>5. Util!StandardisePath(std) = std
  BY <1>3, <1>4 DEF Util!StandardisePath, Util!Last
<1>. QED
  BY <1>5 DEF std

(* The paths of StringUtil (SplitFilename, GetFileName, GetExt,            *)
(* GetRelativeFrom, WConcatPath, StandardisePath and its EndsWith and      *)
(* StartsWith), whatever their length and characters: no character is lost *)
(* from a path that is taken apart, a path relative to a root leads back   *)
(* to the file, and a standard path stays as it is.                        *)
THEOREM AnyPathsAgree ==
  ASSUME NEW Chars, NEW root \in Seq(Chars), NEW p \in Seq(Chars)
  PROVE  Util!PathsAgree(root, p)
<1>. DEFINE file == Util!SplitFilename(p)
<1>0. Len(root) \in Nat /\ Len(p) \in Nat /\ (p # <<>> => Len(p) > 0) /\ (root # <<>> => Len(root) > 0)
  OBVIOUS
<1>1. /\ \/ Util!GetFileName(p) = p /\ file.path = <<>>
         \/ \E d \in Util!PathDelim : p = file.path \o <<d>> \o Util!GetFileName(p)
      /\ Util!PathDelim \cap Util!ToSet(Util!GetFileName(p)) = {}
      /\ Util!GetExt(p) # <<>> => /\ "." = Head(Util!GetExt(p))
                                  /\ "." \notin Util!ToSet(Tail(Util!GetExt(p)))
  BY PartsOfPath DEF Util!GetExt
<1>2. ASSUME Util!GetRelativeFrom(root, p) # p
      PROVE  Util!WConcatPath(root, Util!GetRelativeFrom(root, p)) = p
  <2>1. Len(root) < Len(p) /\ root = SubSeq(p, 1, Len(root))
        /\ Util!GetRelativeFrom(root, p) = Util!From(p, Len(root) + 1)
    BY <1>2 DEF Util!GetRelativeFrom, Util!RelativeFrom
  <2>2. PICK i \in 1..(Len(p) + 1) : i = Len(root) + 1 /\ i - 1 = Len(root)
    BY <1>0, <2>1
  <2>3. SubSeq(p, 1, i - 1) \o Util!From(p, i) = p
    BY RestOf
  <2>. QED
    BY <2>1, <2>2, <2>3 DEF Util!WConcatPath
<1>. DEFINE c == root \o p
<1>3. /\ c \in Seq(Chars) /\ Len(c) = Len(root) + Len(p)
      /\ SubSeq(c, 1, Len(root)) = root /\ Util!From(c, Len(root) + 1) = p
  BY PartsOf
<1>4. Util!WConcatPath(root, p) = c
  BY DEF Util!WConcatPath
<1>. HIDE DEF c
<1>5. ASSUME p # <<>>
      PROVE  /\ Util!GetRelativeFrom(root, c) = p /\ Util!WGetRelativeFrom(root, c) = p
             /\ Util!EndsWith(c, p, FALSE)
             /\ Util!StandardisePath(Util!StandardisePath(p)) = Util!StandardisePath(p)
  <2>1. Len(root) < Len(c) /\ Len(c) - Len(p) + 1 = Len(root) + 1 /\ Len(p) <= Len(c)
    BY <1>0, <1>3, <1>5
  <2>2. Util!GetRelativeFrom(root, c) = p /\ Util!WGetRelativeFrom(root, c) = p
    BY <1>3, <2>1 DEF Util!GetRelativeFrom, Util!WGetRelativeFrom, Util!RelativeFrom
  <2>3. Util!EndsWith(c, p, FALSE)
    BY <1>0, <1>3, <1>5, <2>1 DEF Util!EndsWith
  <2>4. Util!StandardisePath(Util!StandardisePath(p)) = Util!StandardisePath(p)
    BY <1>5, StandardPathStays
  <2>. QED
    BY <2>2, <2>3, <2>4
<1>6. ASSUME root # <<>> PROVE Util!StartsWith(c, root, FALSE)
  <2>1. 0 < Len(root) /\ Len(root) <= Len(c)
    BY <1>0, <1>3, <1>6
  <2>. QED
    BY <1>3, <2>1 DEF Util!StartsWith
<1>. QED
  BY <1>1, <1>2, <1>4, <1>5, <1>6 DEF Util!PathsAgree

-----------------------------------------------------------------------------
(* A function is defined by a step that asks for its values at arguments   *)
(* of lower rank only.                                                     *)
AsksLower(D, R, rank, step) ==
  \A x \in D : \A g, h \in [D -> R] :
    (\A y \in D : rank[y] < rank[x] => g[y] = h[y]) => step[x][g] = step[x][h]

Solves(g, D, step) == \A x \in D : g[x] = step[x][g]

LEMMA RecursionExists ==
  ASSUME NEW D, NEW R, NEW base \in R, NEW m \in Nat, NEW rank \in [D -> 0..m],
         NEW step \in [D -> [[D -> R] -> R]], AsksLower(D, R, rank, step)
  PROVE  \E g \in [D -> R] : Solves(g, D, step)
<1>. DEFINE Good(k, g) == \A x \in D : rank[x] < k => g[x] = step[x][g]
            T == {k \in 0..(m + 1) : \E g \in [D -> R] : Good(k, g)}
<1>1. 0 \in T
  <2>1. [x \in D |-> base] \in [D -> R]
    OBVIOUS
  <2>2. \A x \in D : ~(rank[x] < 0)
    OBVIOUS
  <2>3. Good(0, [x \in D |-> base])
    BY <2>2, Zenon
  <2>4. 0 \in 0..(m + 1)
    OBVIOUS
  <2>. HIDE DEF Good
  <2>. QED
    BY <2>1, <2>3, <2>4
<1>2. ASSUME NEW k \in 1..(m + 1), k - 1 \in T PROVE k \in T
  <2>1. PICK g \in [D -> R] : Good(k - 1, g)
    <3>. HIDE DEF Good
    <3>. QED
      BY <1>2
  <2>2. PICK h : h = [x \in D |-> IF rank[x] < k - 1 THEN g[x] ELSE step[x][g]]
    OBVIOUS
  <2>3. h \in [D -> R]
    BY <2>2
  <2>4. ASSUME NEW x \in D, rank[x] < k PROVE h[x] = step[x][h]
    <3>1. rank[x] \in Nat /\ k \in Nat /\ rank[x] <= k - 1
      BY <2>4
    <3>2. \A y \in D : rank[y] < rank[x] => rank[y] < k - 1
      <4>1. \A y \in D : rank[y] \in Nat
        OBVIOUS
      <4>. QED
        BY <3>1, <4>1
    <3>3. \A y \in D : rank[y] < rank[x] => g[y] = h[y]
      BY <2>2, <3>2
    <3>4. step[x][g] = step[x][h]
      BY <2>3, <3>3, Zenon DEF AsksLower
    <3>5. h[x] = step[x][g]
      BY <2>1, <2>2
    <3>. QED
      BY <3>4, <3>5
  <2>5. Good(k, h)
    BY <2>4
  <2>6. k \in 0..(m + 1)
    OBVIOUS
  <2>. HIDE DEF Good
  <2>. QED
    BY <2>3, <2>5, <2>6
<1>3. \E g \in [D -> R] : Good(m + 1, g)
  <2>1. m + 1 \in Nat /\ m + 1 \in 0..(m + 1)
    OBVIOUS
  <2>. HIDE DEF T
  <2>2. m + 1 \in T
    BY <1>1, <1>2, <2>1, UpTo
  <2>. QED
    BY <2>2 DEF T
<1>4. \A x \in D : rank[x] < m + 1
  OBVIOUS
<1>. QED
  BY <1>3, <1>4 DEF Solves

-----------------------------------------------------------------------------
(* The first position from one where something holds, or one behind.       *)
LEMMA FirstPosition ==
  ASSUME NEW l \in Nat, NEW start \in 1..(l + 1), NEW P
  PROVE  \E n \in start..(l + 1) :
           /\ n = Util!Min({i \in start..l : i \in P} \cup {l + 1})
           /\ n <= l => n \in P
           /\ \A i \in start..(n - 1) : i \notin P
<1>. DEFINE S == {i \in start..l : i \in P} \cup {l + 1}
<1>1. S \in SUBSET Nat /\ S # {}
  OBVIOUS
<1>. HIDE DEF S
<1>2. PICK n \in S : n = Min(S) /\ \A k \in S : n <= k
  BY <1>1, LeastOf
<1>3. Util!Min(S) = Min(S)
  BY DEF Min, Util!Min
<1>4. n \in start..(l + 1) /\ (n <= l => n \in P)
  BY <1>2 DEF S
<1>5. ASSUME NEW i \in start..(n - 1) PROVE i \notin P
  <2>1. i \in start..l /\ ~(n <= i)
    BY <1>4
  <2>2. i \notin S
    BY <1>2, <2>1
  <2>. QED
    BY <2>1, <2>2 DEF S
<1>. QED
  BY <1>2, <1>3, <1>4, <1>5 DEF S

Within(s, set, start, to) == \A i \in start..to : s[i] \in set
Without(s, set, start, to) == \A i \in start..to : s[i] \notin set

LEMMA FirstFound ==
  ASSUME NEW s, Len(s) \in Nat, NEW set, NEW start \in 1..(Len(s) + 1)
  PROVE  \E n \in start..(Len(s) + 1) :
           /\ n = Util!FirstOf(s, set, start) /\ (n <= Len(s) => s[n] \in set)
           /\ Without(s, set, start, n - 1)
<1>. DEFINE P == {i \in start..Len(s) : s[i] \in set}
<1>1. PICK n \in start..(Len(s) + 1) :
        /\ n = Util!Min({i \in start..Len(s) : i \in P} \cup {Len(s) + 1})
        /\ n <= Len(s) => n \in P
        /\ \A i \in start..(n - 1) : i \notin P
  <2>. HIDE DEF P
  <2>. QED
    BY FirstPosition
<1>2. {i \in start..Len(s) : i \in P} = {i \in start..Len(s) : s[i] \in set}
  OBVIOUS
<1>3. n = Util!FirstOf(s, set, start)
  BY <1>1, <1>2 DEF Util!FirstOf
<1>4. \A i \in start..(n - 1) : i \in start..Len(s)
  OBVIOUS
<1>. QED
  BY <1>1, <1>3, <1>4 DEF Without

LEMMA FirstNotFound ==
  ASSUME NEW s, Len(s) \in Nat, NEW set, NEW start \in 1..(Len(s) + 1)
  PROVE  \E n \in start..(Len(s) + 1) :
           /\ n = Util!FirstNotOf(s, set, start) /\ (n <= Len(s) => s[n] \notin set)
           /\ Within(s, set, start, n - 1)
<1>. DEFINE P == {i \in start..Len(s) : s[i] \notin set}
<1>1. PICK n \in start..(Len(s) + 1) :
        /\ n = Util!Min({i \in start..Len(s) : i \in P} \cup {Len(s) + 1})
        /\ n <= Len(s) => n \in P
        /\ \A i \in start..(n - 1) : i \notin P
  <2>. HIDE DEF P
  <2>. QED
    BY FirstPosition
<1>2. {i \in start..Len(s) : i \in P} = {i \in start..Len(s) : s[i] \notin set}
  OBVIOUS
<1>3. n = Util!FirstNotOf(s, set, start)
  BY <1>1, <1>2 DEF Util!FirstNotOf
<1>4. \A i \in start..(n - 1) : i \in start..Len(s)
  OBVIOUS
<1>. QED
  BY <1>1, <1>3, <1>4 DEF Within

(* Split finds the tokens one after the other.                             *)
NextToken(s, delims, left) == Util!FirstNotOf(s, delims, Util!FirstOf(s, delims, left))
Token(s, delims, left) == SubSeq(s, left, Util!FirstOf(s, delims, left) - 1)

(* tokens[left] are those from position left.                              *)
TokensOf(tokens, s, delims) ==
  \A left \in 1..(Len(s) + 1) :
    tokens[left] = IF left > Len(s) THEN <<>>
                   ELSE <<Token(s, delims, left)>> \o tokens[NextToken(s, delims, left)]

LEMMA NextTokens ==
  ASSUME NEW S, NEW s \in Seq(S), NEW delims, NEW left \in 1..Len(s)
  PROVE  \E right \in left..(Len(s) + 1), next \in 1..(Len(s) + 1) :
           /\ right = Util!FirstOf(s, delims, left) /\ next = NextToken(s, delims, left)
           /\ Token(s, delims, left) = SubSeq(s, left, right - 1)
           /\ Token(s, delims, left) \in Seq(S)
           /\ right <= next /\ left < next
           /\ (right <= Len(s) => s[right] \in delims) /\ (next <= Len(s) => s[next] \notin delims)
           /\ Without(s, delims, left, right - 1) /\ Within(s, delims, right, next - 1)
<1>0. PICK l \in Nat : l = Len(s)
  OBVIOUS
<1>1. PICK right \in left..(Len(s) + 1) :
        /\ right = Util!FirstOf(s, delims, left) /\ (right <= Len(s) => s[right] \in delims)
        /\ Without(s, delims, left, right - 1)
  <2>1. left \in 1..(Len(s) + 1) /\ Len(s) \in Nat
    OBVIOUS
  <2>. QED
    BY <2>1, FirstFound
<1>2. PICK next \in right..(Len(s) + 1) :
        /\ next = Util!FirstNotOf(s, delims, right) /\ (next <= Len(s) => s[next] \notin delims)
        /\ Within(s, delims, right, next - 1)
  <2>1. right \in 1..(Len(s) + 1) /\ Len(s) \in Nat
    OBVIOUS
  <2>. QED
    BY <2>1, FirstNotFound
<1>3. left < next
  <2>1. next <= l + 1 /\ left <= l /\ left <= right /\ right <= next /\ next \in Int /\ right \in Int /\ left \in Int
    BY <1>0
  <2>2. CASE next <= l
    <3>1. next # left
      <4>1. ASSUME next = left PROVE FALSE
        <5>1. right = next
          BY <2>1, <4>1
        <5>2. s[next] \notin delims /\ s[right] \in delims
          BY <1>0, <1>1, <1>2, <2>2, <5>1
        <5>. QED
          BY <5>1, <5>2
      <4>. QED
        BY <4>1
    <3>. QED
      BY <2>1, <3>1
  <2>3. CASE ~(next <= l)
    BY <2>1, <2>3
  <2>. QED
    BY <2>2, <2>3
<1>4. SubSeq(s, left, right - 1) \in Seq(S)
  <2>1. \A i \in left..(right - 1) : i \in 1..Len(s)
    OBVIOUS
  <2>. QED
    BY <2>1, SubSeqProperties
<1>5. next \in 1..(Len(s) + 1) /\ right <= next
  OBVIOUS
<1>6. next = NextToken(s, delims, left) /\ Token(s, delims, left) = SubSeq(s, left, right - 1)
  BY <1>1, <1>2 DEF NextToken, Token
<1>. QED
  BY <1>1, <1>2, <1>3, <1>4, <1>5, <1>6

(* Split gives all tokens, or as many as it is asked for.                  *)
Limited(s, delims, all) ==
  \A n : Util!Split(s, delims, n) = IF n = 0 THEN all ELSE SubSeq(all, 1, Util!Min({n, Len(all)}))

LEMMA SplitSteps ==
  ASSUME NEW S, NEW s \in Seq(S), NEW delims
  PROVE  \E tokens :
           /\ TokensOf(tokens, s, delims)
           /\ Limited(s, delims, tokens[Util!FirstNotOf(s, delims, 1)])
<1>0. PICK n \in Nat : n = Len(s) + 1 /\ Len(s) = n - 1 /\ 1..n = 1..(Len(s) + 1)
  OBVIOUS
<1>. DEFINE D == 1..(Len(s) + 1)
            R == Seq(Seq(S))
            rank == [x \in D |-> n - x]
            step == [x \in D |-> [g \in [D -> R] |->
                       IF x > Len(s) THEN <<>>
                       ELSE <<Token(s, delims, x)>> \o g[NextToken(s, delims, x)]]]
            Is(f) == f = [left \in D |-> IF left > Len(s) THEN <<>>
                                         ELSE <<Token(s, delims, left)>> \o f[NextToken(s, delims, left)]]
<1>1. rank \in [D -> 0..n]
  <2>1. \A x \in D : n - x \in 0..n
    BY <1>0
  <2>. QED
    BY <2>1
<1>2. ASSUME NEW x \in D, ~(x > Len(s))
      PROVE  /\ NextToken(s, delims, x) \in D /\ rank[NextToken(s, delims, x)] < rank[x]
             /\ Token(s, delims, x) \in Seq(S)
  <2>1. x \in 1..Len(s)
    BY <1>2
  <2>2. PICK next \in 1..(Len(s) + 1) :
          next = NextToken(s, delims, x) /\ x < next /\ Token(s, delims, x) \in Seq(S)
    BY <2>1, NextTokens
  <2>3. n - next < n - x
    BY <2>1, <2>2, <1>0
  <2>. QED
    BY <2>2, <2>3
<1>3. step \in [D -> [[D -> R] -> R]]
  <2>1. ASSUME NEW x \in D, NEW g \in [D -> R]
        PROVE  (IF x > Len(s) THEN <<>> ELSE <<Token(s, delims, x)>> \o g[NextToken(s, delims, x)]) \in R
    <3>1. CASE x > Len(s)
      BY <3>1
    <3>2. CASE ~(x > Len(s))
      <4>1. PICK t \in Seq(S), r \in R : t = Token(s, delims, x) /\ r = g[NextToken(s, delims, x)]
        BY <1>2, <3>2
      <4>2. <<t>> \o r \in R
        OBVIOUS
      <4>. QED
        BY <3>2, <4>1, <4>2
    <3>. QED
      BY <3>1, <3>2
  <2>. HIDE DEF D, R
  <2>. QED
    BY <2>1
<1>4. ASSUME NEW x \in D, NEW g \in [D -> R], NEW h \in [D -> R],
             \A y \in D : rank[y] < rank[x] => g[y] = h[y]
      PROVE  step[x][g] = step[x][h]
  <2>. HIDE DEF D, R, rank
  <2>1. CASE x > Len(s)
    BY <2>1
  <2>2. CASE ~(x > Len(s))
    <3>1. g[NextToken(s, delims, x)] = h[NextToken(s, delims, x)]
      BY <1>2, <1>4, <2>2
    <3>. QED
      BY <2>2, <3>1
  <2>. QED
    BY <2>1, <2>2
<1>5. <<>> \in R
  OBVIOUS
<1>6. PICK g \in [D -> R] : Solves(g, D, step)
  <2>1. AsksLower(D, R, rank, step)
    <3>. HIDE DEF D, R, rank, step
    <3>. QED
      BY <1>4 DEF AsksLower
  <2>. HIDE DEF D, R, rank, step
  <2>2. PICK base \in R : base = <<>>
    BY <1>5
  <2>. QED
    BY <1>1, <1>3, <2>1, <2>2, RecursionExists
<1>7. Is(g)
  <2>1. g = [x \in D |-> g[x]]
    OBVIOUS
  <2>2. \A x \in D : g[x] = IF x > Len(s) THEN <<>> ELSE <<Token(s, delims, x)>> \o g[NextToken(s, delims, x)]
    <3>. HIDE DEF D, R
    <3>. QED
      BY <1>6 DEF Solves
  <2>. HIDE DEF D, R
  <2>. QED
    BY <2>1, <2>2, Zenon
<1>8. Limited(s, delims, (CHOOSE f : Is(f))[Util!FirstNotOf(s, delims, 1)])
  BY Zenon DEF Limited, Util!Split, NextToken, Token
<1>9. PICK f : Is(f) /\ f = CHOOSE u : Is(u)
  <2>. HIDE DEF Is
  <2>. QED
    BY <1>7, Zenon
<1>10. TokensOf(f, s, delims)
  BY <1>9 DEF TokensOf
<1>. HIDE DEF Is
<1>. QED
  BY <1>8, <1>9, <1>10

StartsFrom(s, delims, left) == {i \in Util!Starts(s, delims) : i >= left}
EndsFrom(s, delims, left) == {i \in Util!Ends(s, delims) : i >= left}

(* The tokens toks are the runs from position left, from first to last.    *)
RunsFrom(toks, first, last, s, delims, left) ==
  /\ first \in [DOMAIN toks -> DOMAIN s] /\ last \in [DOMAIN toks -> DOMAIN s]
  /\ {first[i] : i \in DOMAIN toks} = StartsFrom(s, delims, left)
  /\ {last[i] : i \in DOMAIN toks} = EndsFrom(s, delims, left)
  /\ \A i \in DOMAIN toks : /\ first[i] <= last[i] /\ (i > 1 => last[i - 1] < first[i])
                            /\ toks[i] = SubSeq(s, first[i], last[i])

(* A run from left, up to right; the next one starts at next.              *)
RunOf(S, s, delims, left, right, next) ==
  /\ right \in (left + 1)..(Len(s) + 1) /\ next \in 1..(Len(s) + 1)
  /\ next = NextToken(s, delims, left) /\ right <= next
  /\ Token(s, delims, left) = SubSeq(s, left, right - 1)
  /\ Token(s, delims, left) \in Seq(S)
  /\ next \in Util!Starts(s, delims) \cup {Len(s) + 1}
  /\ StartsFrom(s, delims, left) = {left} \cup StartsFrom(s, delims, next)
  /\ EndsFrom(s, delims, left) = {right - 1} \cup EndsFrom(s, delims, next)

LEMMA OneRun ==
  ASSUME NEW S, NEW s \in Seq(S), NEW delims, NEW left \in 1..Len(s), s[left] \notin delims,
         left \in Util!Starts(s, delims)
  PROVE  \E right, next : RunOf(S, s, delims, left, right, next)
<1>0. PICK l \in Nat : l = Len(s) /\ DOMAIN s = 1..l /\ left \in 1..l
  OBVIOUS
<1>1. PICK right \in left..(l + 1), next \in 1..(l + 1) :
        /\ next = NextToken(s, delims, left)
        /\ Token(s, delims, left) = SubSeq(s, left, right - 1)
        /\ Token(s, delims, left) \in Seq(S)
        /\ right <= next /\ left < next
        /\ (right <= l => s[right] \in delims) /\ (next <= l => s[next] \notin delims)
        /\ Without(s, delims, left, right - 1) /\ Within(s, delims, right, next - 1)
  BY <1>0, NextTokens
<1>2. right # left
  BY <1>0, <1>1
<1>3. right \in (left + 1)..(l + 1) /\ next \in right..(l + 1) /\ next \in 1..(l + 1)
  BY <1>0, <1>1, <1>2
<1>4. \A i \in (left + 1)..(right - 1) : i \notin Util!Starts(s, delims)
  <2>1. ASSUME NEW i \in (left + 1)..(right - 1) PROVE i \notin Util!Starts(s, delims)
    <3>1. i - 1 \in left..(right - 1) /\ i # 1
      BY <1>0, <1>1
    <3>2. s[i - 1] \notin delims
      BY <1>1, <3>1 DEF Without
    <3>. QED
      BY <3>1, <3>2 DEF Util!Starts
  <2>. QED
    BY <2>1
<1>5. \A i \in right..(next - 1) : i \notin Util!Starts(s, delims) /\ i \notin Util!Ends(s, delims)
  BY <1>1 DEF Within, Util!Starts, Util!Ends
<1>6. \A i \in left..(right - 2) : i \notin Util!Ends(s, delims)
  <2>1. ASSUME NEW i \in left..(right - 2) PROVE i \notin Util!Ends(s, delims)
    <3>1. i + 1 \in left..(right - 1) /\ i # l
      BY <1>0, <1>1
    <3>2. s[i + 1] \notin delims
      BY <1>1, <3>1 DEF Without
    <3>. QED
      BY <1>0, <3>1, <3>2 DEF Util!Ends
  <2>. QED
    BY <2>1
<1>7. right - 1 \in Util!Ends(s, delims)
  <2>1. right - 1 \in 1..l /\ right - 1 \in left..(right - 1)
    BY <1>0, <1>3
  <2>2. s[right - 1] \notin delims
    BY <1>1, <2>1 DEF Without
  <2>3. right - 1 = l \/ s[(right - 1) + 1] \in delims
    <3>1. CASE right <= l
      <4>1. (right - 1) + 1 = right
        BY <1>3
      <4>. QED
        BY <1>1, <3>1, <4>1
    <3>2. CASE ~(right <= l)
      BY <1>0, <1>3, <3>2
    <3>. QED
      BY <3>1, <3>2
  <2>. QED
    BY <1>0, <2>1, <2>2, <2>3 DEF Util!Ends
<1>8. next \in Util!Starts(s, delims) \cup {l + 1}
  <2>1. CASE next <= l
    <3>1. s[next] \notin delims /\ next \in 1..l
      BY <1>1, <2>1
    <3>2. s[next - 1] \in delims
      <4>1. CASE right = next
        BY <1>1, <2>1, <3>1, <4>1
      <4>2. CASE right # next
        <5>1. next - 1 \in right..(next - 1)
          BY <1>1, <1>3, <4>2
        <5>. QED
          BY <1>1, <5>1 DEF Within
      <4>. QED
        BY <4>1, <4>2
    <3>. QED
      BY <1>0, <3>1, <3>2 DEF Util!Starts
  <2>2. CASE ~(next <= l)
    BY <1>1, <1>0, <2>2
  <2>. QED
    BY <2>1, <2>2
<1>9. Util!Starts(s, delims) \subseteq 1..l /\ Util!Ends(s, delims) \subseteq 1..l
  BY <1>0 DEF Util!Starts, Util!Ends
<1>10. StartsFrom(s, delims, left) = {left} \cup StartsFrom(s, delims, next)
  <2>1. ASSUME NEW i \in 1..l, i >= left, i # left, ~(i >= next)
        PROVE  i \in (left + 1)..(right - 1) \/ i \in right..(next - 1)
    BY <1>0, <1>3, <2>1
  <2>2. left <= next
    BY <1>1, <1>0
  <2>3. ASSUME NEW i \in Util!Starts(s, delims), i >= left, i # left PROVE i >= next
    BY <1>4, <1>5, <1>9, <2>1, <2>3
  <2>4. ASSUME NEW i \in Util!Starts(s, delims), i >= next PROVE i >= left
    BY <1>0, <1>1, <1>9, <2>4
  <2>5. left >= left
    BY <1>0
  <2>. QED
    BY <2>3, <2>4, <2>5 DEF StartsFrom
<1>11. EndsFrom(s, delims, left) = {right - 1} \cup EndsFrom(s, delims, next)
  <2>1. ASSUME NEW i \in 1..l, i >= left, i # right - 1, ~(i >= next)
        PROVE  i \in left..(right - 2) \/ i \in right..(next - 1)
    BY <1>0, <1>3, <2>1
  <2>2. right - 1 >= left
    BY <1>3, <1>0
  <2>3. ASSUME NEW i \in Util!Ends(s, delims), i >= left, i # right - 1 PROVE i >= next
    BY <1>5, <1>6, <1>9, <2>1, <2>3
  <2>4. ASSUME NEW i \in Util!Ends(s, delims), i >= next PROVE i >= left
    BY <1>0, <1>1, <1>9, <2>4
  <2>. QED
    BY <1>7, <2>2, <2>3, <2>4 DEF EndsFrom
<1>12. RunOf(S, s, delims, left, right, next)
  BY <1>0, <1>1, <1>3, <1>8, <1>10, <1>11 DEF RunOf
<1>. QED
  BY <1>12

InFront(x, k, n) == [i \in 1..(n + 1) |-> IF i = 1 THEN x ELSE k[i - 1]]

Image(k, n) == {k[i] : i \in 1..n}

LEMMA OneInFront ==
  ASSUME NEW n \in Nat, NEW k, NEW x
  PROVE  Image(InFront(x, k, n), n + 1) = {x} \cup Image(k, n)
<1>. USE DEF InFront
<1>. DEFINE h == InFront(x, k, n)
<1>1. 1 \in 1..(n + 1) /\ h[1] = x
  OBVIOUS
<1>2. ASSUME NEW i \in 1..n PROVE i + 1 \in 1..(n + 1) /\ h[i + 1] = k[i]
  <2>1. i + 1 \in 1..(n + 1) /\ i + 1 # 1 /\ (i + 1) - 1 = i
    OBVIOUS
  <2>. QED
    BY <2>1
<1>3. ASSUME NEW i \in 1..(n + 1), i # 1 PROVE i - 1 \in 1..n /\ h[i] = k[i - 1]
  BY <1>3
<1>4. \A y \in {h[i] : i \in 1..(n + 1)} : y = x \/ y \in {k[i] : i \in 1..n}
  BY <1>1, <1>3
<1>5. \A y \in {k[i] : i \in 1..n} : y \in {h[i] : i \in 1..(n + 1)}
  BY <1>2
<1>. QED
  BY <1>1, <1>4, <1>5 DEF Image

LEMMA TokenInFront ==
  ASSUME NEW T, NEW t \in T, NEW toks \in Seq(T), NEW n \in Nat, n = Len(toks)
  PROVE  /\ <<t>> \o toks \in Seq(T) /\ DOMAIN (<<t>> \o toks) = 1..(n + 1)
         /\ \A i \in 1..(n + 1) : (<<t>> \o toks)[i] = IF i = 1 THEN t ELSE toks[i - 1]
<1>0. <<t>> \in Seq(T) /\ Len(<<t>>) = 1 /\ <<t>>[1] = t
  OBVIOUS
<1>1. PICK h : h = <<t>> /\ h \in Seq(T) /\ Len(h) = 1 /\ h[1] = t
  BY <1>0
<1>2. h \o toks \in Seq(T) /\ Len(h \o toks) = 1 + n
  BY <1>1
<1>3. \A i \in 1..(n + 1) : (h \o toks)[i] = IF i <= Len(h) THEN h[i] ELSE toks[i - Len(h)]
  BY <1>1
<1>4. \A i \in 1..(n + 1) : (i <= 1 <=> i = 1)
  OBVIOUS
<1>. QED
  BY <1>1, <1>2, <1>3, <1>4

LEMMA RunBefore ==
  ASSUME NEW S, NEW s \in Seq(S), NEW delims, NEW left \in 1..Len(s),
         NEW right \in (left + 1)..(Len(s) + 1), NEW next \in 1..(Len(s) + 1), right <= next,
         StartsFrom(s, delims, left) = {left} \cup StartsFrom(s, delims, next),
         EndsFrom(s, delims, left) = {right - 1} \cup EndsFrom(s, delims, next),
         NEW toks \in Seq(Seq(S)), NEW first, NEW last, RunsFrom(toks, first, last, s, delims, next)
  PROVE  \E f, g : RunsFrom(<<SubSeq(s, left, right - 1)>> \o toks, f, g, s, delims, left)
<1>1. PICK l \in Nat, n \in Nat :
        /\ l = Len(s) /\ DOMAIN s = 1..l /\ left \in 1..l
        /\ n = Len(toks) /\ DOMAIN toks = 1..n
  OBVIOUS
<1>2. PICK t : t = SubSeq(s, left, right - 1)
  OBVIOUS
<1>3. t \in Seq(S)
  <2>1. \A i \in left..(right - 1) : i \in 1..Len(s)
    OBVIOUS
  <2>. QED
    BY <1>2, <2>1, SubSeqProperties
<1>15. PICK u : u = <<t>> \o toks
  OBVIOUS
<1>4. /\ u \in Seq(Seq(S)) /\ DOMAIN u = 1..(n + 1)
      /\ \A i \in 1..(n + 1) : u[i] = IF i = 1 THEN t ELSE toks[i - 1]
  BY <1>1, <1>3, <1>15, TokenInFront
<1>17. PICK f, g, e : f = InFront(left, first, n) /\ g = InFront(e, last, n) /\ e = right - 1
  OBVIOUS
<1>5. /\ f = [i \in 1..(n + 1) |-> IF i = 1 THEN left ELSE first[i - 1]]
      /\ g = [i \in 1..(n + 1) |-> IF i = 1 THEN right - 1 ELSE last[i - 1]]
  BY <1>17 DEF InFront
<1>6. /\ first \in [1..n -> 1..l] /\ last \in [1..n -> 1..l]
      /\ {first[i] : i \in 1..n} = StartsFrom(s, delims, next)
      /\ {last[i] : i \in 1..n} = EndsFrom(s, delims, next)
  BY <1>1 DEF RunsFrom
<1>7. \A i \in 1..n : /\ first[i] <= last[i] /\ (i > 1 => last[i - 1] < first[i])
                      /\ toks[i] = SubSeq(s, first[i], last[i])
  BY <1>1 DEF RunsFrom
<1>8. right - 1 \in 1..l /\ left <= right - 1
  BY <1>1
<1>9. \A i \in 2..(n + 1) : i - 1 \in 1..n /\ i # 1
  BY <1>1
<1>10. f \in [1..(n + 1) -> 1..l] /\ g \in [1..(n + 1) -> 1..l]
  <2>1. ASSUME NEW i \in 1..(n + 1) PROVE f[i] \in 1..l /\ g[i] \in 1..l
    <3>1. CASE i = 1
      BY <1>1, <1>5, <1>8, <3>1
    <3>2. CASE i # 1
      <4>1. i \in 2..(n + 1)
        BY <1>1, <3>2
      <4>2. i - 1 \in 1..n
        BY <1>9, <4>1
      <4>3. f[i] = first[i - 1] /\ g[i] = last[i - 1]
        BY <1>5, <3>2
      <4>. QED
        BY <1>6, <4>2, <4>3
    <3>. QED
      BY <3>1, <3>2
  <2>. QED
    BY <1>5, <2>1
<1>12. {f[i] : i \in 1..(n + 1)} = StartsFrom(s, delims, left)
  <2>1. {f[i] : i \in 1..(n + 1)} = {left} \cup {first[i] : i \in 1..n}
    <3>1. Image(f, n + 1) = {left} \cup Image(first, n)
      BY <1>17, OneInFront
    <3>. QED
      BY <3>1, Zenon DEF Image
  <2>. QED
    BY <1>6, <2>1
<1>13. {g[i] : i \in 1..(n + 1)} = EndsFrom(s, delims, left)
  <2>1. {g[i] : i \in 1..(n + 1)} = {right - 1} \cup {last[i] : i \in 1..n}
    <3>1. Image(g, n + 1) = {e} \cup Image(last, n)
      BY <1>17, OneInFront
    <3>. QED
      BY <1>17, <3>1, Zenon DEF Image
  <2>. QED
    BY <1>6, <2>1
<1>14. ASSUME NEW i \in 1..(n + 1)
       PROVE  /\ f[i] <= g[i] /\ (i > 1 => g[i - 1] < f[i]) /\ u[i] = SubSeq(s, f[i], g[i])
  <2>1. CASE i = 1
    <3>1. f[i] = left /\ g[i] = right - 1 /\ u[i] = t
      BY <1>4, <1>5, <2>1
    <3>. QED
      BY <1>2, <1>8, <2>1, <3>1
  <2>2. CASE i # 1
    <3>1. PICK j \in 1..n : j = i - 1
      BY <2>2
    <3>2. f[i] = first[j] /\ g[i] = last[j] /\ u[i] = toks[j]
      BY <1>4, <1>5, <2>2, <3>1
    <3>3. g[i - 1] < f[i]
      <4>1. CASE j = 1
        <5>1. g[i - 1] = right - 1
          BY <1>5, <3>1, <4>1
        <5>2. first[j] \in 1..l /\ first[j] >= next
          <6>1. first[j] \in {first[k] : k \in 1..n}
            OBVIOUS
          <6>. QED
            BY <1>6, <6>1 DEF StartsFrom
        <5>. QED
          BY <3>2, <5>1, <5>2
      <4>2. CASE j # 1
        <5>1. j \in 1..(n + 1) /\ j > 1
          BY <4>2
        <5>2. g[i - 1] = last[j - 1]
          BY <1>5, <3>1, <4>2, <5>1
        <5>. QED
          BY <1>7, <3>2, <5>1, <5>2
      <4>. QED
        BY <4>1, <4>2
    <3>. QED
      BY <1>7, <3>1, <3>2, <3>3
  <2>. QED
    BY <2>1, <2>2
<1>16. RunsFrom(u, f, g, s, delims, left)
  BY <1>1, <1>4, <1>10, <1>12, <1>13, <1>14 DEF RunsFrom
<1>. QED
  BY <1>2, <1>15, <1>16

(* Behind the last token there is none.                                    *)
LEMMA NoRun ==
  ASSUME NEW S, NEW s \in Seq(S), NEW delims
  PROVE  RunsFrom(<<>>, <<>>, <<>>, s, delims, Len(s) + 1)
<1>1. \A i \in DOMAIN s : ~(i >= Len(s) + 1)
  OBVIOUS
<1>2. {i \in Util!Starts(s, delims) : i >= Len(s) + 1} = {} /\ {i \in Util!Ends(s, delims) : i >= Len(s) + 1} = {}
  BY <1>1 DEF StartsFrom, EndsFrom, Util!Starts, Util!Ends
<1>3. DOMAIN <<>> = {} /\ <<>> \in [{} -> DOMAIN s]
  OBVIOUS
<1>. QED
  BY <1>2, <1>3 DEF RunsFrom, StartsFrom, EndsFrom

(* Split gives all runs.                                                   *)
LEMMA SplitRuns ==
  ASSUME NEW S, NEW s \in Seq(S), NEW delims
  PROVE  \E first, last : /\ Util!Split(s, delims, 0) \in Seq(Seq(S))
                          /\ RunsFrom(Util!Split(s, delims, 0), first, last, s, delims, 1)
<1>0. PICK l \in Nat : l = Len(s) /\ DOMAIN s = 1..l
  OBVIOUS
<1>1. PICK tokens : /\ TokensOf(tokens, s, delims)
                    /\ Util!Split(s, delims, 0) = tokens[Util!FirstNotOf(s, delims, 1)]
  <2>1. PICK tokens : /\ TokensOf(tokens, s, delims)
                      /\ Limited(s, delims, tokens[Util!FirstNotOf(s, delims, 1)])
    BY SplitSteps
  <2>. QED
    BY <2>1 DEF Limited
<1>. DEFINE Good(left) == /\ tokens[left] \in Seq(Seq(S))
                          /\ \E f, g : RunsFrom(tokens[left], f, g, s, delims, left)
            Bad == {left \in 1..(l + 1) : left \in Util!Starts(s, delims) \cup {l + 1} /\ ~Good(left)}
<1>2. Bad = {}
  <2>. SUFFICES ASSUME Bad # {} PROVE FALSE
    OBVIOUS
  <2>1. PICK left \in Bad : \A k \in Bad : left >= k
    <3>1. Bad \in SUBSET (1..(l + 1)) /\ l + 1 \in Nat
      BY <1>0
    <3>. HIDE DEF Bad
    <3>. QED
      BY <3>1, GreatestOf
  <2>2. left \in 1..(l + 1) /\ left \in Util!Starts(s, delims) \cup {l + 1} /\ ~Good(left)
    OBVIOUS
  <2>3. CASE left = l + 1
    <3>1. tokens[left] = <<>>
      <4>1. left \in 1..(Len(s) + 1) /\ left > Len(s)
        BY <1>0, <2>3
      <4>. HIDE DEF Bad
      <4>. QED
        BY <1>1, <4>1 DEF TokensOf
    <3>2. RunsFrom(tokens[left], <<>>, <<>>, s, delims, left)
      BY <1>0, <2>3, <3>1, NoRun
    <3>. QED
      BY <2>2, <3>1, <3>2
  <2>4. CASE left # l + 1
    <3>1. left \in 1..Len(s) /\ left \in Util!Starts(s, delims) /\ s[left] \notin delims
      BY <1>0, <2>2, <2>4 DEF Util!Starts
    <3>10. PICK right, next : RunOf(S, s, delims, left, right, next)
      <4>. HIDE DEF Bad, Good
      <4>. QED
        BY <3>1, OneRun
    <3>2. /\ right \in (left + 1)..(Len(s) + 1) /\ next \in 1..(Len(s) + 1)
          /\ next = NextToken(s, delims, left) /\ right <= next
          /\ Token(s, delims, left) = SubSeq(s, left, right - 1)
          /\ Token(s, delims, left) \in Seq(S)
          /\ next \in Util!Starts(s, delims) \cup {Len(s) + 1}
          /\ StartsFrom(s, delims, left) = {left} \cup StartsFrom(s, delims, next)
          /\ EndsFrom(s, delims, left) = {right - 1} \cup EndsFrom(s, delims, next)
      BY <3>10 DEF RunOf
    <3>3. next \in 1..(l + 1) /\ next \in Util!Starts(s, delims) \cup {l + 1} /\ ~(left >= next)
      BY <1>0, <2>2, <3>2
    <3>. HIDE DEF Good
    <3>4. Good(next)
      BY <2>1, <3>3
    <3>5. PICK toks, f, g : /\ toks = tokens[next] /\ toks \in Seq(Seq(S))
                            /\ RunsFrom(toks, f, g, s, delims, next)
      BY <3>4 DEF Good
    <3>6. tokens[left] = <<Token(s, delims, left)>> \o toks
      <4>1. left \in 1..(Len(s) + 1) /\ ~(left > Len(s))
        BY <3>1
      <4>. QED
        BY <1>1, <3>2, <3>5, <4>1 DEF TokensOf
    <3>7. \E f1, g1 : RunsFrom(<<SubSeq(s, left, right - 1)>> \o toks, f1, g1, s, delims, left)
      BY <3>1, <3>2, <3>5, RunBefore
    <3>8. <<Token(s, delims, left)>> \o toks \in Seq(Seq(S))
      BY <3>2, <3>5
    <3>9. Good(left)
      BY <3>2, <3>6, <3>7, <3>8 DEF Good
    <3>. QED
      BY <2>2, <3>9
  <2>. QED
    BY <2>3, <2>4
<1>3. PICK left \in 1..(Len(s) + 1) :
        /\ left = Util!FirstNotOf(s, delims, 1) /\ (left <= Len(s) => s[left] \notin delims)
        /\ Within(s, delims, 1, left - 1)
  <2>1. 1 \in 1..(Len(s) + 1) /\ Len(s) \in Nat
    BY <1>0
  <2>. QED
    BY <2>1, FirstNotFound
<1>4. left \in Util!Starts(s, delims) \cup {l + 1}
  <2>1. CASE left = 1 \/ left = l + 1
    BY <1>0, <1>3, <2>1 DEF Util!Starts
  <2>2. CASE left # 1 /\ left # l + 1
    <3>1. left \in 1..l /\ left - 1 \in 1..(left - 1)
      BY <1>0, <2>2
    <3>2. s[left - 1] \in delims /\ s[left] \notin delims
      BY <1>0, <1>3, <3>1 DEF Within
    <3>. QED
      BY <1>0, <3>1, <3>2 DEF Util!Starts
  <2>. QED
    BY <2>1, <2>2
<1>5. PICK f, g : tokens[left] \in Seq(Seq(S)) /\ RunsFrom(tokens[left], f, g, s, delims, left)
  <2>1. left \in 1..(l + 1)
    BY <1>0
  <2>. HIDE DEF Good
  <2>2. Good(left)
    BY <1>2, <1>4, <2>1
  <2>. QED
    BY <2>2 DEF Good
<1>6. /\ StartsFrom(s, delims, left) = StartsFrom(s, delims, 1)
      /\ EndsFrom(s, delims, left) = EndsFrom(s, delims, 1)
  <2>1. \A i \in 1..l : i >= 1 /\ (~(i >= left) => i \in 1..(left - 1))
    BY <1>0
  <2>2. \A i \in 1..(left - 1) : i \notin Util!Starts(s, delims) /\ i \notin Util!Ends(s, delims)
    BY <1>3 DEF Within, Util!Starts, Util!Ends
  <2>3. Util!Starts(s, delims) \subseteq 1..l /\ Util!Ends(s, delims) \subseteq 1..l
    BY <1>0 DEF Util!Starts, Util!Ends
  <2>. QED
    BY <2>1, <2>2, <2>3 DEF StartsFrom, EndsFrom
<1>7. RunsFrom(tokens[left], f, g, s, delims, 1)
  BY <1>5, <1>6 DEF RunsFrom
<1>. QED
  BY <1>1, <1>3, <1>5, <1>7

(* A limit cuts the list of tokens.                                        *)
LEMMA SplitLimit ==
  ASSUME NEW S, NEW s \in Seq(S), NEW delims, NEW n \in Nat \ {0}
  PROVE  Util!Split(s, delims, n) =
           SubSeq(Util!Split(s, delims, 0), 1, Util!Min({n, Len(Util!Split(s, delims, 0))}))
<1>1. n # 0
  OBVIOUS
<1>2. PICK all : Limited(s, delims, all)
  BY SplitSteps
<1>3. Util!Split(s, delims, 0) = all
  BY <1>2 DEF Limited
<1>. QED
  BY <1>1, <1>2, <1>3 DEF Limited

(* The last position where something holds, or 0.                          *)
LEMMA LastWhere ==
  ASSUME NEW l \in Nat, NEW P
  PROVE  \E n \in 0..l :
           /\ n = Util!Max({i \in 1..l : i \in P} \cup {0})
           /\ (n # 0 => n \in P)
           /\ \A i \in 1..l : i > n => i \notin P
<1>. DEFINE U == {i \in 1..l : i \in P}
            V == {i + 1 : i \in U \cup {0}}
<1>1. V \in SUBSET (1..(l + 1)) /\ V # {} /\ l + 1 \in Nat
  <2>1. \A i \in U \cup {0} : i + 1 \in 1..(l + 1)
    OBVIOUS
  <2>2. 0 + 1 \in V
    OBVIOUS
  <2>. QED
    BY <2>1, <2>2
<1>. HIDE DEF V
<1>2. PICK m \in V : \A k \in V : m >= k
  BY <1>1, GreatestOf
<1>3. PICK n \in U \cup {0} : m = n + 1
  BY DEF V
<1>4. ASSUME NEW k \in U \cup {0} PROVE n >= k
  <2>1. m >= k + 1
    BY <1>2 DEF V
  <2>. QED
    BY <1>3, <2>1
<1>5. \A y \in U \cup {0} : y \in Int
  OBVIOUS
<1>6. Util!Max(U \cup {0}) = n
  <2>. DEFINE W == U \cup {0}
  <2>. HIDE DEF U, W
  <2>1. \E x \in W : \A y \in W : x >= y
    BY <1>4 DEF W
  <2>2. Util!Max(W) \in W /\ \A y \in W : Util!Max(W) >= y
    BY <2>1 DEF Util!Max
  <2>3. PICK x \in W : x = Util!Max(W) /\ \A y \in W : x >= y
    BY <2>2
  <2>4. x >= n /\ n >= x /\ x \in Int /\ n \in Int
    BY <1>4, <1>5, <2>3 DEF W
  <2>5. x = n
    BY <2>4
  <2>. QED
    BY <2>3, <2>5 DEF W
<1>7. n \in 0..l /\ (n # 0 => n \in P)
  OBVIOUS
<1>8. ASSUME NEW i \in 1..l, i > n PROVE i \notin P
  <2>1. i \notin U
    BY <1>4, <1>7, <1>8
  <2>. QED
    BY <2>1
<1>. QED
  BY <1>6, <1>7, <1>8

(* A string is trimmed from either end first.                              *)
LEMMA TrimmedEitherWay ==
  ASSUME NEW S, NEW s \in Seq(S)
  PROVE  Util!Trim(s, TRUE, TRUE) = Util!Trim(Util!Trim(s, FALSE, TRUE), TRUE, FALSE)
<1>0. PICK l \in Nat : l = Len(s)
  OBVIOUS
<1>1. PICK a \in 1..(Len(s) + 1) :
        /\ a = Util!FirstNotOf(s, Util!Blank, 1) /\ (a <= Len(s) => s[a] \notin Util!Blank)
        /\ Within(s, Util!Blank, 1, a - 1)
  <2>1. 1 \in 1..(Len(s) + 1) /\ Len(s) \in Nat
    BY <1>0
  <2>. QED
    BY <2>1, FirstNotFound
<1>. DEFINE P == {i \in 1..Len(s) : s[i] \notin Util!Blank}
            t == Util!From(s, a)
            Q == {i \in 1..Len(t) : t[i] \notin Util!Blank}
<1>2. PICK b \in 0..l :
        /\ b = Util!Max({i \in 1..l : i \in P} \cup {0}) /\ (b # 0 => b \in P)
        /\ \A i \in 1..l : i > b => i \notin P
  <2>. HIDE DEF P
  <2>. QED
    BY LastWhere
<1>3. b = Util!Max({i \in 1..Len(s) : s[i] \notin Util!Blank} \cup {0})
  <2>1. {i \in 1..l : i \in P} = {i \in 1..Len(s) : s[i] \notin Util!Blank}
    BY <1>0
  <2>. QED
    BY <1>2, <2>1
<1>4. Util!Trim(s, FALSE, TRUE) = SubSeq(s, 1, b)
  BY <1>3, Zenon DEF Util!Trim
<1>5. t \in Seq(S) /\ Len(t) = (l + 1) - a /\ \A i \in 1..Len(t) : t[i] = s[(a - 1) + i]
  <2>1. \A i \in a..l : i \in 1..Len(s)
    BY <1>0
  <2>2. SubSeq(s, a, l) \in Seq(S)
    BY <2>1, SubSeqProperties
  <2>3. Len(SubSeq(s, a, l)) = (l + 1) - a
    BY <1>0, SubSeqProperties
  <2>4. \A i \in 1..((l + 1) - a) : SubSeq(s, a, l)[i] = s[(a - 1) + i]
    <3>1. \A i \in 1..((l + 1) - a) : (a + i) - 1 = (a - 1) + i
      BY <1>0
    <3>. QED
      BY <1>0, <2>1, <2>3, <3>1, SubSeqProperties
  <2>. QED
    BY <1>0, <2>2, <2>3, <2>4 DEF Util!From
<1>6. PICK m \in Nat : m = Len(t) /\ m = (l + 1) - a
  BY <1>5
<1>7. PICK c \in 0..m :
        /\ c = Util!Max({i \in 1..m : i \in Q} \cup {0}) /\ (c # 0 => c \in Q)
        /\ \A i \in 1..m : i > c => i \notin Q
  <2>. HIDE DEF Q
  <2>. QED
    BY LastWhere
<1>8. Util!Trim(s, TRUE, TRUE) = SubSeq(t, 1, c)
  <2>1. {i \in 1..m : i \in Q} = {i \in 1..Len(t) : t[i] \notin Util!Blank}
    BY <1>6
  <2>2. c = Util!Max({i \in 1..Len(t) : t[i] \notin Util!Blank} \cup {0})
    BY <1>7, <2>1
  <2>. QED
    BY <1>1, <2>2, Zenon DEF Util!Trim
<1>9. PICK r : r = SubSeq(s, 1, b)
  OBVIOUS
<1>10. r \in Seq(S) /\ Len(r) = b /\ \A i \in 1..b : r[i] = s[i]
  <2>1. \A i \in 1..b : i \in 1..Len(s)
    BY <1>0
  <2>2. SubSeq(s, 1, b) \in Seq(S)
    BY <2>1, SubSeqProperties
  <2>3. Len(SubSeq(s, 1, b)) = b
    BY <1>0, SubSeqProperties
  <2>4. \A i \in 1..b : SubSeq(s, 1, b)[i] = s[i]
    BY <1>0, <2>1, <2>3, SubSeqProperties
  <2>. QED
    BY <1>9, <2>2, <2>3, <2>4
<1>11. PICK e \in 1..(Len(r) + 1) :
        /\ e = Util!FirstNotOf(r, Util!Blank, 1) /\ (e <= Len(r) => r[e] \notin Util!Blank)
        /\ Within(r, Util!Blank, 1, e - 1)
  <2>1. 1 \in 1..(Len(r) + 1) /\ Len(r) \in Nat
    BY <1>10
  <2>. QED
    BY <2>1, FirstNotFound
<1>12. Util!Trim(r, TRUE, FALSE) = SubSeq(r, e, b)
  BY <1>10, <1>11, Zenon DEF Util!Trim, Util!From
<1>. HIDE DEF t
<1>13. CASE a = l + 1
  <2>1. \A i \in 1..l : s[i] \in Util!Blank
    BY <1>0, <1>1, <1>13 DEF Within
  <2>2. b = 0
    BY <1>0, <1>2, <2>1
  <2>3. c = 0
    BY <1>6, <1>7, <1>13
  <2>4. SubSeq(t, 1, c) = <<>> /\ SubSeq(r, e, b) = <<>>
    BY <1>10, <1>11, <2>2, <2>3
  <2>. QED
    BY <1>4, <1>8, <1>9, <1>12, <2>4
<1>14. CASE a # l + 1
  <2>1. a \in 1..l /\ a \in P /\ a <= b /\ b \in P
    <3>1. a \in 1..l /\ a \in P
      BY <1>0, <1>1, <1>14
    <3>2. a <= b
      BY <1>0, <1>2, <3>1
    <3>. QED
      BY <1>0, <1>2, <3>1, <3>2
  <2>2. e = a
    <3>1. a \in 1..b /\ r[a] \notin Util!Blank
      BY <1>10, <2>1
    <3>2. ~(a <= e - 1)
      BY <1>11, <3>1 DEF Within
    <3>3. ~(e < a)
      <4>1. ASSUME e < a PROVE FALSE
        <5>1. e \in 1..(a - 1) /\ e \in 1..b
          BY <1>10, <1>11, <2>1, <4>1
        <5>2. s[e] \in Util!Blank
          BY <1>1, <5>1 DEF Within
        <5>3. r[e] \notin Util!Blank /\ r[e] = s[e]
          BY <1>10, <1>11, <5>1
        <5>. QED
          BY <5>2, <5>3
      <4>. QED
        BY <4>1
    <3>. QED
      BY <1>10, <1>11, <2>1, <3>2, <3>3
  <2>3. c = (b - a) + 1
    <3>1. PICK k \in 1..m : k = (b - a) + 1 /\ (a - 1) + k = b
      BY <1>6, <2>1
    <3>2. k \in Q
      <4>1. t[k] = s[b]
        BY <1>5, <1>6, <3>1
      <4>. QED
        BY <1>6, <2>1, <4>1
    <3>3. k <= c /\ c # 0
      BY <1>7, <3>2
    <3>4. c \in Q /\ t[c] = s[(a - 1) + c] /\ (a - 1) + c \in 1..l
      <4>1. c \in Q
        BY <1>7, <3>3
      <4>2. c \in 1..m
        BY <4>1
      <4>3. t[c] = s[(a - 1) + c]
        BY <1>5, <1>6, <4>2
      <4>4. (a - 1) + c \in 1..l
        BY <1>6, <2>1, <4>2
      <4>. QED
        BY <4>1, <4>3, <4>4
    <3>5. (a - 1) + c \in P
      BY <1>0, <3>4
    <3>6. (a - 1) + c <= b
      BY <1>2, <3>4, <3>5
    <3>. QED
      BY <2>1, <3>1, <3>3, <3>6
  <2>4. PICK k \in Nat : k = c /\ k = (b - a) + 1 /\ k <= m
    BY <2>3
  <2>5. SubSeq(t, 1, c) \in Seq(S) /\ Len(SubSeq(t, 1, c)) = k /\ \A i \in 1..k : SubSeq(t, 1, c)[i] = t[i]
    <3>1. \A i \in 1..k : i \in 1..Len(t)
      BY <1>6, <2>4
    <3>2. SubSeq(t, 1, k) = [i \in 1..k |-> t[i]]
      BY <1>5, <2>4
    <3>3. \A i \in 1..k : t[i] \in S
      <4>1. \A i \in 1..Len(t) : t[i] \in S
        BY <1>5
      <4>. QED
        BY <3>1, <4>1
    <3>. QED
      BY <2>4, <3>2, <3>3
  <2>6. SubSeq(r, a, b) \in Seq(S) /\ Len(SubSeq(r, a, b)) = k /\ \A i \in 1..k : SubSeq(r, a, b)[i] = r[(a - 1) + i]
    <3>1. \A i \in 1..k : (a - 1) + i \in 1..b /\ (a + i) - 1 = (a - 1) + i
      BY <2>1, <2>4
    <3>2. (b - a) + 1 = k
      BY <2>4
    <3>3. SubSeq(r, a, b) = [i \in 1..k |-> r[(a - 1) + i]]
      <4>1. SubSeq(r, a, b) = [i \in 1..((b - a) + 1) |-> r[(a + i) - 1]]
        BY <1>10, <2>1
      <4>. QED
        BY <3>1, <3>2, <4>1
    <3>4. \A i \in 1..k : r[(a - 1) + i] \in S
      BY <1>10, <3>1
    <3>. QED
      BY <3>3, <3>4
  <2>7. \A i \in 1..k : t[i] = r[(a - 1) + i]
    <3>1. \A i \in 1..k : (a - 1) + i \in 1..b /\ i \in 1..m
      BY <2>1, <2>4
    <3>. QED
      BY <1>5, <1>6, <1>10, <3>1
  <2>8. SubSeq(t, 1, c) = SubSeq(r, a, b)
    BY <2>5, <2>6, <2>7, SameElements
  <2>. QED
    BY <1>4, <1>8, <1>9, <1>12, <2>2, <2>8
<1>. QED
  BY <1>13, <1>14

(* Split and Trim of StringUtil, whatever the string and the delimiters:   *)
(* the tokens are the runs between the delimiters, in their order, and a   *)
(* string is trimmed from either end first.                                *)
THEOREM AnySplitAgrees ==
  ASSUME NEW S, NEW s \in Seq(S), NEW delims
  PROVE  Util!SplitAgrees(delims, s)
<1>1. PICK first, last : RunsFrom(Util!Split(s, delims, 0), first, last, s, delims, 1)
  BY SplitRuns
<1>2. PICK tokens : tokens = Util!Split(s, delims, 0)
  OBVIOUS
<1>3. StartsFrom(s, delims, 1) = Util!Starts(s, delims) /\ EndsFrom(s, delims, 1) = Util!Ends(s, delims)
  <2>1. \A i \in DOMAIN s : i >= 1
    OBVIOUS
  <2>. QED
    BY <2>1 DEF StartsFrom, EndsFrom, Util!Starts, Util!Ends
<1>4. /\ first \in [DOMAIN tokens -> DOMAIN s] /\ last \in [DOMAIN tokens -> DOMAIN s]
      /\ Util!ToSet(first) = Util!Starts(s, delims) /\ Util!ToSet(last) = Util!Ends(s, delims)
      /\ \A i \in DOMAIN tokens : /\ first[i] <= last[i] /\ (i > 1 => last[i - 1] < first[i])
                                  /\ tokens[i] = SubSeq(s, first[i], last[i])
  <2>1. DOMAIN first = DOMAIN tokens /\ DOMAIN last = DOMAIN tokens
    BY <1>1, <1>2 DEF RunsFrom
  <2>. QED
    BY <1>1, <1>2, <1>3, <2>1 DEF RunsFrom, Util!ToSet
<1>5. \A n \in 1..3 : Util!Split(s, delims, n) = SubSeq(tokens, 1, Util!Min({n, Len(tokens)}))
  <2>1. \A n \in 1..3 : n \in Nat \ {0}
    OBVIOUS
  <2>. QED
    BY <1>2, <2>1, SplitLimit
<1>6. Util!Trim(s, TRUE, TRUE) = Util!Trim(Util!Trim(s, FALSE, TRUE), TRUE, FALSE)
  BY TrimmedEitherWay
<1>. QED
  BY <1>2, <1>4, <1>5, <1>6, Zenon DEF Util!SplitAgrees

-----------------------------------------------------------------------------
(* A flattened sequence is laid out part by part, behind the offsets.      *)
Offsets(off, seqs) ==
  /\ off \in [0..Len(seqs) -> Nat] /\ off[0] = 0
  /\ \A i \in 1..Len(seqs) : off[i] = off[i - 1] + Len(seqs[i])

Laid(flat, seqs, off) ==
  \A i \in 1..Len(seqs) : \A k \in 1..Len(seqs[i]) : flat[off[i - 1] + k] = seqs[i][k]

(* The values of flatten in FlattenSeq.                                    *)
FlatSteps(f, seqs) ==
  f[1] = seqs[1] /\ \A i \in 1..Len(seqs) : i # 1 => f[i] = f[i - 1] \o seqs[i]

LEMMA Joined ==
  ASSUME NEW S, NEW g \in Seq(S), NEW t \in Seq(S)
  PROVE  /\ g \o t \in Seq(S) /\ Len(g \o t) = Len(g) + Len(t)
         /\ \A k \in 1..Len(g) : (g \o t)[k] = g[k]
         /\ \A k \in 1..Len(t) : (g \o t)[Len(g) + k] = t[k]
<1>1. \A k \in 1..Len(t) : (g \o t)[Len(g) + k] = t[k]
  <2>1. ASSUME NEW k \in 1..Len(t) PROVE (g \o t)[Len(g) + k] = t[k]
    <3>1. PICK a \in Nat, b \in Nat, i \in Nat : a = Len(g) /\ b = Len(t) /\ i = a + k /\ i - a = k /\ i \in 1..(a + b) /\ ~(i <= a)
      OBVIOUS
    <3>2. (g \o t)[i] = IF i <= a THEN g[i] ELSE t[i - a]
      BY <3>1, ConcatProperties
    <3>3. (g \o t)[i] = t[i - a]
      BY <3>1, <3>2
    <3>. QED
      BY <3>1, <3>3
  <2>. QED
    BY <2>1
<1>. QED
  BY <1>1

LEMMA OffsetsGrow ==
  ASSUME NEW S, NEW seqs \in Seq(Seq(S)), NEW off, Offsets(off, seqs)
  PROVE  /\ \A i \in 1..Len(seqs) : /\ off[i - 1] \in Nat /\ off[i] \in Nat /\ Len(seqs[i]) \in Nat
                                    /\ off[i] = off[i - 1] + Len(seqs[i])
         /\ \A j \in 0..Len(seqs) : \A i \in 0..j : off[i] <= off[j]
<1>0. PICK n \in Nat : n = Len(seqs)
  OBVIOUS
<1>1. ASSUME NEW i \in 1..n
      PROVE  /\ off[i - 1] \in Nat /\ off[i] \in Nat /\ Len(seqs[i]) \in Nat
             /\ off[i] = off[i - 1] + Len(seqs[i])
  <2>1. i \in 0..n /\ i - 1 \in 0..n
    OBVIOUS
  <2>2. off[i] \in Nat /\ off[i - 1] \in Nat /\ off[i] = off[i - 1] + Len(seqs[i])
    BY <1>0, <2>1 DEF Offsets
  <2>3. Len(seqs[i]) \in Nat
    <3>1. seqs[i] \in Seq(S)
      BY <1>0
    <3>. QED
      BY <3>1
  <2>. QED
    BY <2>2, <2>3
<1>. DEFINE Good == {j \in 0..n : \A i \in 0..j : off[i] <= off[j]}
<1>2. \A i \in 0..n : off[i] \in Nat
  BY <1>0 DEF Offsets
<1>3. 0 \in Good
  <2>1. \A i \in 0..0 : i = 0
    OBVIOUS
  <2>2. 0 \in 0..n
    OBVIOUS
  <2>3. off[0] <= off[0]
    BY <1>2, <2>2
  <2>. QED
    BY <2>1, <2>2, <2>3
<1>4. ASSUME NEW j \in 1..n, j - 1 \in Good PROVE j \in Good
  <2>1. PICK a, b, l \in Nat : a = off[j - 1] /\ b = off[j] /\ l = Len(seqs[j]) /\ b = a + l
    BY <1>1
  <2>2. ASSUME NEW i \in 0..j PROVE off[i] <= off[j]
    <3>1. CASE i = j
      <4>1. off[i] = b
        BY <2>1, <3>1
      <4>. QED
        BY <2>1, <4>1
    <3>2. CASE i # j
      <4>1. i \in 0..(j - 1) /\ i \in 0..n
        BY <3>2
      <4>2. off[i] <= a /\ off[i] \in Nat
        BY <1>2, <1>4, <2>1, <4>1
      <4>. QED
        BY <2>1, <4>2
    <3>. QED
      BY <3>1, <3>2
  <2>3. j \in 0..n
    OBVIOUS
  <2>. QED
    BY <2>2, <2>3
<1>5. \A j \in 0..n : j \in Good
  <2>. HIDE DEF Good
  <2>. QED
    BY <1>3, <1>4, UpTo
<1>. QED
  BY <1>0, <1>1, <1>5

LEMMA FlatStepsExist ==
  ASSUME NEW S, NEW seqs \in Seq(Seq(S)), Len(seqs) # 0
  PROVE  \E f \in [1..Len(seqs) -> Seq(S)] :
           FlatSteps(f, seqs) /\ Util!FlattenSeq(seqs) = f[Len(seqs)]
<1>0. PICK n \in Nat : n = Len(seqs) /\ n # 0
  OBVIOUS
<1>. DEFINE D == 1..Len(seqs)
            R == Seq(S)
            rank == [x \in D |-> x]
            step == [x \in D |-> [g \in [D -> R] |-> IF x = 1 THEN seqs[x] ELSE g[x - 1] \o seqs[x]]]
            Is(f) == f = [i \in D |-> IF i = 1 THEN seqs[i] ELSE f[i - 1] \o seqs[i]]
<1>1. rank \in [D -> 0..n]
  <2>1. \A x \in D : x \in 0..n
    BY <1>0
  <2>. QED
    BY <2>1
<1>2. \A x \in D : x # 1 => x - 1 \in D /\ rank[x - 1] < rank[x]
  <2>1. \A x \in D : x # 1 => x - 1 \in D /\ x - 1 < x
    OBVIOUS
  <2>. QED
    BY <2>1
<1>3. step \in [D -> [[D -> R] -> R]]
  <2>1. ASSUME NEW x \in D, NEW g \in [D -> R]
        PROVE  (IF x = 1 THEN seqs[x] ELSE g[x - 1] \o seqs[x]) \in R
    <3>1. seqs[x] \in R
      OBVIOUS
    <3>2. x # 1 => g[x - 1] \in R
      BY <1>2
    <3>. QED
      BY <3>1, <3>2
  <2>. HIDE DEF D, R
  <2>. QED
    BY <2>1
<1>4. ASSUME NEW x \in D, NEW g \in [D -> R], NEW h \in [D -> R],
             \A y \in D : rank[y] < rank[x] => g[y] = h[y]
      PROVE  step[x][g] = step[x][h]
  <2>. HIDE DEF D, R, rank
  <2>. QED
    BY <1>2, <1>4
<1>5. <<>> \in R
  OBVIOUS
<1>6. PICK g \in [D -> R] : Solves(g, D, step)
  <2>1. AsksLower(D, R, rank, step)
    <3>. HIDE DEF D, R, rank, step
    <3>. QED
      BY <1>4 DEF AsksLower
  <2>. HIDE DEF D, R, rank, step
  <2>2. PICK base \in R : base = <<>>
    BY <1>5
  <2>. QED
    BY <1>1, <1>3, <2>1, <2>2, RecursionExists
<1>7. Is(g)
  <2>1. g = [x \in D |-> g[x]]
    OBVIOUS
  <2>2. \A x \in D : g[x] = IF x = 1 THEN seqs[x] ELSE g[x - 1] \o seqs[x]
    <3>. HIDE DEF D, R
    <3>. QED
      BY <1>6 DEF Solves
  <2>. HIDE DEF D, R
  <2>. QED
    BY <2>1, <2>2, Zenon
<1>8. Util!FlattenSeq(seqs) = (CHOOSE f : Is(f))[Len(seqs)]
  BY Zenon DEF Util!FlattenSeq
<1>9. PICK f : Is(f) /\ f = CHOOSE u : Is(u)
  <2>. HIDE DEF Is
  <2>. QED
    BY <1>7, Zenon
<1>10. FlatSteps(f, seqs)
  <2>1. 1 \in D
    BY <1>0
  <2>2. \A i \in D : f[i] = IF i = 1 THEN seqs[i] ELSE f[i - 1] \o seqs[i]
    <3>. HIDE DEF D
    <3>. QED
      BY <1>9
  <2>. QED
    BY <2>1, <2>2 DEF FlatSteps
<1>11. f \in [D -> R]
  <2>. DEFINE Good == {k \in 0..n : k = 0 \/ f[k] \in R}
  <2>1. 0 \in Good
    OBVIOUS
  <2>2. ASSUME NEW k \in 1..n, k - 1 \in Good PROVE k \in Good
    <3>1. k \in D /\ seqs[k] \in R
      BY <1>0
    <3>2. k # 1 => f[k - 1] \in R
      BY <2>2
    <3>3. f[k] \in R
      <4>1. CASE k = 1
        BY <1>10, <3>1, <4>1 DEF FlatSteps
      <4>2. CASE k # 1
        <5>1. f[k] = f[k - 1] \o seqs[k]
          BY <1>10, <3>1, <4>2 DEF FlatSteps
        <5>. QED
          BY <3>1, <3>2, <4>2, <5>1
      <4>. QED
        BY <4>1, <4>2
    <3>. QED
      BY <3>3
  <2>3. \A k \in 0..n : k \in Good
    <3>. HIDE DEF Good
    <3>. QED
      BY <2>1, <2>2, UpTo
  <2>4. \A k \in D : f[k] \in R
    BY <1>0, <2>3
  <2>5. f = [k \in D |-> f[k]]
    BY <1>9
  <2>. HIDE DEF D, R
  <2>. QED
    BY <2>4, <2>5
<1>. HIDE DEF Is
<1>. QED
  BY <1>8, <1>9, <1>10, <1>11

LEMMA OffsetsExist ==
  ASSUME NEW S, NEW seqs \in Seq(Seq(S))
  PROVE  \E off : /\ Offsets(off, seqs) /\ Util!FlattenSeq(seqs) \in Seq(S)
                  /\ Len(Util!FlattenSeq(seqs)) = off[Len(seqs)]
                  /\ Laid(Util!FlattenSeq(seqs), seqs, off)
<1>1. CASE Len(seqs) = 0
  <2>1. Util!FlattenSeq(seqs) = seqs /\ seqs = <<>>
    BY <1>1 DEF Util!FlattenSeq
  <2>2. Offsets([i \in 0..0 |-> 0], seqs)
    BY <1>1 DEF Offsets
  <2>3. Laid(seqs, seqs, [i \in 0..0 |-> 0])
    BY <1>1 DEF Laid
  <2>. QED
    BY <1>1, <2>1, <2>2, <2>3
<1>2. CASE Len(seqs) # 0
  <2>0. PICK n \in Nat : n = Len(seqs) /\ n # 0
    BY <1>2
  <2>1. PICK f \in [1..n -> Seq(S)] : FlatSteps(f, seqs) /\ Util!FlattenSeq(seqs) = f[n]
    BY <1>2, <2>0, FlatStepsExist
  <2>2. PICK off : off = [i \in 0..n |-> IF i = 0 THEN 0 ELSE Len(f[i])]
    OBVIOUS
  <2>3. \A i \in 1..n : seqs[i] \in Seq(S) /\ f[i] \in Seq(S)
    BY <2>0
  <2>4. f[1] = seqs[1]
    BY <2>1 DEF FlatSteps
  <2>5. ASSUME NEW i \in 1..n, i # 1
        PROVE  /\ i - 1 \in 1..n /\ i - 1 \in 0..n /\ i - 1 # 0
               /\ f[i - 1] \in Seq(S) /\ seqs[i] \in Seq(S) /\ f[i] = f[i - 1] \o seqs[i]
    <3>1. i - 1 \in 1..n /\ i - 1 \in 0..n /\ i - 1 # 0
      BY <2>5
    <3>2. f[i] = f[i - 1] \o seqs[i]
      BY <2>0, <2>1, <2>5 DEF FlatSteps
    <3>. QED
      BY <2>3, <3>1, <3>2
  <2>6. Offsets(off, seqs)
    <3>1. off \in [0..n -> Nat] /\ off[0] = 0
      <4>1. \A i \in 0..n : (IF i = 0 THEN 0 ELSE Len(f[i])) \in Nat
        BY <2>3
      <4>. QED
        BY <2>2, <4>1
    <3>2. ASSUME NEW i \in 1..n PROVE off[i] = off[i - 1] + Len(seqs[i])
      <4>0. off[i] = Len(f[i])
        BY <2>2
      <4>1. CASE i = 1
        <5>1. Len(seqs[1]) \in Nat
          BY <2>3, <4>1
        <5>. QED
          BY <2>4, <3>1, <4>0, <4>1, <5>1
      <4>2. CASE i # 1
        <5>1. off[i - 1] = Len(f[i - 1])
          BY <2>2, <2>5, <4>2
        <5>2. PICK g \in Seq(S), t \in Seq(S) : g = f[i - 1] /\ t = seqs[i] /\ f[i] = g \o t
          BY <2>5, <4>2
        <5>3. Len(f[i]) = Len(g) + Len(t)
          BY <5>2
        <5>. QED
          BY <4>0, <5>1, <5>2, <5>3
      <4>. QED
        BY <4>1, <4>2
    <3>. QED
      BY <2>0, <3>1, <3>2 DEF Offsets
  <2>. DEFINE Part(m) == \A i \in 1..m : \A k \in 1..Len(seqs[i]) : f[m][off[i - 1] + k] = seqs[i][k]
              Good == {m \in 0..n : m = 0 \/ Part(m)}
  <2>7. ASSUME NEW m \in 1..n, m = 1 \/ Part(m - 1) PROVE Part(m)
    <3>1. CASE m = 1
      <4>1. off[0] = 0
        BY <2>2
      <4>2. \A i \in 1..m : i = 1
        BY <3>1
      <4>. QED
        BY <2>3, <2>4, <3>1, <4>1, <4>2
    <3>2. CASE m # 1
      <4>1. PICK g \in Seq(S), t \in Seq(S) : g = f[m - 1] /\ t = seqs[m] /\ f[m] = g \o t
        BY <2>5, <3>2
      <4>2. off[m - 1] = Len(g)
        BY <2>2, <2>5, <3>2, <4>1
      <4>0. /\ \A k \in 1..Len(g) : (g \o t)[k] = g[k]
            /\ \A k \in 1..Len(t) : (g \o t)[Len(g) + k] = t[k]
        BY Joined
      <4>. PICK h : h = g \o t /\ (\A k \in 1..Len(g) : h[k] = g[k])
                    /\ (\A k \in 1..Len(t) : h[Len(g) + k] = t[k])
        BY <4>0
      <4>3. \A k \in 1..Len(t) : f[m][off[m - 1] + k] = t[k]
        BY <4>1, <4>2
      <4>4. ASSUME NEW i \in 1..(m - 1), NEW k \in 1..Len(seqs[i])
            PROVE  f[m][off[i - 1] + k] = seqs[i][k]
        <5>0. i \in 1..Len(seqs) /\ i \in 0..(m - 1) /\ m - 1 \in 0..Len(seqs)
          BY <2>0
        <5>1. off[i - 1] + k \in 1..Len(g)
          <6>0. /\ off[i - 1] \in Nat /\ off[i] \in Nat /\ Len(seqs[i]) \in Nat
                /\ off[i] = off[i - 1] + Len(seqs[i])
            BY <2>6, <5>0, OffsetsGrow, Zenon
          <6>1. PICK a, b, l \in Nat :
                  a = off[i - 1] /\ b = off[i] /\ l = Len(seqs[i]) /\ b = a + l
            BY <6>0
          <6>2. off[i] <= off[m - 1]
            BY <2>6, <5>0, OffsetsGrow, Zenon
          <6>3. k \in 1..l
            BY <6>1
          <6>4. PICK e \in Nat : e = Len(g)
            OBVIOUS
          <6>5. b <= e
            BY <4>2, <6>1, <6>2, <6>4
          <6>6. a + k \in 1..e
            <7>1. b = a + l
              BY <6>1
            <7>. QED
              BY <6>3, <6>5, <7>1
          <6>. QED
            BY <6>1, <6>4, <6>6
        <5>2. g[off[i - 1] + k] = seqs[i][k]
          BY <2>7, <3>2, <4>1
        <5>. QED
          BY <4>1, <5>1, <5>2
      <4>5. \A i \in 1..m : i = m \/ i \in 1..(m - 1)
        OBVIOUS
      <4>. QED
        BY <4>1, <4>3, <4>4, <4>5
    <3>. QED
      BY <3>1, <3>2
  <2>8. 0 \in Good
    OBVIOUS
  <2>9. ASSUME NEW m \in 1..n, m - 1 \in Good PROVE m \in Good
    <3>1. m = 1 \/ Part(m - 1)
      BY <2>9
    <3>2. Part(m)
      <4>. HIDE DEF Part
      <4>. QED
        BY <2>7, <3>1
    <3>. HIDE DEF Part
    <3>. QED
      BY <3>2
  <2>10. Part(n)
    <3>. HIDE DEF Part
    <3>1. \A m \in 0..n : m \in Good
      <4>. HIDE DEF Good
      <4>. QED
        BY <2>8, <2>9, UpTo
    <3>. QED
      BY <2>0, <3>1
  <2>11. Laid(f[n], seqs, off)
    BY <2>0, <2>10 DEF Laid
  <2>12. f[n] \in Seq(S) /\ Len(f[n]) = off[n]
    BY <2>0, <2>2, <2>3
  <2>. QED
    BY <2>0, <2>1, <2>6, <2>11, <2>12
<1>. QED
  BY <1>1, <1>2

-----------------------------------------------------------------------------
LEMMA PositionsExchanged == \A i \in 1..16 : Util!Exchanged[i] \in 1..16
BY DEF Util!Exchanged

LEMMA GuidIsText ==
  ASSUME NEW B, NEW g \in [1..16 -> B]
  PROVE  g \in Seq(B) /\ Len(g) = 16
<1>1. PICK n \in Nat : n = 16
  OBVIOUS
<1>2. g \in [1..n -> B] /\ DOMAIN g = 1..n
  BY <1>1
<1>3. g \in Seq(B)
  BY <1>2, SeqDef
<1>4. \A s \in Seq(B) : Len(s) \in Nat /\ DOMAIN s = 1..Len(s)
  OBVIOUS
<1>5. PICK l \in Nat : l = Len(g) /\ 1..n = 1..l
  BY <1>2, <1>3, <1>4
<1>6. l = n
  BY <1>5
<1>. QED
  BY <1>1, <1>3, <1>5, <1>6

LEMMA JoinedIs ==
  ASSUME NEW S, NEW g \in Seq(S), NEW t \in Seq(S), NEW h, h = g \o t,
         NEW m \in Nat, m = Len(g), NEW n \in Nat, n = Len(t)
  PROVE  /\ h \in Seq(S) /\ Len(h) = m + n
         /\ \A k \in 1..m : h[k] = g[k]
         /\ \A k \in 1..n : h[m + k] = t[k]
BY Joined

LEMMA MemoryIs ==
  ASSUME NEW B, NEW g \in [1..16 -> B]
  PROVE  /\ Util!Memory(g) = [i \in 1..16 |-> g[Util!Exchanged[i]]]
         /\ Util!Memory(g) \in [1..16 -> B]
<1>0. g \in Seq(B) /\ Len(g) = 16
  BY GuidIsText
<1>1. PICK p : p = SubSeq(g, 1, 4)
  OBVIOUS
<1>2. PICK a : a = Util!Reverse(p)
  OBVIOUS
<1>3. a \in Seq(B) /\ Len(a) = 4 /\ a[1] = g[4] /\ a[2] = g[3] /\ a[3] = g[2] /\ a[4] = g[1]
  <2>1. p \in Seq(B) /\ Len(p) = 4 /\ \A k \in 1..4 : p[k] = g[(1 + k) - 1]
    BY <1>0, <1>1
  <2>2. a = [k \in 1..4 |-> p[(4 - k) + 1]]
    BY <1>2, <2>1 DEF Util!Reverse
  <2>. QED
    BY <2>1, <2>2
<1>4. PICK q : q = SubSeq(g, 5, 6)
  OBVIOUS
<1>5. PICK b : b = Util!Reverse(q)
  OBVIOUS
<1>6. b \in Seq(B) /\ Len(b) = 2 /\ b[1] = g[6] /\ b[2] = g[5]
  <2>1. q \in Seq(B) /\ Len(q) = 2 /\ \A k \in 1..2 : q[k] = g[(5 + k) - 1]
    BY <1>0, <1>4
  <2>2. b = [k \in 1..2 |-> q[(2 - k) + 1]]
    BY <1>5, <2>1 DEF Util!Reverse
  <2>. QED
    BY <2>1, <2>2
<1>7. PICK r : r = SubSeq(g, 7, 8)
  OBVIOUS
<1>8. PICK c : c = Util!Reverse(r)
  OBVIOUS
<1>9. c \in Seq(B) /\ Len(c) = 2 /\ c[1] = g[8] /\ c[2] = g[7]
  <2>1. r \in Seq(B) /\ Len(r) = 2 /\ \A k \in 1..2 : r[k] = g[(7 + k) - 1]
    BY <1>0, <1>7
  <2>2. c = [k \in 1..2 |-> r[(2 - k) + 1]]
    BY <1>8, <2>1 DEF Util!Reverse
  <2>. QED
    BY <2>1, <2>2
<1>10. PICK d : d = SubSeq(g, 9, 16)
  OBVIOUS
<1>11. d \in Seq(B) /\ Len(d) = 8 /\ \A k \in 1..8 : d[k] = g[8 + k]
  <2>1. d \in Seq(B) /\ Len(d) = 8 /\ \A k \in 1..8 : d[k] = g[(9 + k) - 1]
    BY <1>0, <1>10
  <2>2. \A k \in 1..8 : (9 + k) - 1 = 8 + k
    OBVIOUS
  <2>. QED
    BY <2>1, <2>2
<1>13. PICK ab : ab = a \o b
  OBVIOUS
<1>14. ab \in Seq(B) /\ Len(ab) = 6 /\ (\A k \in 1..4 : ab[k] = a[k]) /\ ab[5] = b[1] /\ ab[6] = b[2]
  <2>0. PICK u \in Nat, v \in Nat : u = 4 /\ v = 2
    OBVIOUS
  <2>1. u = Len(a) /\ v = Len(b) /\ a \in Seq(B) /\ b \in Seq(B)
    BY <1>3, <1>6, <2>0
  <2>2. /\ ab \in Seq(B) /\ Len(ab) = u + v /\ \A k \in 1..u : ab[k] = a[k]
        /\ \A k \in 1..v : ab[u + k] = b[k]
    BY <1>13, <2>1, JoinedIs
  <2>. QED
    BY <2>0, <2>2
<1>15. PICK abc : abc = ab \o c
  OBVIOUS
<1>16. abc \in Seq(B) /\ Len(abc) = 8 /\ (\A k \in 1..6 : abc[k] = ab[k]) /\ abc[7] = c[1] /\ abc[8] = c[2]
  <2>0. PICK u \in Nat, v \in Nat : u = 6 /\ v = 2
    OBVIOUS
  <2>1. u = Len(ab) /\ v = Len(c) /\ ab \in Seq(B) /\ c \in Seq(B)
    BY <1>9, <1>14, <2>0
  <2>2. /\ abc \in Seq(B) /\ Len(abc) = u + v /\ \A k \in 1..u : abc[k] = ab[k]
        /\ \A k \in 1..v : abc[u + k] = c[k]
    BY <1>15, <2>1, JoinedIs
  <2>. QED
    BY <2>0, <2>2
<1>17. PICK m : m = abc \o d
  OBVIOUS
<1>18. /\ m \in Seq(B) /\ Len(m) = 16 /\ (\A k \in 1..8 : m[k] = abc[k])
       /\ \A k \in 1..8 : m[8 + k] = d[k]
  <2>0. PICK u \in Nat, v \in Nat : u = 8 /\ v = 8
    OBVIOUS
  <2>1. u = Len(abc) /\ v = Len(d) /\ abc \in Seq(B) /\ d \in Seq(B)
    BY <1>11, <1>16, <2>0
  <2>2. /\ m \in Seq(B) /\ Len(m) = u + v /\ \A k \in 1..u : m[k] = abc[k]
        /\ \A k \in 1..v : m[u + k] = d[k]
    BY <1>17, <2>1, JoinedIs
  <2>. QED
    BY <2>0, <2>2
<1>19. m = Util!Memory(g)
  BY <1>1, <1>2, <1>4, <1>5, <1>7, <1>8, <1>10, <1>13, <1>15, <1>17 DEF Util!Memory
<1>20. /\ m[1] = g[4] /\ m[2] = g[3] /\ m[3] = g[2] /\ m[4] = g[1] /\ m[5] = g[6] /\ m[6] = g[5]
       /\ m[7] = g[8] /\ m[8] = g[7]
  BY <1>3, <1>6, <1>9, <1>14, <1>16, <1>18
<1>21. /\ m[9] = g[9] /\ m[10] = g[10] /\ m[11] = g[11] /\ m[12] = g[12] /\ m[13] = g[13]
       /\ m[14] = g[14] /\ m[15] = g[15] /\ m[16] = g[16]
  BY <1>11, <1>18
<1>22. \A i \in 1..16 : m[i] = g[Util!Exchanged[i]]
  <2>1. \A i \in 1..16 : i \in {1, 2, 3, 4, 5, 6, 7, 8, 9, 10, 11, 12, 13, 14, 15, 16}
    OBVIOUS
  <2>. QED
    BY <1>20, <1>21, <2>1 DEF Util!Exchanged
<1>23. m = [i \in 1..16 |-> m[i]]
  <2>1. DOMAIN m = 1..16
    BY <1>18
  <2>. QED
    BY <1>18, <2>1
<1>24. m = [i \in 1..16 |-> g[Util!Exchanged[i]]]
  BY <1>22, <1>23
<1>25. \A i \in 1..16 : g[Util!Exchanged[i]] \in B
  BY PositionsExchanged
<1>. QED
  BY <1>19, <1>24, <1>25

-----------------------------------------------------------------------------
(* A digit stands for one number, in upper and lower case.                 *)
(* The digits with their numbers.                                          *)
Valued(c, d) ==
  \/ (c = "0" /\ d = 0) \/ (c = "1" /\ d = 1) \/ (c = "2" /\ d = 2) \/ (c = "3" /\ d = 3)
  \/ (c = "4" /\ d = 4) \/ (c = "5" /\ d = 5) \/ (c = "6" /\ d = 6) \/ (c = "7" /\ d = 7)
  \/ (c = "8" /\ d = 8) \/ (c = "9" /\ d = 9)
  \/ (c \in {"A", "a"} /\ d = 10) \/ (c \in {"B", "b"} /\ d = 11) \/ (c \in {"C", "c"} /\ d = 12)
  \/ (c \in {"D", "d"} /\ d = 13) \/ (c \in {"E", "e"} /\ d = 14) \/ (c \in {"F", "f"} /\ d = 15)

LEMMA DigitsDiffer ==
  \A d, e \in 0..15 : /\ Util!Upper[d + 1] \in {Util!Upper[e + 1], Util!Lower[e + 1]} => d = e
                      /\ Util!Lower[d + 1] \in {Util!Upper[e + 1], Util!Lower[e + 1]} => d = e
                      /\ Util!Upper[d + 1] # " "
<1>1. \A d \in 0..15 : d \in {0, 1, 2, 3, 4, 5, 6, 7, 8, 9, 10, 11, 12, 13, 14, 15}
  OBVIOUS
<1>2. \A d \in 0..15 : Valued(Util!Upper[d + 1], d)
  BY <1>1 DEF Valued, Util!Upper
<1>3. \A d \in 0..15 : Valued(Util!Lower[d + 1], d)
  BY <1>1 DEF Valued, Util!Lower
<1>4. \A c, d, e : Valued(c, d) /\ Valued(c, e) => d = e
  BY DEF Valued
<1>5. \A d : ~Valued(" ", d)
  BY DEF Valued
<1>. QED
  BY <1>2, <1>3, <1>4, <1>5

LEMMA DigitsKnown ==
  ASSUME NEW d \in 0..15, NEW otherwise
  PROVE  /\ Util!HexValue(Util!Upper[d + 1], otherwise) = d
         /\ Util!HexValue(Util!Lower[d + 1], otherwise) = d
<1>1. DOMAIN Util!Upper = 1..16 /\ DOMAIN Util!Lower = 1..16 /\ d + 1 \in 1..16
  BY DEF Util!Upper, Util!Lower
<1>2. DOMAIN Util!HexDigits = Util!ToSet(Util!Upper) \cup Util!ToSet(Util!Lower)
  BY DEF Util!HexDigits
<1>3. Util!Upper[d + 1] \in DOMAIN Util!HexDigits /\ Util!Lower[d + 1] \in DOMAIN Util!HexDigits
  BY <1>1, <1>2 DEF Util!ToSet
<1>4. \A c \in DOMAIN Util!HexDigits :
        Util!HexDigits[c] = CHOOSE k \in 0..15 : c \in {Util!Upper[k + 1], Util!Lower[k + 1]}
  BY <1>2 DEF Util!HexDigits
<1>5. ASSUME NEW c \in {Util!Upper[d + 1], Util!Lower[d + 1]} PROVE Util!HexDigits[c] = d
  <2>1. \A k \in 0..15 : c \in {Util!Upper[k + 1], Util!Lower[k + 1]} <=> k = d
    BY DigitsDiffer
  <2>2. Util!HexDigits[c] = CHOOSE k \in 0..15 : c \in {Util!Upper[k + 1], Util!Lower[k + 1]}
    BY <1>3, <1>4
  <2>. QED
    BY <2>1, <2>2
<1>. QED
  BY <1>3, <1>5 DEF Util!HexValue

(* A text of pairs.                                                        *)
LEMMA PairsLaid ==
  ASSUME NEW S, NEW seqs \in Seq(Seq(S)), \A i \in 1..Len(seqs) : Len(seqs[i]) = 2
  PROVE  /\ Util!FlattenSeq(seqs) \in Seq(S) /\ Len(Util!FlattenSeq(seqs)) = 2 * Len(seqs)
         /\ \A i \in 1..Len(seqs) : /\ Util!FlattenSeq(seqs)[2 * i - 1] = seqs[i][1]
                                    /\ Util!FlattenSeq(seqs)[2 * i] = seqs[i][2]
<1>0. PICK n \in Nat : n = Len(seqs)
  OBVIOUS
<1>1. PICK off : /\ Offsets(off, seqs) /\ Util!FlattenSeq(seqs) \in Seq(S)
                 /\ Len(Util!FlattenSeq(seqs)) = off[n]
                 /\ Laid(Util!FlattenSeq(seqs), seqs, off)
  BY <1>0, OffsetsExist
<1>. DEFINE Good == {j \in 0..n : off[j] = 2 * j}
<1>2. 0 \in Good
  BY <1>1 DEF Offsets
<1>3. ASSUME NEW j \in 1..n, j - 1 \in Good PROVE j \in Good
  <2>1. off[j] = off[j - 1] + 2
    BY <1>0, <1>1 DEF Offsets
  <2>. QED
    BY <1>3, <2>1
<1>4. \A j \in 0..n : off[j] = 2 * j
  <2>1. \A j \in 0..n : j \in Good
    <3>. HIDE DEF Good
    <3>. QED
      BY <1>2, <1>3, UpTo
  <2>. QED
    BY <2>1
<1>5. ASSUME NEW i \in 1..n
      PROVE  /\ Util!FlattenSeq(seqs)[2 * i - 1] = seqs[i][1]
             /\ Util!FlattenSeq(seqs)[2 * i] = seqs[i][2]
  <2>1. off[i - 1] = 2 * (i - 1) /\ 2 * (i - 1) + 1 = 2 * i - 1 /\ 2 * (i - 1) + 2 = 2 * i
    BY <1>4
  <2>2. \A k \in 1..2 : Util!FlattenSeq(seqs)[off[i - 1] + k] = seqs[i][k]
    BY <1>0, <1>1 DEF Laid
  <2>. QED
    BY <2>1, <2>2
<1>. QED
  BY <1>0, <1>1, <1>4, <1>5

LEMMA ByteParts ==
  \A n \in 0..255 : n \div 16 \in 0..15 /\ n % 16 \in 0..15 /\ (16 * (n \div 16) + (n % 16)) % 256 = n
OBVIOUS

LEMMA TextDigits ==
  ASSUME NEW g \in [1..16 -> 0..255], NEW digits
  PROVE  /\ Len(Util!Text(g, digits)) = 32
         /\ Util!Text(g, digits) \in Seq({digits[d + 1] : d \in 0..15})
         /\ \A i \in 1..16 : /\ Util!Text(g, digits)[2 * i - 1] = digits[g[i] \div 16 + 1]
                             /\ Util!Text(g, digits)[2 * i] = digits[(g[i] % 16) + 1]
<1>1. PICK S : S = {digits[d + 1] : d \in 0..15}
  OBVIOUS
<1>2. PICK seqs : seqs = [i \in DOMAIN g |-> <<digits[g[i] \div 16 + 1], digits[(g[i] % 16) + 1]>>]
  OBVIOUS
<1>3. \A i \in 1..16 : digits[g[i] \div 16 + 1] \in S /\ digits[(g[i] % 16) + 1] \in S
  BY <1>1, ByteParts
<1>4. seqs \in [1..16 -> Seq(S)]
  <2>1. \A i \in 1..16 : <<digits[g[i] \div 16 + 1], digits[(g[i] % 16) + 1]>> \in Seq(S)
    BY <1>3
  <2>2. DOMAIN g = 1..16
    OBVIOUS
  <2>. QED
    BY <1>2, <2>1, <2>2
<1>5. seqs \in Seq(Seq(S)) /\ Len(seqs) = 16
  BY <1>4, GuidIsText
<1>6. \A i \in 1..16 : /\ Len(seqs[i]) = 2 /\ seqs[i][1] = digits[g[i] \div 16 + 1]
                       /\ seqs[i][2] = digits[(g[i] % 16) + 1]
  BY <1>2
<1>7. PICK t : t = Util!FlattenSeq(seqs)
  OBVIOUS
<1>8. t = Util!Text(g, digits)
  BY <1>2, <1>7 DEF Util!Text
<1>9. PICK n \in Nat : n = 16 /\ n = Len(seqs)
  BY <1>5
<1>10. /\ t \in Seq(S) /\ Len(t) = 2 * n
       /\ \A i \in 1..n : t[2 * i - 1] = seqs[i][1] /\ t[2 * i] = seqs[i][2]
  <2>1. \A i \in 1..Len(seqs) : Len(seqs[i]) = 2
    BY <1>5, <1>6
  <2>. QED
    BY <1>5, <1>7, <1>9, <2>1, PairsLaid
<1>11. Len(t) = 32
  <2>1. 2 * n = 32
    BY <1>9
  <2>. QED
    BY <1>10, <2>1
<1>12. \A i \in 1..16 : t[2 * i - 1] = seqs[i][1] /\ t[2 * i] = seqs[i][2]
  BY <1>9, <1>10
<1>. QED
  BY <1>1, <1>6, <1>8, <1>10, <1>11, <1>12

(* SetUID reads the memory of a GUID from its text.                        *)
LEMMA IdRead ==
  ASSUME NEW g \in [1..16 -> 0..255], NEW uid, NEW unset, NEW digits \in {Util!Upper, Util!Lower}
  PROVE  Util!SetUID(uid, Util!Text(g, digits), unset) = Util!Memory(g)
<1>1. PICK str : str = Util!Text(g, digits)
  OBVIOUS
<1>2. Len(str) = 32
  BY <1>1, TextDigits
<1>3. ASSUME NEW e \in 1..16
      PROVE  (16 * Util!HexValue(str[2 * e - 1], unset) + Util!HexValue(str[2 * e], 0)) % 256 = g[e]
  <2>1. PICK n \in 0..255, a \in 0..15, b \in 0..15 :
          n = g[e] /\ a = n \div 16 /\ b = n % 16 /\ (16 * a + b) % 256 = n
    BY ByteParts
  <2>2. str[2 * e - 1] = digits[a + 1] /\ str[2 * e] = digits[b + 1]
    BY <1>1, <2>1, TextDigits
  <2>3. Util!HexValue(digits[a + 1], unset) = a
    BY DigitsKnown
  <2>4. Util!HexValue(digits[b + 1], 0) = b
    BY DigitsKnown
  <2>. QED
    BY <2>1, <2>2, <2>3, <2>4
<1>4. Util!SetUID(uid, str, unset) =
        [i \in 1..16 |-> (16 * Util!HexValue(str[2 * Util!Exchanged[i] - 1], unset)
                            + Util!HexValue(str[2 * Util!Exchanged[i]], 0)) % 256]
  BY <1>2 DEF Util!SetUID
<1>5. \A i \in 1..16 : (16 * Util!HexValue(str[2 * Util!Exchanged[i] - 1], unset)
                          + Util!HexValue(str[2 * Util!Exchanged[i]], 0)) % 256 = g[Util!Exchanged[i]]
  BY <1>3, PositionsExchanged
<1>6. Util!SetUID(uid, str, unset) = [i \in 1..16 |-> g[Util!Exchanged[i]]]
  BY <1>4, <1>5
<1>7. Util!Memory(g) = [i \in 1..16 |-> g[Util!Exchanged[i]]]
  BY MemoryIs, Zenon
<1>. QED
  BY <1>1, <1>6, <1>7

LEMMA TailShorter ==
  ASSUME NEW S, NEW t \in Seq(S), NEW n \in Nat, Len(t) = n, n > 0
  PROVE  Len(Tail(t)) = n - 1
<1>1. t # <<>>
  OBVIOUS
<1>. QED
  BY <1>1, HeadTailProperties

LEMMA ShortIdIgnored ==
  ASSUME NEW S, NEW t \in Seq(S), NEW n \in Nat, Len(t) = n, n = 32, NEW uid
  PROVE  Util!SetUID(uid, Tail(t), 0) = uid
<1>1. n > 0 /\ n - 1 # 32
  OBVIOUS
<1>2. Len(Tail(t)) = n - 1
  BY <1>1, TailShorter
<1>3. Len(Tail(t)) # 32
  BY <1>1, <1>2, Zenon
<1>. QED
  BY <1>3 DEF Util!SetUID

-----------------------------------------------------------------------------
(* Words with a delimiter behind each are the tokens of their text.        *)
WordsOf(words, S, blank) ==
  /\ words \in Seq(Seq(S)) /\ blank \in S
  /\ \A i \in 1..Len(words) : Len(words[i]) > 0 /\ \A k \in 1..Len(words[i]) : words[i][k] # blank

BlankBehind(words, blank) == [i \in 1..Len(words) |-> words[i] \o <<blank>>]

(* Where the words are in the text: word i is behind offset i - 1.         *)
WordsAt(s, off, words, blank) ==
  /\ off \in [0..Len(words) -> 0..Len(s)] /\ off[0] = 0 /\ off[Len(words)] = Len(s)
  /\ \A i \in 1..Len(words) :
       /\ off[i] = off[i - 1] + (Len(words[i]) + 1) /\ s[off[i]] = blank
       /\ \A k \in 1..Len(words[i]) : s[off[i - 1] + k] = words[i][k]

LEMMA BlankIsBehind ==
  ASSUME NEW S, NEW w \in Seq(S), NEW blank \in S, NEW l \in Nat, l = Len(w)
  PROVE  /\ w \o <<blank>> \in Seq(S) /\ Len(w \o <<blank>>) = l + 1 /\ (w \o <<blank>>)[l + 1] = blank
         /\ \A k \in 1..l : (w \o <<blank>>)[k] = w[k]
<1>1. <<blank>> \in Seq(S) /\ Len(<<blank>>) = 1 /\ <<blank>>[1] = blank
  OBVIOUS
<1>2. PICK h : h = <<blank>> /\ h \in Seq(S) /\ Len(h) = 1 /\ h[1] = blank
  BY <1>1
<1>3. /\ w \o h \in Seq(S) /\ Len(w \o h) = Len(w) + Len(h)
      /\ \A k \in 1..Len(w) : (w \o h)[k] = w[k]
      /\ \A k \in 1..Len(h) : (w \o h)[Len(w) + k] = h[k]
  BY <1>2, Joined
<1>4. (w \o h)[l + 1] = blank
  BY <1>2, <1>3
<1>. QED
  BY <1>2, <1>3, <1>4

LEMMA TextOfWords ==
  ASSUME NEW S, NEW words, NEW blank, WordsOf(words, S, blank)
  PROVE  /\ Util!FlattenSeq(BlankBehind(words, blank)) \in Seq(S)
         /\ \E off : WordsAt(Util!FlattenSeq(BlankBehind(words, blank)), off, words, blank)
<1>0. PICK n \in Nat : n = Len(words)
  BY DEF WordsOf
<1>1. PICK seqs : seqs = BlankBehind(words, blank)
  OBVIOUS
<1>2. ASSUME NEW i \in 1..n
      PROVE  /\ words[i] \in Seq(S) /\ Len(words[i]) \in Nat
             /\ seqs[i] \in Seq(S) /\ Len(seqs[i]) = Len(words[i]) + 1 /\ seqs[i][Len(words[i]) + 1] = blank
             /\ \A k \in 1..Len(words[i]) : seqs[i][k] = words[i][k]
  <2>1. PICK w \in Seq(S), l \in Nat : w = words[i] /\ l = Len(w)
    BY <1>0 DEF WordsOf
  <2>2. seqs[i] = w \o <<blank>>
    BY <1>0, <1>1, <2>1 DEF BlankBehind
  <2>3. /\ w \o <<blank>> \in Seq(S) /\ Len(w \o <<blank>>) = l + 1 /\ (w \o <<blank>>)[l + 1] = blank
        /\ \A k \in 1..l : (w \o <<blank>>)[k] = w[k]
    BY <2>1, BlankIsBehind DEF WordsOf
  <2>. QED
    BY <2>1, <2>2, <2>3
<1>3. seqs \in Seq(Seq(S)) /\ Len(seqs) = n
  <2>1. seqs = [i \in 1..n |-> seqs[i]]
    BY <1>0, <1>1 DEF BlankBehind
  <2>. QED
    BY <1>2, <2>1
<1>4. PICK s : s = Util!FlattenSeq(seqs)
  OBVIOUS
<1>5. PICK off : Offsets(off, seqs) /\ s \in Seq(S) /\ Len(s) = off[n] /\ Laid(s, seqs, off)
  BY <1>3, <1>4, OffsetsExist
<1>6. /\ \A i \in 1..n : /\ off[i - 1] \in Nat /\ off[i] \in Nat /\ Len(seqs[i]) \in Nat
                         /\ off[i] = off[i - 1] + Len(seqs[i])
      /\ \A j \in 0..n : \A i \in 0..j : off[i] <= off[j]
  BY <1>3, <1>5, OffsetsGrow
<1>7. off \in [0..n -> 0..Len(s)] /\ off[0] = 0 /\ off[n] = Len(s)
  <2>1. off \in [0..n -> Nat] /\ off[0] = 0
    BY <1>3, <1>5 DEF Offsets
  <2>2. \A i \in 0..n : off[i] <= off[n] /\ off[i] \in Nat
    <3>1. \A i \in 0..n : n \in 0..n /\ i \in 0..n
      OBVIOUS
    <3>. QED
      BY <1>6, <2>1, <3>1
  <2>3. \A i \in 0..n : off[i] \in 0..Len(s)
    BY <1>5, <2>2
  <2>. QED
    BY <1>5, <2>1, <2>3
<1>8. ASSUME NEW i \in 1..n
      PROVE  /\ off[i] = off[i - 1] + (Len(words[i]) + 1) /\ s[off[i]] = blank
             /\ \A k \in 1..Len(words[i]) : s[off[i - 1] + k] = words[i][k]
  <2>1. PICK l \in Nat : l = Len(words[i]) /\ Len(seqs[i]) = l + 1
    BY <1>2
  <2>2. off[i] = off[i - 1] + (l + 1)
    BY <1>6, <2>1
  <2>3. \A k \in 1..(l + 1) : s[off[i - 1] + k] = seqs[i][k]
    BY <1>3, <1>5, <2>1 DEF Laid
  <2>4. s[off[i - 1] + (l + 1)] = blank
    <3>1. l + 1 \in 1..(l + 1) /\ seqs[i][l + 1] = blank
      BY <1>2, <2>1
    <3>. QED
      BY <2>3, <3>1
  <2>5. \A k \in 1..l : s[off[i - 1] + k] = words[i][k]
    BY <1>2, <2>1, <2>3
  <2>. QED
    BY <2>1, <2>2, <2>4, <2>5
<1>9. WordsAt(s, off, words, blank)
  BY <1>0, <1>7, <1>8 DEF WordsAt
<1>. QED
  BY <1>1, <1>4, <1>5, <1>9

(* One word is found, and the search goes on at the next.                  *)
IsFound(s, off, words, blank, i) ==
  /\ off[i - 1] + 1 \in 1..Len(s) /\ off[i] + 1 \in 1..(Len(s) + 1)
  /\ Token(s, {blank}, off[i - 1] + 1) = words[i]
  /\ NextToken(s, {blank}, off[i - 1] + 1) = off[i] + 1

LEMMA WordFound ==
  ASSUME NEW S, NEW words, NEW blank, WordsOf(words, S, blank),
         NEW s \in Seq(S), NEW off, WordsAt(s, off, words, blank), NEW i \in 1..Len(words)
  PROVE  IsFound(s, off, words, blank, i)
<1>0. PICK n \in Nat, L \in Nat : n = Len(words) /\ L = Len(s)
  BY DEF WordsOf
<1>1. PICK a \in 0..L, b \in 0..L, l \in Nat, w \in Seq(S) :
        a = off[i - 1] /\ b = off[i] /\ w = words[i] /\ l = Len(w) /\ l > 0 /\ b = a + (l + 1)
  <2>1. i - 1 \in 0..n /\ i \in 0..n
    BY <1>0
  <2>2. off[i - 1] \in 0..L /\ off[i] \in 0..L /\ off[i] = off[i - 1] + (Len(words[i]) + 1)
    BY <1>0, <2>1 DEF WordsAt
  <2>3. words[i] \in Seq(S) /\ Len(words[i]) > 0
    BY <1>0 DEF WordsOf
  <2>. QED
    BY <2>2, <2>3
<1>. PICK c \in Nat : c = a + 1 /\ b = c + l /\ c \in 1..L /\ l > 0
  <2>1. b = a + (l + 1) /\ l > 0
    BY <1>1
  <2>. QED
    BY <2>1
<1>2. s[b] = blank /\ \A k \in 1..l : s[a + k] = w[k] /\ w[k] # blank
  BY <1>0, <1>1 DEF WordsAt, WordsOf
<1>3. Util!FirstOf(s, {blank}, a + 1) = b
  <2>1. a + 1 \in 1..(Len(s) + 1) /\ Len(s) \in Nat
    BY <1>0, <1>1
  <2>2. PICK r \in (a + 1)..(L + 1) :
          /\ r = Util!FirstOf(s, {blank}, a + 1) /\ (r <= L => s[r] \in {blank})
          /\ Without(s, {blank}, a + 1, r - 1)
    BY <1>0, <2>1, FirstFound
  <2>3. ~(b <= r - 1)
    <3>1. b \in (a + 1)..(r - 1) => s[b] # blank
      BY <2>2 DEF Without
    <3>2. b <= r - 1 => b \in (a + 1)..(r - 1)
      OBVIOUS
    <3>. QED
      BY <1>2, <3>1, <3>2
  <2>4. ~(r < b)
    <3>1. ASSUME r < b PROVE FALSE
      <4>1. PICK k \in 1..l : r = a + k
        <5>1. r - a \in 1..l /\ r = a + (r - a)
          BY <3>1
        <5>. QED
          BY <5>1
      <4>2. s[r] = blank
        BY <1>1, <2>2, <3>1
      <4>. QED
        BY <1>2, <4>1, <4>2
    <3>. QED
      BY <3>1
  <2>. QED
    BY <1>1, <2>2, <2>3, <2>4
<1>4. Util!FirstNotOf(s, {blank}, b) = b + 1
  <2>1. b \in 1..(Len(s) + 1) /\ Len(s) \in Nat
    BY <1>0, <1>1
  <2>2. PICK r \in b..(L + 1) :
          /\ r = Util!FirstNotOf(s, {blank}, b) /\ (r <= L => s[r] \notin {blank})
          /\ Within(s, {blank}, b, r - 1)
    BY <1>0, <2>1, FirstNotFound
  <2>3. r # b
    BY <1>1, <1>2, <2>2
  <2>4. ~(b + 1 < r)
    <3>1. ASSUME b + 1 < r PROVE FALSE
      <4>1. s[b + 1] = blank
        <5>1. b + 1 \in b..(r - 1)
          BY <3>1
        <5>. QED
          BY <2>2, <5>1 DEF Within
      <4>2. b # L
        BY <2>2, <3>1
      <4>3. i # n
        BY <1>0, <1>1, <4>2 DEF WordsAt
      <4>4. i + 1 \in 1..n /\ (i + 1) - 1 = i
        BY <1>0, <4>3
      <4>5. PICK x : x = words[i + 1] /\ Len(x) > 0 /\ x \in Seq(S) /\ \A k \in 1..Len(x) : x[k] # blank
        BY <1>0, <4>4 DEF WordsOf
      <4>6. 1 \in 1..Len(x)
        BY <4>5
      <4>7. s[off[i] + 1] = x[1]
        <5>1. \A k \in 1..Len(words[i + 1]) : s[off[(i + 1) - 1] + k] = words[i + 1][k]
          BY <1>0, <4>4 DEF WordsAt
        <5>. QED
          BY <4>4, <4>5, <4>6, <5>1
      <4>. QED
        BY <1>1, <4>1, <4>5, <4>6, <4>7
    <3>. QED
      BY <3>1
  <2>5. r = b + 1
    BY <2>3, <2>4
  <2>. QED
    BY <2>2, <2>5
<1>5. SubSeq(s, a + 1, b - 1) = w
  <2>1. PICK m \in Int, e \in Int :
          m = a + 1 /\ e = b - 1 /\ m <= e /\ (e - m) + 1 = l
    <3>1. a + 1 \in Int /\ b - 1 \in Int /\ a + 1 <= b - 1 /\ ((b - 1) - (a + 1)) + 1 = l
      OBVIOUS
    <3>. QED
      BY <3>1
  <2>2. \A k \in m..e : k \in 1..L
    BY <2>1
  <2>3. \A k \in m..e : s[k] \in S
    BY <1>0, <2>2
  <2>4. /\ SubSeq(s, m, e) \in Seq(S) /\ Len(SubSeq(s, m, e)) = l
        /\ \A k \in 1..l : SubSeq(s, m, e)[k] = s[(m + k) - 1]
    BY <2>1, <2>3, SubSeqProperties
  <2>5. \A k \in 1..l : (m + k) - 1 = a + k
    BY <2>1
  <2>6. PICK p : p = SubSeq(s, m, e)
    OBVIOUS
  <2>7. p \in Seq(S) /\ Len(p) = l /\ \A k \in 1..l : p[k] = w[k]
    BY <1>2, <2>4, <2>5, <2>6
  <2>8. Len(p) = Len(w) /\ \A k \in 1..Len(p) : p[k] = w[k]
    BY <1>1, <2>7
  <2>9. p = w
    BY <2>7, <2>8, SameElements
  <2>. QED
    BY <2>1, <2>6, <2>9
<1>6. a + 1 \in 1..L /\ b + 1 \in 1..(L + 1)
  OBVIOUS
<1>. QED
  BY <1>0, <1>1, <1>3, <1>4, <1>5, <1>6 DEF IsFound, Token, NextToken

LEMMA WordsSplit ==
  ASSUME NEW S, NEW words, NEW blank, WordsOf(words, S, blank)
  PROVE  Util!Split(Util!FlattenSeq(BlankBehind(words, blank)), {blank}, 0) = words
<1>0. PICK n \in Nat : n = Len(words)
  BY DEF WordsOf
<1>. PICK s \in Seq(S) : s = Util!FlattenSeq(BlankBehind(words, blank))
  BY TextOfWords
<1>1. PICK off : s = Util!FlattenSeq(BlankBehind(words, blank)) /\ WordsAt(s, off, words, blank)
  BY TextOfWords
<1>2. PICK tokens :
        TokensOf(tokens, s, {blank}) /\ Limited(s, {blank}, tokens[Util!FirstNotOf(s, {blank}, 1)])
  BY SplitSteps
<1>3. Util!Split(s, {blank}, 0) = tokens[Util!FirstNotOf(s, {blank}, 1)]
  BY <1>2 DEF Limited
<1>4. words \in Seq(Seq(S)) /\ \A i \in 1..n : words[i] \in Seq(S)
  BY <1>0 DEF WordsOf
<1>5. ASSUME NEW i \in 1..n
      PROVE  tokens[off[i - 1] + 1] = <<words[i]>> \o tokens[off[i] + 1]
  <2>1. /\ off[i - 1] + 1 \in 1..Len(s) /\ off[i] + 1 \in 1..(Len(s) + 1)
        /\ Token(s, {blank}, off[i - 1] + 1) = words[i]
        /\ NextToken(s, {blank}, off[i - 1] + 1) = off[i] + 1
    <3>1. WordsAt(s, off, words, blank) /\ i \in 1..Len(words)
      BY <1>0, <1>1
    <3>2. IsFound(s, off, words, blank, i)
      BY <3>1, WordFound
    <3>. QED
      BY <3>2 DEF IsFound
  <2>2. off[i - 1] + 1 \in 1..(Len(s) + 1) /\ ~(off[i - 1] + 1 > Len(s))
    BY <2>1
  <2>. QED
    BY <1>2, <2>1, <2>2 DEF TokensOf
<1>6. tokens[off[n] + 1] = <<>>
  <2>1. PICK L \in Nat : L = Len(s) /\ off[n] = L
    BY <1>0, <1>1 DEF WordsAt
  <2>2. L + 1 \in 1..(L + 1) /\ L + 1 > L
    OBVIOUS
  <2>. QED
    BY <1>2, <2>1, <2>2 DEF TokensOf
<1>7. Util!FirstNotOf(s, {blank}, 1) = off[0] + 1
  <2>1. PICK L \in Nat : L = Len(s)
    OBVIOUS
  <2>2. off[0] = 0 /\ off[n] = L
    BY <1>0, <1>1, <2>1 DEF WordsAt
  <2>3. PICK r \in 1..(L + 1) :
          /\ r = Util!FirstNotOf(s, {blank}, 1) /\ (r <= L => s[r] \notin {blank})
          /\ Within(s, {blank}, 1, r - 1)
    <3>1. 1 \in 1..(Len(s) + 1) /\ Len(s) \in Nat
      BY <2>1
    <3>. QED
      BY <2>1, <3>1, FirstNotFound
  <2>4. CASE n = 0
    <3>1. L = 0
      BY <2>2, <2>4
    <3>2. r = 1
      BY <3>1
    <3>. QED
      BY <2>2, <2>3, <3>2
  <2>5. CASE n # 0
    <3>1. 1 \in 1..n /\ 1 - 1 = 0
      BY <2>5
    <3>2. PICK x : x = words[1] /\ Len(x) > 0 /\ x \in Seq(S) /\ \A k \in 1..Len(x) : x[k] # blank
      BY <1>0, <1>4, <3>1 DEF WordsOf
    <3>3. 1 \in 1..Len(x)
      BY <3>2
    <3>4. s[1] # blank
      <4>1. \A k \in 1..Len(words[1]) : s[off[1 - 1] + k] = words[1][k]
        BY <1>0, <1>1, <3>1 DEF WordsAt
      <4>2. s[off[0] + 1] = x[1]
        BY <3>1, <3>2, <3>3, <4>1
      <4>. QED
        BY <2>2, <3>2, <3>3, <4>2
    <3>5. ~(1 < r)
      <4>1. 1 < r => 1 \in 1..(r - 1)
        OBVIOUS
      <4>. QED
        BY <2>3, <3>4, <4>1 DEF Within
    <3>6. r = 1
      BY <3>5
    <3>. QED
      BY <2>2, <2>3, <3>6
  <2>. QED
    BY <2>4, <2>5
<1>. DEFINE Good == {j \in 0..n : tokens[off[n - j] + 1] = [i \in 1..j |-> words[(n - j) + i]]}
<1>8. 0 \in Good
  <2>1. [i \in 1..0 |-> words[(n - 0) + i]] = <<>>
    OBVIOUS
  <2>2. n - 0 = n /\ 0 \in 0..n
    OBVIOUS
  <2>. QED
    BY <1>6, <2>1, <2>2
<1>9. ASSUME NEW j \in 1..n, j - 1 \in Good PROVE j \in Good
  <2>1. PICK m \in 1..n : m = (n - j) + 1 /\ m - 1 = n - j /\ n - (j - 1) = m
    <3>1. (n - j) + 1 \in 1..n /\ ((n - j) + 1) - 1 = n - j /\ n - (j - 1) = (n - j) + 1
      OBVIOUS
    <3>. QED
      BY <3>1
  <2>2. PICK p \in Nat : p = j - 1 /\ j = p + 1
    OBVIOUS
  <2>3. PICK rest : rest = tokens[off[m] + 1] /\ rest = [i \in 1..p |-> words[m + i]]
    BY <1>9, <2>1, <2>2
  <2>4. rest \in Seq(Seq(S)) /\ Len(rest) = p
    <3>1. \A i \in 1..p : m + i \in 1..n
      BY <2>1, <2>2
    <3>2. \A i \in 1..p : words[m + i] \in Seq(S)
      BY <1>4, <3>1
    <3>. QED
      BY <2>3, <3>2
  <2>5. PICK t : t = tokens[off[m - 1] + 1] /\ t = <<words[m]>> \o rest
    BY <1>5, <2>3
  <2>6. /\ t \in Seq(Seq(S)) /\ DOMAIN t = 1..(p + 1)
        /\ \A i \in 1..(p + 1) : t[i] = IF i = 1 THEN words[m] ELSE rest[i - 1]
    <3>1. words[m] \in Seq(S)
      BY <1>4
    <3>. QED
      BY <2>4, <2>5, <3>1, TokenInFront
  <2>7. \A i \in 1..(p + 1) : t[i] = words[(n - j) + i]
    <3>1. ASSUME NEW i \in 1..(p + 1) PROVE t[i] = words[(n - j) + i]
      <4>1. CASE i = 1
        <5>1. (n - j) + i = m
          BY <2>1, <4>1
        <5>. QED
          BY <2>6, <4>1, <5>1
      <4>2. CASE i # 1
        <5>1. i - 1 \in 1..p /\ m + (i - 1) = (n - j) + i
          BY <2>1, <4>2
        <5>2. t[i] = rest[i - 1]
          BY <2>6, <4>2
        <5>3. rest[i - 1] = words[m + (i - 1)]
          BY <2>3, <5>1
        <5>. QED
          BY <5>1, <5>2, <5>3
      <4>. QED
        BY <4>1, <4>2
    <3>. QED
      BY <3>1
  <2>8. t = [i \in 1..(p + 1) |-> t[i]]
    BY <2>6
  <2>9. t = [i \in 1..j |-> words[(n - j) + i]]
    BY <2>2, <2>7, <2>8
  <2>10. tokens[off[n - j] + 1] = t
    BY <2>1, <2>5
  <2>. QED
    BY <2>9, <2>10
<1>10. tokens[off[n - n] + 1] = [i \in 1..n |-> words[(n - n) + i]]
  <2>1. \A j \in 0..n : j \in Good
    <3>. HIDE DEF Good
    <3>. QED
      BY <1>8, <1>9, UpTo
  <2>2. n \in 0..n
    OBVIOUS
  <2>. QED
    BY <2>1, <2>2
<1>11. words = [i \in 1..n |-> words[(n - n) + i]]
  <2>1. words = [i \in 1..n |-> words[i]]
    BY <1>0, <1>4
  <2>2. \A i \in 1..n : (n - n) + i = i
    OBVIOUS
  <2>. QED
    BY <2>1, <2>2
<1>12. n - n = 0
  OBVIOUS
<1>. QED
  BY <1>1, <1>3, <1>7, <1>10, <1>11, <1>12

-----------------------------------------------------------------------------
(* The decimal numbers of bytes, of one to three digits.                   *)
DigitChars == {Util!Upper[d + 1] : d \in 0..15}

Shown(w, n) ==
  \/ /\ n <= 9 /\ Len(w) = 1 /\ w[1] = Util!Upper[(n % 10) + 1]
  \/ /\ n > 9 /\ n <= 99 /\ Len(w) = 2
     /\ w[1] = Util!Upper[((n \div 10) % 10) + 1] /\ w[2] = Util!Upper[(n % 10) + 1]
  \/ /\ n > 99 /\ Len(w) = 3 /\ w[1] = Util!Upper[n \div 100 + 1]
     /\ w[2] = Util!Upper[((n \div 10) % 10) + 1] /\ w[3] = Util!Upper[(n % 10) + 1]

LEMMA DecimalDigits ==
  \A n \in 0..255 : /\ n % 10 \in 0..9 /\ (n \div 10) % 10 \in 0..9 /\ n \div 100 \in 0..2
                    /\ n = 100 * (n \div 100) + 10 * ((n \div 10) % 10) + (n % 10)
OBVIOUS

LEMMA DigitsJoined ==
  ASSUME NEW S, NEW a \in S, NEW b \in S, NEW c \in S
  PROVE  <<b>> \o <<c>> = <<b, c>> /\ <<a, b>> \o <<c>> = <<a, b, c>>
<1>1. PICK u \in Seq(S), v \in Seq(S) : /\ u = <<b>> /\ Len(u) = 1 /\ u[1] = b
                                        /\ v = <<c>> /\ Len(v) = 1 /\ v[1] = c
  <2>1. \A x \in S : <<x>> \in Seq(S) /\ Len(<<x>>) = 1 /\ <<x>>[1] = x
    OBVIOUS
  <2>. QED
    BY <2>1
<1>2. PICK w \in Seq(S) : w = <<a, b>> /\ Len(w) = 2 /\ w[1] = a /\ w[2] = b
  <2>1. <<a, b>> \in Seq(S) /\ Len(<<a, b>>) = 2 /\ <<a, b>>[1] = a /\ <<a, b>>[2] = b
    OBVIOUS
  <2>. QED
    BY <2>1
<1>3. u \o v = <<b, c>>
  <2>1. PICK t : t = u \o v
    OBVIOUS
  <2>2. t \in Seq(S) /\ Len(t) = Len(u) + Len(v) /\ (\A k \in 1..Len(u) : t[k] = u[k])
        /\ \A k \in 1..Len(v) : t[Len(u) + k] = v[k]
    BY <2>1, Joined
  <2>3. Len(t) = 2 /\ t[1] = b /\ t[2] = c
    <3>1. 1 \in 1..Len(u) /\ 1 \in 1..Len(v) /\ Len(u) + 1 = 2
      BY <1>1
    <3>2. t[1] = u[1] /\ t[Len(u) + 1] = v[1]
      BY <2>2, <3>1
    <3>. QED
      BY <1>1, <2>2, <3>1, <3>2
  <2>4. <<b, c>> \in Seq(S) /\ Len(<<b, c>>) = 2 /\ \A i \in 1..2 : <<b, c>>[i] = t[i]
    BY <2>3
  <2>5. t = <<b, c>>
    BY <2>2, <2>3, <2>4, SameElements
  <2>. QED
    BY <2>1, <2>5
<1>4. w \o v = <<a, b, c>>
  <2>1. PICK t : t = w \o v
    OBVIOUS
  <2>2. t \in Seq(S) /\ Len(t) = Len(w) + Len(v) /\ (\A k \in 1..Len(w) : t[k] = w[k])
        /\ \A k \in 1..Len(v) : t[Len(w) + k] = v[k]
    BY <2>1, Joined
  <2>3. Len(t) = 3 /\ t[1] = a /\ t[2] = b /\ t[3] = c
    BY <1>1, <1>2, <2>2
  <2>4. <<a, b, c>> \in Seq(S) /\ Len(<<a, b, c>>) = 3 /\ \A i \in 1..3 : <<a, b, c>>[i] = t[i]
    BY <2>3
  <2>5. t = <<a, b, c>>
    BY <2>2, <2>3, <2>4, SameElements
  <2>. QED
    BY <2>1, <2>5
<1>. QED
  BY <1>1, <1>2, <1>3, <1>4

LEMMA NothingJoined == \A x : <<>> \o <<x>> = <<x>> /\ <<>> \o <<>> = <<>>
OBVIOUS

LEMMA DecimalIs ==
  ASSUME NEW n \in 0..255
  PROVE  Util!Decimal(n) \in Seq(DigitChars) /\ Shown(Util!Decimal(n), n)
<1>1. PICK a, b, c \in 0..15 : a = n \div 100 /\ b = (n \div 10) % 10 /\ c = n % 10
  BY DecimalDigits
<1>. DEFINE U(d) == Util!Upper[d + 1]
            digits == ((IF n > 99 THEN <<n \div 100>> ELSE <<>>)
                        \o (IF n > 9 THEN <<(n \div 10) % 10>> ELSE <<>>)) \o <<n % 10>>
<1>2. \A d \in 0..15 : U(d) \in DigitChars
  BY DEF DigitChars
<1>3. Util!Decimal(n) = [i \in DOMAIN digits |-> Util!Upper[digits[i] + 1]]
  BY Zenon DEF Util!Decimal
<1>4. CASE n <= 9
  <2>1. digits = <<c>>
    <3>1. ~(n > 99) /\ ~(n > 9)
      BY <1>4
    <3>2. (<<>> \o <<>>) \o <<c>> = <<c>>
      BY NothingJoined, Zenon
    <3>. QED
      BY <1>1, <3>1, <3>2
  <2>2. [i \in DOMAIN <<c>> |-> Util!Upper[<<c>>[i] + 1]] = <<Util!Upper[c + 1]>>
    OBVIOUS
  <2>3. Util!Decimal(n) = <<Util!Upper[c + 1]>>
    <3>. HIDE DEF digits
    <3>. QED
      BY <1>3, <2>1, <2>2
  <2>4. PICK w : w = <<Util!Upper[c + 1]>>
    OBVIOUS
  <2>5. w \in Seq(DigitChars) /\ Len(w) = 1 /\ w[1] = Util!Upper[c + 1]
    BY <1>2, <2>4
  <2>. QED
    BY <1>1, <1>4, <2>3, <2>4, <2>5 DEF Shown
<1>5. CASE n > 9 /\ n <= 99
  <2>1. digits = <<b, c>>
    <3>1. ~(n > 99)
      BY <1>5
    <3>2. (<<>> \o <<b>>) \o <<c>> = <<b, c>>
      BY NothingJoined, DigitsJoined
    <3>. QED
      BY <1>1, <1>5, <3>1, <3>2
  <2>2. [i \in DOMAIN <<b, c>> |-> Util!Upper[<<b, c>>[i] + 1]] = <<Util!Upper[b + 1], Util!Upper[c + 1]>>
    OBVIOUS
  <2>3. Util!Decimal(n) = <<Util!Upper[b + 1], Util!Upper[c + 1]>>
    <3>. HIDE DEF digits
    <3>. QED
      BY <1>3, <2>1, <2>2
  <2>4. PICK w : w = <<Util!Upper[b + 1], Util!Upper[c + 1]>>
    OBVIOUS
  <2>5. w \in Seq(DigitChars) /\ Len(w) = 2 /\ w[1] = Util!Upper[b + 1] /\ w[2] = Util!Upper[c + 1]
    BY <1>2, <2>4
  <2>. QED
    BY <1>1, <1>5, <2>3, <2>4, <2>5 DEF Shown
<1>6. CASE n > 99
  <2>1. digits = <<a, b, c>>
    <3>1. n > 9
      BY <1>6
    <3>2. (<<a>> \o <<b>>) \o <<c>> = <<a, b, c>>
      <4>1. <<a>> \o <<b>> = <<a, b>>
        BY DigitsJoined
      <4>2. <<a, b>> \o <<c>> = <<a, b, c>>
        BY DigitsJoined
      <4>. QED
        BY <4>1, <4>2, Zenon
    <3>. QED
      BY <1>1, <1>6, <3>1, <3>2
  <2>2. [i \in DOMAIN <<a, b, c>> |-> Util!Upper[<<a, b, c>>[i] + 1]]
          = <<Util!Upper[a + 1], Util!Upper[b + 1], Util!Upper[c + 1]>>
    OBVIOUS
  <2>3. Util!Decimal(n) = <<Util!Upper[a + 1], Util!Upper[b + 1], Util!Upper[c + 1]>>
    <3>. HIDE DEF digits
    <3>. QED
      BY <1>3, <2>1, <2>2
  <2>4. PICK w : w = <<Util!Upper[a + 1], Util!Upper[b + 1], Util!Upper[c + 1]>>
    OBVIOUS
  <2>5. /\ w \in Seq(DigitChars) /\ Len(w) = 3
        /\ w[1] = Util!Upper[a + 1] /\ w[2] = Util!Upper[b + 1] /\ w[3] = Util!Upper[c + 1]
    BY <1>2, <2>4
  <2>. QED
    BY <1>1, <1>6, <2>3, <2>4, <2>5 DEF Shown
<1>. QED
  BY <1>4, <1>5, <1>6

LEMMA DecimalsDiffer ==
  ASSUME NEW n \in 0..255, NEW m \in 0..255, NEW w, Shown(w, n), Shown(w, m)
  PROVE  n = m
<1>1. \A d, e \in 0..9 : Util!Upper[d + 1] = Util!Upper[e + 1] => d = e
  <2>1. \A d \in 0..9 : d \in 0..15
    OBVIOUS
  <2>. QED
    BY <2>1, DigitsDiffer
<1>2. PICK a \in 0..2, b \in 0..9, c \in 0..9 :
        a = n \div 100 /\ b = (n \div 10) % 10 /\ c = n % 10 /\ n = 100 * a + 10 * b + c
  BY DecimalDigits
<1>3. PICK x \in 0..2, y \in 0..9, z \in 0..9 :
        x = m \div 100 /\ y = (m \div 10) % 10 /\ z = m % 10 /\ m = 100 * x + 10 * y + z
  BY DecimalDigits
<1>4. CASE Len(w) = 1
  <2>1. c = z /\ n <= 9 /\ m <= 9
    BY <1>1, <1>2, <1>3, <1>4 DEF Shown
  <2>2. a = 0 /\ b = 0 /\ x = 0 /\ y = 0
    BY <1>2, <1>3, <2>1
  <2>. QED
    BY <1>2, <1>3, <2>1, <2>2
<1>5. CASE Len(w) = 2
  <2>1. b = y /\ c = z /\ n <= 99 /\ m <= 99
    BY <1>1, <1>2, <1>3, <1>5 DEF Shown
  <2>2. a = 0 /\ x = 0
    BY <1>2, <1>3, <2>1
  <2>. QED
    BY <1>2, <1>3, <2>1, <2>2
<1>6. CASE Len(w) = 3
  <2>1. b = y /\ c = z /\ Util!Upper[a + 1] = Util!Upper[x + 1]
    BY <1>1, <1>2, <1>3, <1>6 DEF Shown
  <2>2. a = x
    BY <1>1, <2>1
  <2>. QED
    BY <1>2, <1>3, <2>1, <2>2
<1>. QED
  BY <1>4, <1>5, <1>6 DEF Shown

(* The text of an ID: its bytes in decimal, a blank behind each.           *)
LEMMA IdWords ==
  ASSUME NEW g \in [1..16 -> 0..255]
  PROVE  Util!Split(Util!UIDToString(g), {" "}, 0) = [i \in 1..16 |-> Util!Decimal(g[i])]
<1>1. PICK words : words = [i \in 1..16 |-> Util!Decimal(g[i])]
  OBVIOUS
<1>2. PICK S : S = DigitChars \cup {" "}
  OBVIOUS
<1>3. ASSUME NEW i \in 1..16
      PROVE  words[i] \in Seq(S) /\ Len(words[i]) > 0 /\ \A k \in 1..Len(words[i]) : words[i][k] # " "
  <2>1. PICK w \in Seq(DigitChars) : w = words[i] /\ Len(w) > 0
    <3>1. \A n \in 0..255 : Util!Decimal(n) \in Seq(DigitChars) /\ Shown(Util!Decimal(n), n)
      BY DecimalIs
    <3>2. words[i] \in Seq(DigitChars) /\ Shown(words[i], g[i])
      BY <1>1, <3>1
    <3>. QED
      BY <3>2 DEF Shown
  <2>2. \A x \in DigitChars : x # " " /\ x \in S
    BY <1>2, DigitsDiffer DEF DigitChars
  <2>3. \A k \in 1..Len(w) : w[k] \in DigitChars
    OBVIOUS
  <2>4. w \in Seq(S)
    <3>1. PICK l \in Nat : l = Len(w) /\ w \in [1..l -> DigitChars]
      BY LenProperties
    <3>2. w \in [1..l -> S]
      BY <2>2, <3>1
    <3>. QED
      BY <3>2, SeqDef
  <2>. QED
    BY <2>1, <2>2, <2>3, <2>4
<1>4. words \in [1..16 -> Seq(S)]
  BY <1>1, <1>3
<1>5. words \in Seq(Seq(S)) /\ Len(words) = 16
  BY <1>4, GuidIsText
<1>6. WordsOf(words, S, " ")
  BY <1>2, <1>3, <1>5 DEF WordsOf
<1>7. BlankBehind(words, " ") = [i \in DOMAIN g |-> Util!Decimal(g[i]) \o <<" ">>]
  <2>1. DOMAIN g = 1..16
    OBVIOUS
  <2>. QED
    BY <1>1, <1>5, <2>1 DEF BlankBehind
<1>8. Util!UIDToString(g) = Util!FlattenSeq(BlankBehind(words, " "))
  BY <1>7 DEF Util!UIDToString
<1>. QED
  BY <1>1, <1>6, <1>8, WordsSplit

LEMMA IdTextsDiffer ==
  ASSUME NEW g \in [1..16 -> 0..255], NEW h \in [1..16 -> 0..255],
         Util!UIDToString(g) = Util!UIDToString(h)
  PROVE  g = h
<1>1. [i \in 1..16 |-> Util!Decimal(g[i])] = [i \in 1..16 |-> Util!Decimal(h[i])]
  BY IdWords
<1>2. \A n \in 0..255 : Shown(Util!Decimal(n), n)
  BY DecimalIs
<1>3. ASSUME NEW i \in 1..16 PROVE g[i] = h[i]
  <2>1. PICK n \in 0..255, m \in 0..255 : n = g[i] /\ m = h[i]
    OBVIOUS
  <2>2. Util!Decimal(n) = Util!Decimal(m)
    BY <1>1, <2>1
  <2>3. Shown(Util!Decimal(n), n) /\ Shown(Util!Decimal(n), m)
    BY <1>2, <2>2
  <2>. QED
    BY <2>1, <2>3, DecimalsDiffer
<1>. QED
  BY <1>3

LEMMA OneIsLess ==
  ASSUME NEW n \in Nat, NEW g \in [1..n -> Nat], NEW h \in [1..n -> Nat], g # h
  PROVE  Util!Less(g, h) <=> ~Util!Less(h, g)
<1>. DEFINE T == {i \in 1..n : g[i] # h[i]}
<1>1. T \in SUBSET Nat /\ T # {}
  <2>1. \E i \in 1..n : g[i] # h[i]
    OBVIOUS
  <2>2. T \in SUBSET Nat
    OBVIOUS
  <2>3. PICK i \in 1..n : g[i] # h[i]
    BY <2>1
  <2>4. i \in T
    BY <2>3
  <2>. QED
    BY <2>2, <2>4
<1>2. PICK i \in T : \A k \in T : i <= k
  <2>. HIDE DEF T
  <2>. QED
    BY <1>1, SmallestOf
<1>3. \A j \in 1..(i - 1) : g[j] = h[j]
  <2>1. \A j \in 1..(i - 1) : j \in 1..n /\ ~(i <= j)
    OBVIOUS
  <2>. QED
    BY <1>2, <2>1
<1>4. ASSUME NEW a \in [1..n -> Nat], NEW b \in [1..n -> Nat], \A j \in 1..(i - 1) : a[j] = b[j],
             a[i] < b[i], \A k \in 1..n : a[k] # b[k] => i <= k
      PROVE  Util!Less(a, b) /\ ~Util!Less(b, a)
  <2>1. Util!Less(a, b)
    BY <1>4 DEF Util!Less
  <2>2. ASSUME NEW k \in 1..n, b[k] < a[k], \A j \in 1..(k - 1) : b[j] = a[j] PROVE FALSE
    <3>1. i <= k
      BY <1>4, <2>2
    <3>2. i # k
      BY <1>4, <2>2
    <3>3. i \in 1..(k - 1)
      BY <3>1, <3>2
    <3>. QED
      BY <1>4, <2>2, <3>3
  <2>. QED
    BY <2>1, <2>2 DEF Util!Less
<1>5. \A k \in 1..n : g[k] # h[k] => i <= k
  BY <1>2
<1>6. i \in 1..n /\ g[i] # h[i] /\ g[i] \in Nat /\ h[i] \in Nat
  BY <1>2
<1>7. CASE g[i] < h[i]
  <2>1. Util!Less(g, h) /\ ~Util!Less(h, g)
    BY <1>3, <1>4, <1>5, <1>7
  <2>. QED
    BY <2>1
<1>8. CASE h[i] < g[i]
  <2>1. Util!Less(h, g) /\ ~Util!Less(g, h)
    BY <1>3, <1>4, <1>5, <1>8
  <2>. QED
    BY <2>1
<1>. QED
  BY <1>6, <1>7, <1>8

LEMMA NoneIsLess ==
  ASSUME NEW n \in Nat, NEW g \in [1..n -> Nat]
  PROVE  ~Util!Less(g, g)
BY DEF Util!Less

(* UniqueID, whatever the IDs: SetUID makes the memory of a GUID from its  *)
(* text, IDs differ in their texts, and one of two IDs is less.            *)
THEOREM AnyIdsAgree ==
  ASSUME NEW g \in [1..16 -> 0..255], NEW h \in [1..16 -> 0..255]
  PROVE  Util!IdsAgree(g, h)
<1>1. PICK id \in [1..16 -> 0..255], other \in [1..16 -> 0..255] :
        id = Util!Memory(g) /\ other = Util!Memory(h)
  <2>1. \A B : \A f \in [1..16 -> B] : Util!Memory(f) \in [1..16 -> B]
    BY MemoryIs
  <2>2. Util!Memory(g) \in [1..16 -> 0..255] /\ Util!Memory(h) \in [1..16 -> 0..255]
    BY <2>1, Zenon
  <2>. QED
    BY <2>2
<1>2. Util!SetUID(other, Util!Text(g, Util!Upper), 0) = id
  BY <1>1, IdRead, Zenon
<1>3. Util!SetUID(other, Util!Text(g, Util!Lower), 255) = id
  BY <1>1, IdRead, Zenon
<1>4. Util!SetUID(other, Tail(Util!Text(g, Util!Upper)), 0) = other
  <2>0. PICK S : S = {Util!Upper[d + 1] : d \in 0..15}
    OBVIOUS
  <2>1. PICK t \in Seq(S) : t = Util!Text(g, Util!Upper) /\ Len(t) = 32
    BY <2>0, TextDigits
  <2>2. PICK n \in Nat : Len(t) = n /\ n = 32
    BY <2>1
  <2>. QED
    BY <2>1, <2>2, ShortIdIgnored, Zenon
<1>5. Util!Split(Util!UIDToString(id), {" "}, 0) = [i \in 1..16 |-> Util!Decimal(id[i])]
  BY IdWords
<1>6. Util!UIDToString(id) = Util!UIDToString(other) <=> id = other
  BY IdTextsDiffer
<1>7. /\ id # other <=> Util!Less(id, other) # Util!Less(other, id)
      /\ ~Util!Less(id, id)
  <2>0. id \in [1..16 -> Nat] /\ other \in [1..16 -> Nat] /\ 16 \in Nat
    <3>1. 0..255 \subseteq Nat /\ 16 \in Nat
      OBVIOUS
    <3>2. \A A : \A f \in [1..16 -> A] : A \subseteq Nat => f \in [1..16 -> Nat]
      OBVIOUS
    <3>. QED
      BY <3>1, <3>2
  <2>1. PICK n \in Nat : n = 16 /\ id \in [1..n -> Nat] /\ other \in [1..n -> Nat]
    BY <2>0
  <2>2. ~Util!Less(id, id)
    BY <2>1, NoneIsLess
  <2>3. id # other => (Util!Less(id, other) <=> ~Util!Less(other, id))
    BY <2>1, OneIsLess
  <2>4. Util!Less(id, other) \in BOOLEAN /\ Util!Less(other, id) \in BOOLEAN
    BY DEF Util!Less
  <2>. QED
    BY <2>2, <2>3, <2>4
<1>. QED
  BY <1>1, <1>2, <1>3, <1>4, <1>5, <1>6, <1>7 DEF Util!IdsAgree

-----------------------------------------------------------------------------
(* What the scan of a list finds at a position.                            *)
ScanStep(scan, pat, c, k) ==
  IF k > Len(pat) \/ pat[k] = "]" THEN 0
  ELSE IF pat[k] = c THEN k
  ELSE IF k < Len(pat) /\ pat[k + 1] = "-"
       THEN IF k + 2 > Len(pat) THEN 0
            ELSE IF Util!Between(pat[k], c, pat[k + 2]) THEN k ELSE scan[k + 3]
       ELSE scan[k + 1]

ScanOf(scan, pat, c, start) ==
  \A k \in start..(Len(pat) + 1) :
    scan[k] = ScanStep(scan, pat, c, k) /\ scan[k] \in {0} \cup (start..Len(pat))

LEMMA ListedSteps ==
  ASSUME NEW S, NEW pat \in Seq(S), NEW c, NEW start \in 1..(Len(pat) + 1)
  PROVE  \E scan : ScanOf(scan, pat, c, start) /\ Util!Listed(pat, c, start) = scan[start]
<1>0. PICK n \in Nat : n = Len(pat)
  OBVIOUS
<1>. DEFINE D == start..(Len(pat) + 1)
            R == {0} \cup (start..Len(pat))
            rank == [k \in D |-> (n + 1) - k]
            step == [k \in D |-> [g \in [D -> R] |-> ScanStep(g, pat, c, k)]]
            Is(f) == f = [k \in D |-> ScanStep(f, pat, c, k)]
<1>1. rank \in [D -> 0..(n + 1)]
  <2>1. \A k \in D : (n + 1) - k \in 0..(n + 1)
    BY <1>0
  <2>. QED
    BY <2>1
<1>2. ASSUME NEW k \in D, ~(k > Len(pat))
      PROVE  /\ k \in R /\ k + 1 \in D /\ rank[k + 1] < rank[k]
             /\ ~(k + 2 > Len(pat)) => k + 3 \in D /\ rank[k + 3] < rank[k]
  <2>1. k \in start..n /\ k + 1 \in start..(n + 1) /\ (n + 1) - (k + 1) < (n + 1) - k
    BY <1>0, <1>2
  <2>2. ASSUME ~(k + 2 > n) PROVE k + 3 \in start..(n + 1) /\ (n + 1) - (k + 3) < (n + 1) - k
    BY <1>0, <1>2, <2>2
  <2>. QED
    BY <1>0, <2>1, <2>2
<1>3. ASSUME NEW k \in D, NEW g \in [D -> R] PROVE ScanStep(g, pat, c, k) \in R
  <2>1. CASE k > Len(pat)
    BY <2>1 DEF ScanStep
  <2>2. CASE ~(k > Len(pat))
    <3>1. k \in R /\ 0 \in R /\ g[k + 1] \in R
      BY <1>2, <2>2
    <3>2. ~(k + 2 > Len(pat)) => g[k + 3] \in R
      BY <1>2, <2>2
    <3>. HIDE DEF D, R
    <3>. QED
      BY <2>2, <3>1, <3>2 DEF ScanStep
  <2>. QED
    BY <2>1, <2>2
<1>4. step \in [D -> [[D -> R] -> R]]
  <2>. HIDE DEF D, R
  <2>. QED
    BY <1>3
<1>5. ASSUME NEW k \in D, NEW g \in [D -> R], NEW h \in [D -> R],
             \A y \in D : rank[y] < rank[k] => g[y] = h[y]
      PROVE  ScanStep(g, pat, c, k) = ScanStep(h, pat, c, k)
  <2>. HIDE DEF D, R, rank
  <2>1. CASE k > Len(pat)
    BY <2>1 DEF ScanStep
  <2>2. CASE ~(k > Len(pat))
    <3>1. g[k + 1] = h[k + 1] /\ (~(k + 2 > Len(pat)) => g[k + 3] = h[k + 3])
      BY <1>2, <1>5, <2>2
    <3>. QED
      BY <2>2, <3>1 DEF ScanStep
  <2>. QED
    BY <2>1, <2>2
<1>6. PICK g \in [D -> R] : Solves(g, D, step)
  <2>1. AsksLower(D, R, rank, step)
    <3>1. \A k \in D : \A f \in [D -> R] : step[k][f] = ScanStep(f, pat, c, k)
      <4>. HIDE DEF D, R
      <4>. QED
        OBVIOUS
    <3>. HIDE DEF D, R, rank, step
    <3>. QED
      BY <1>5, <3>1 DEF AsksLower
  <2>2. PICK base \in R : base = 0
    OBVIOUS
  <2>3. PICK m \in Nat : m = n + 1
    OBVIOUS
  <2>4. rank \in [D -> 0..m]
    <3>. HIDE DEF rank, D
    <3>. QED
      BY <1>1, <2>3
  <2>. HIDE DEF D, R, rank, step
  <2>. QED
    BY <1>4, <2>1, <2>2, <2>4, RecursionExists
<1>7. Is(g)
  <2>1. g = [k \in D |-> g[k]]
    OBVIOUS
  <2>2. \A k \in D : g[k] = ScanStep(g, pat, c, k)
    <3>. HIDE DEF D, R
    <3>. QED
      BY <1>6 DEF Solves
  <2>. HIDE DEF D, R
  <2>. QED
    BY <2>1, <2>2, Zenon
<1>8. Util!Listed(pat, c, start) = (CHOOSE f : Is(f))[start]
  BY Zenon DEF Util!Listed, ScanStep
<1>9. PICK f : Is(f) /\ f = CHOOSE u : Is(u)
  <2>. HIDE DEF Is
  <2>. QED
    BY <1>7, Zenon
<1>10. \A k \in D : f[k] = ScanStep(f, pat, c, k)
  <2>. HIDE DEF D
  <2>. QED
    BY <1>9
<1>11. \A k \in D : f[k] \in R
  <2>. DEFINE Good == {j \in 0..(n + 1) : \A k \in D : (n + 1) - k <= j => f[k] \in R}
  <2>1. 0 \in Good
    <3>1. \A k \in D : (n + 1) - k <= 0 => k > Len(pat)
      BY <1>0
    <3>2. \A k \in D : k > Len(pat) => f[k] = 0
      <4>. HIDE DEF D
      <4>. QED
        BY <1>10 DEF ScanStep
    <3>. QED
      BY <3>1, <3>2
  <2>2. ASSUME NEW j \in 1..(n + 1), j - 1 \in Good PROVE j \in Good
    <3>1. ASSUME NEW k \in D, (n + 1) - k <= j PROVE f[k] \in R
      <4>1. CASE k > Len(pat)
        <5>1. f[k] = 0
          BY <1>10, <4>1 DEF ScanStep
        <5>. QED
          BY <5>1
      <4>2. CASE ~(k > Len(pat))
        <5>1. k \in R /\ k + 1 \in D /\ 0 \in R
          BY <1>2, <4>2
        <5>2. f[k + 1] \in R
          <6>1. (n + 1) - (k + 1) <= j - 1
            BY <1>0, <3>1
          <6>. QED
            BY <2>2, <5>1, <6>1
        <5>3. ASSUME ~(k + 2 > Len(pat)) PROVE f[k + 3] \in R
          <6>1. k + 3 \in D
            BY <1>2, <4>2, <5>3
          <6>2. (n + 1) - (k + 3) <= j - 1
            BY <1>0, <3>1
          <6>. QED
            BY <2>2, <6>1, <6>2
        <5>4. f[k] = ScanStep(f, pat, c, k)
          BY <1>10
        <5>. HIDE DEF R
        <5>. QED
          BY <4>2, <5>1, <5>2, <5>3, <5>4 DEF ScanStep
      <4>. QED
        BY <4>1, <4>2
    <3>2. j \in 0..(n + 1)
      OBVIOUS
    <3>. QED
      BY <3>1, <3>2
  <2>3. \A j \in 0..(n + 1) : j \in Good
    <3>1. n + 1 \in Nat
      OBVIOUS
    <3>. HIDE DEF Good
    <3>. QED
      BY <2>1, <2>2, <3>1, UpTo
  <2>4. n + 1 \in 0..(n + 1) /\ \A k \in D : (n + 1) - k <= n + 1
    BY <1>0
  <2>. QED
    BY <2>3, <2>4
<1>12. ScanOf(f, pat, c, start)
  BY <1>10, <1>11 DEF ScanOf
<1>. HIDE DEF Is
<1>. QED
  BY <1>8, <1>9, <1>12

(* Behind a list: the "]" at or behind the hit, or the end of the pattern. *)
LEMMA BehindFound ==
  ASSUME NEW S, NEW pat \in Seq(S), NEW hit \in 1..Len(pat)
  PROVE  \E n \in hit..Len(pat) :
           /\ Util!BehindList(pat, hit) = n + 1 /\ Without(pat, {"]"}, hit, n - 1)
           /\ n < Len(pat) => pat[n] = "]"
<1>0. PICK l \in Nat : l = Len(pat)
  OBVIOUS
<1>1. hit \in 1..(l + 1) /\ hit \in 1..l
  BY <1>0
<1>2. PICK k \in hit..(l + 1) :
         /\ k = Util!FirstOf(pat, {"]"}, hit) /\ (k <= l => pat[k] \in {"]"})
         /\ Without(pat, {"]"}, hit, k - 1)
  BY <1>0, <1>1, FirstFound
<1>3. {k, l} \in SUBSET Nat /\ {k, l} # {}
  BY <1>1
<1>4. PICK m \in {k, l} : m = Util!Min({k, l}) /\ \A x \in {k, l} : m <= x
  <2>1. Min({k, l}) \in {k, l} /\ \A x \in {k, l} : Min({k, l}) <= x
    BY <1>3, LeastOf
  <2>2. Util!Min({k, l}) = Min({k, l})
    BY DEF Min, Util!Min
  <2>. QED
    BY <2>1, <2>2
<1>5. m \in hit..l /\ m <= k /\ m <= l
  BY <1>1, <1>4
<1>6. Util!BehindList(pat, hit) = m + 1
  BY <1>0, <1>2, <1>4 DEF Util!BehindList
<1>7. Without(pat, {"]"}, hit, m - 1)
  <2>1. \A i \in hit..(m - 1) : i \in hit..(k - 1)
    BY <1>1, <1>5
  <2>. QED
    BY <1>2, <2>1 DEF Without
<1>8. m < l => pat[m] = "]"
  <2>1. m < l => m = k /\ k <= l
    BY <1>1, <1>4, <1>5
  <2>. QED
    BY <1>2, <2>1
<1>. QED
  BY <1>0, <1>5, <1>6, <1>7, <1>8

(* What the loop of Match finds at a position of the pattern.              *)
Turn(match, str, pat, p, s) ==
  IF p > Len(pat) THEN s > Len(str)
  ELSE IF pat[p] = "*"
       THEN p = Len(pat) \/ \E t \in Util!StarRests(s, Len(str)) : match[p + 1][t]
  ELSE /\ s <= Len(str)
       /\ \/ pat[p] = "?" /\ match[p + 1][s + 1]
          \/ /\ pat[p] = "[" /\ Util!Listed(pat, str[s], p + 1) # 0
             /\ match[Util!BehindList(pat, Util!Listed(pat, str[s], p + 1))][s + 1]
          \/ /\ pat[p] = "\\" /\ p < Len(pat) /\ pat[p + 1] = str[s]
             /\ match[p + 2][s + 1]
          \/ pat[p] \notin {"?", "[", "\\"} /\ pat[p] = str[s] /\ match[p + 1][s + 1]

IsMatch(match, str, pat) ==
  match = [p \in 1..(Len(pat) + 1) |->
            [s \in 1..(Len(str) + 1) |-> Turn(match, str, pat, p, s)]]

Looped(str, pat) == (CHOOSE match : IsMatch(match, str, pat))[1][1]

LEMMA MatchIs ==
  ASSUME NEW str, NEW pat
  PROVE  /\ Util!Match(str, pat, TRUE) = Looped(str, pat)
         /\ Util!Match(str, pat, FALSE) = Looped(Util!ToLowerCase(str), Util!ToLowerCase(pat))
<1>1. ASSUME NEW c
      PROVE  Util!Match(str, pat, c) = Looped(IF c THEN str ELSE Util!ToLowerCase(str),
                                                IF c THEN pat ELSE Util!ToLowerCase(pat))
  BY Zenon DEF Util!Match, Looped, IsMatch, Turn
<1>. QED
  BY <1>1

(* The loop is at most at the end of the pattern, and moves on.            *)
LEMMA TurnsMoveOn ==
  ASSUME NEW S, NEW str \in Seq(S), NEW T, NEW pat \in Seq(T),
         NEW p \in 1..(Len(pat) + 1), NEW s \in 1..(Len(str) + 1),
         NEW g, NEW h, \A q \in (p + 1)..(Len(pat) + 1) : g[q] = h[q]
  PROVE  Turn(g, str, pat, p, s) <=> Turn(h, str, pat, p, s)
<1>1. CASE p > Len(pat)
  BY <1>1 DEF Turn
<1>2. CASE ~(p > Len(pat))
  <2>0. PICK l \in Nat : l = Len(pat)
    OBVIOUS
  <2>1. g[p + 1] = h[p + 1] /\ (p < Len(pat) => g[p + 2] = h[p + 2])
    <3>1. p + 1 \in (p + 1)..(l + 1) /\ (p < l => p + 2 \in (p + 1)..(l + 1))
      BY <1>2, <2>0
    <3>. QED
      BY <2>0, <3>1
  <2>2. ASSUME s <= Len(str), pat[p] = "[", Util!Listed(pat, str[s], p + 1) # 0
        PROVE  g[Util!BehindList(pat, Util!Listed(pat, str[s], p + 1))] =
                 h[Util!BehindList(pat, Util!Listed(pat, str[s], p + 1))]
    <3>1. p + 1 \in 1..(l + 1)
      BY <1>2, <2>0
    <3>2. PICK scan : ScanOf(scan, pat, str[s], p + 1) /\ Util!Listed(pat, str[s], p + 1) = scan[p + 1]
      BY <2>0, <3>1, ListedSteps
    <3>3. PICK hit \in (p + 1)..l : hit = Util!Listed(pat, str[s], p + 1)
      <4>1. p + 1 \in (p + 1)..(l + 1)
        BY <3>1
      <4>. QED
        BY <2>0, <2>2, <3>2, <4>1 DEF ScanOf
    <3>4. hit \in 1..Len(pat)
      BY <2>0, <3>3
    <3>5. PICK n \in hit..Len(pat) : Util!BehindList(pat, hit) = n + 1
      BY <3>4, BehindFound
    <3>6. n + 1 \in (p + 1)..(Len(pat) + 1)
      BY <2>0, <3>3, <3>5
    <3>. QED
      BY <3>3, <3>5, <3>6
  <2>3. CASE pat[p] = "*"
    BY <1>2, <2>1, <2>3 DEF Turn
  <2>4. CASE pat[p] = "["
    BY <1>2, <2>2, <2>4 DEF Turn
  <2>5. CASE pat[p] = "\\"
    BY <1>2, <2>1, <2>5 DEF Turn
  <2>6. CASE pat[p] \notin {"*", "[", "\\"}
    BY <1>2, <2>1, <2>6 DEF Turn
  <2>. QED
    BY <2>3, <2>4, <2>5, <2>6
<1>. QED
  BY <1>1, <1>2

MatchOf(match, str, pat) ==
  \A p \in 1..(Len(pat) + 1) : \A s \in 1..(Len(str) + 1) :
    match[p][s] <=> Turn(match, str, pat, p, s)

LEMMA TurnIsBoolean ==
  ASSUME NEW S, NEW str \in Seq(S), NEW pat, NEW p, NEW s \in 1..(Len(str) + 1), NEW g
  PROVE  Turn(g, str, pat, p, s) \in BOOLEAN
<1>1. (s > Len(str)) \in BOOLEAN
  OBVIOUS
<1>2. CASE p > Len(pat)
  BY <1>1, <1>2 DEF Turn
<1>3. CASE ~(p > Len(pat)) /\ pat[p] = "*"
  BY <1>3 DEF Turn
<1>4. CASE ~(p > Len(pat)) /\ pat[p] # "*"
  BY <1>4 DEF Turn
<1>. QED
  BY <1>2, <1>3, <1>4

LEMMA MatchSteps ==
  ASSUME NEW S, NEW str \in Seq(S), NEW T, NEW pat \in Seq(T)
  PROVE  \E match : MatchOf(match, str, pat) /\ Util!Match(str, pat, TRUE) = match[1][1]
<1>0. PICK n \in Nat : n = Len(pat)
  OBVIOUS
<1>. DEFINE D == 1..(Len(pat) + 1)
            E == 1..(Len(str) + 1)
            R == [E -> BOOLEAN]
            rank == [p \in D |-> (n + 1) - p]
            Row(g, p) == [s \in E |-> Turn(g, str, pat, p, s)]
            step == [p \in D |-> [g \in [D -> R] |-> Row(g, p)]]
<1>1. PICK m \in Nat : m = n + 1 /\ rank \in [D -> 0..m]
  <2>1. \A p \in D : (n + 1) - p \in 0..(n + 1)
    BY <1>0
  <2>. QED
    BY <2>1
<1>2. \A g, p : Row(g, p) \in R
  <2>1. \A g, p : \A s \in E : Turn(g, str, pat, p, s) \in BOOLEAN
    BY TurnIsBoolean
  <2>. HIDE DEF E
  <2>. QED
    BY <2>1
<1>3. step \in [D -> [[D -> R] -> R]]
  <2>. HIDE DEF D, R, Row
  <2>. QED
    BY <1>2
<1>4. ASSUME NEW p \in D, NEW g \in [D -> R], NEW h \in [D -> R],
             \A y \in D : rank[y] < rank[p] => g[y] = h[y]
      PROVE  Row(g, p) = Row(h, p)
  <2>1. \A q \in (p + 1)..(n + 1) : q \in D /\ (n + 1) - q < (n + 1) - p
    BY <1>0
  <2>2. \A q \in (p + 1)..(Len(pat) + 1) : g[q] = h[q]
    BY <1>0, <1>4, <2>1
  <2>3. \A s \in E : Turn(g, str, pat, p, s) <=> Turn(h, str, pat, p, s)
    BY <2>2, TurnsMoveOn
  <2>4. \A f : \A s \in E : Turn(f, str, pat, p, s) \in BOOLEAN
    BY TurnIsBoolean
  <2>5. \A s \in E : Turn(g, str, pat, p, s) = Turn(h, str, pat, p, s)
    BY <2>3, <2>4
  <2>. HIDE DEF E
  <2>. QED
    BY <2>5
<1>5. PICK g \in [D -> R] : Solves(g, D, step)
  <2>1. AsksLower(D, R, rank, step)
    <3>1. \A p \in D : \A f \in [D -> R] : step[p][f] = Row(f, p)
      <4>. HIDE DEF D, R, Row
      <4>. QED
        OBVIOUS
    <3>. HIDE DEF D, R, rank, step, Row
    <3>. QED
      BY <1>4, <3>1 DEF AsksLower
  <2>2. PICK base \in R : TRUE
    BY <1>2
  <2>. HIDE DEF D, R, rank, step
  <2>. QED
    BY <1>1, <1>3, <2>1, <2>2, RecursionExists
<1>6. IsMatch(g, str, pat)
  <2>1. g = [p \in D |-> g[p]]
    OBVIOUS
  <2>2. \A p \in D : g[p] = Row(g, p)
    <3>. HIDE DEF D, R, Row
    <3>. QED
      BY <1>5 DEF Solves
  <2>3. g = [p \in D |-> Row(g, p)]
    <3>. HIDE DEF D, R, Row
    <3>. QED
      BY <2>1, <2>2, Zenon
  <2>. QED
    BY <2>3, Zenon DEF IsMatch
<1>7. PICK f : IsMatch(f, str, pat) /\ f = CHOOSE u : IsMatch(u, str, pat)
  BY <1>6, Zenon
<1>8. MatchOf(f, str, pat)
  <2>1. f = [p \in D |-> Row(f, p)]
    BY <1>7, Zenon DEF IsMatch
  <2>2. \A p \in D : f[p] = Row(f, p)
    <3>. HIDE DEF D, Row
    <3>. QED
      BY <2>1
  <2>3. \A p \in D : \A s \in E : f[p][s] = Turn(f, str, pat, p, s)
    BY <2>2, Zenon
  <2>. QED
    BY <2>3 DEF MatchOf
<1>. QED
  BY <1>7, <1>8, MatchIs DEF Looped

-----------------------------------------------------------------------------
(* The letters that mean nothing else in a pattern.                        *)
Plain == {"/", "A", "B", "a", "b", "c"}

LEMMA PlainLetters ==
  ASSUME NEW x \in Plain
  PROVE  /\ x \notin {"*", "?", "[", "]", "-", "\\"}
         /\ Util!Code(x) \in 1..9
<1>1. x \notin {"*", "?", "[", "]", "-", "\\"}
  BY DEF Plain
<1>2. \E i \in 1..9 : Util!Ascii[i] = x
  <2>1. /\ Util!Ascii[2] = "/" /\ Util!Ascii[3] = "A" /\ Util!Ascii[4] = "B"
        /\ Util!Ascii[7] = "a" /\ Util!Ascii[8] = "b" /\ Util!Ascii[9] = "c"
    BY DEF Util!Ascii
  <2>. QED
    BY <2>1 DEF Plain
<1>3. DOMAIN Util!Ascii = 1..9
  BY DEF Util!Ascii
<1>. QED
  BY <1>1, <1>2, <1>3 DEF Util!Code

(* The scan of a list ends at the "]" at e, and so does the jump behind    *)
(* it: there is none before.                                               *)
LEMMA BehindTheList ==
  ASSUME NEW S, NEW pat \in Seq(S), NEW e \in 1..Len(pat), pat[e] = "]",
         NEW hit \in 1..e, Without(pat, {"]"}, hit, e - 1)
  PROVE  Util!BehindList(pat, hit) = e + 1
<1>0. PICK l \in Nat : l = Len(pat)
  OBVIOUS
<1>1. hit \in 1..Len(pat)
  BY <1>0
<1>2. PICK n \in hit..l :
         /\ Util!BehindList(pat, hit) = n + 1 /\ Without(pat, {"]"}, hit, n - 1)
         /\ n < l => pat[n] = "]"
  BY <1>0, <1>1, BehindFound
<1>3. ~(n > e)
  <2>1. n > e => e \in hit..(n - 1)
    BY <1>0
  <2>. QED
    BY <1>2, <2>1 DEF Without
<1>4. ~(n < e)
  <2>1. n < e => n \in hit..(e - 1) /\ n < l
    BY <1>0
  <2>. QED
    BY <1>2, <2>1 DEF Without
<1>5. n = e
  BY <1>0, <1>3, <1>4
<1>. QED
  BY <1>2, <1>5

LEMMA ListHits ==
  ASSUME NEW S, NEW pat \in Seq(S), NEW c, NEW p \in 1..Len(pat), p + 3 \in 1..Len(pat),
         pat[p + 1] \in Plain, pat[p + 2] \in Plain, pat[p + 3] = "]"
  PROVE  /\ Util!Listed(pat, c, p + 1) # 0 <=> c \in {pat[p + 1], pat[p + 2]}
         /\ Util!Listed(pat, c, p + 1) # 0 =>
              Util!BehindList(pat, Util!Listed(pat, c, p + 1)) = p + 4
<1>0. PICK l \in Nat : l = Len(pat)
  OBVIOUS
<1>1. /\ p + 1 \in 1..(l + 1) /\ p + 1 <= l /\ p + 2 <= l /\ p + 3 <= l
      /\ p + 1 \in (p + 1)..(l + 1) /\ p + 2 \in (p + 1)..(l + 1) /\ p + 3 \in (p + 1)..(l + 1)
      /\ (p + 1) + 1 = p + 2 /\ (p + 2) + 1 = p + 3
  BY <1>0
<1>2. PICK scan : ScanOf(scan, pat, c, p + 1) /\ Util!Listed(pat, c, p + 1) = scan[p + 1]
  BY <1>0, <1>1, ListedSteps
<1>3. \A k \in (p + 1)..(l + 1) : scan[k] = ScanStep(scan, pat, c, k)
  BY <1>0, <1>2 DEF ScanOf
<1>4. scan[p + 3] = 0
  BY <1>0, <1>1, <1>3 DEF ScanStep
<1>5. scan[p + 2] = IF pat[p + 2] = c THEN p + 2 ELSE 0
  <2>1. pat[p + 2] # "]" /\ ~(p + 2 > l) /\ pat[p + 3] # "-"
    BY <1>1, PlainLetters
  <2>2. scan[p + 2] = ScanStep(scan, pat, c, p + 2)
    BY <1>1, <1>3
  <2>. QED
    BY <1>0, <1>1, <1>4, <2>1, <2>2 DEF ScanStep
<1>6. scan[p + 1] = IF pat[p + 1] = c THEN p + 1 ELSE scan[p + 2]
  <2>1. pat[p + 1] # "]" /\ ~(p + 1 > l) /\ pat[p + 2] # "-"
    BY <1>1, PlainLetters
  <2>2. scan[p + 1] = ScanStep(scan, pat, c, p + 1)
    BY <1>1, <1>3
  <2>. QED
    BY <1>0, <1>1, <2>1, <2>2 DEF ScanStep
<1>7. p + 1 # 0 /\ p + 2 # 0
  OBVIOUS
<1>8. ASSUME NEW hit \in {p + 1, p + 2} PROVE Util!BehindList(pat, hit) = p + 4
  <2>1. PICK e \in 1..Len(pat) : e = p + 3 /\ e + 1 = p + 4
    BY <1>0, <1>1
  <2>2. hit \in 1..e /\ \A i \in hit..(e - 1) : i \in {p + 1, p + 2}
    BY <2>1
  <2>3. Without(pat, {"]"}, hit, e - 1)
    BY <2>2, PlainLetters DEF Without
  <2>. QED
    BY <2>1, <2>2, <2>3, BehindTheList
<1>. QED
  BY <1>2, <1>5, <1>6, <1>7, <1>8

LEMMA BetweenItself ==
  ASSUME NEW x \in Plain, NEW y \in Plain
  PROVE  Util!Between(x, x, y)
<1>1. PICK a \in 1..9, b \in 1..9 : a = Util!Code(x) /\ b = Util!Code(y)
  BY PlainLetters
<1>2. a \in a..b \cup b..a
  OBVIOUS
<1>. QED
  BY <1>1, <1>2 DEF Util!Between

LEMMA RangeHits ==
  ASSUME NEW S, NEW pat \in Seq(S), NEW c, NEW p \in 1..Len(pat), p + 4 \in 1..Len(pat),
         pat[p + 1] \in Plain, pat[p + 2] = "-", pat[p + 3] \in Plain, pat[p + 4] = "]"
  PROVE  /\ Util!Listed(pat, c, p + 1) # 0 <=> Util!Between(pat[p + 1], c, pat[p + 3])
         /\ Util!Listed(pat, c, p + 1) # 0 =>
              Util!BehindList(pat, Util!Listed(pat, c, p + 1)) = p + 5
<1>0. PICK l \in Nat : l = Len(pat)
  OBVIOUS
<1>1. /\ p + 1 \in 1..(l + 1) /\ ~(p + 1 > l) /\ p + 1 < l /\ ~((p + 1) + 2 > l)
      /\ p + 1 \in (p + 1)..(l + 1) /\ p + 4 \in (p + 1)..(l + 1)
      /\ (p + 1) + 1 = p + 2 /\ (p + 1) + 2 = p + 3 /\ (p + 1) + 3 = p + 4
  BY <1>0
<1>2. PICK scan : ScanOf(scan, pat, c, p + 1) /\ Util!Listed(pat, c, p + 1) = scan[p + 1]
  BY <1>0, <1>1, ListedSteps
<1>3. \A k \in (p + 1)..(l + 1) : scan[k] = ScanStep(scan, pat, c, k)
  BY <1>0, <1>2 DEF ScanOf
<1>4. scan[p + 4] = 0
  BY <1>0, <1>1, <1>3 DEF ScanStep
<1>5. scan[p + 1] = IF Util!Between(pat[p + 1], c, pat[p + 3]) THEN p + 1 ELSE 0
  <2>1. pat[p + 1] # "]"
    BY PlainLetters
  <2>2. scan[p + 1] = ScanStep(scan, pat, c, p + 1)
    BY <1>1, <1>3
  <2>3. pat[p + 1] = c => Util!Between(pat[p + 1], c, pat[p + 3])
    BY BetweenItself
  <2>. QED
    BY <1>0, <1>1, <1>4, <2>1, <2>2, <2>3 DEF ScanStep
<1>6. p + 1 # 0
  OBVIOUS
<1>7. Util!BehindList(pat, p + 1) = p + 5
  <2>1. PICK e \in 1..Len(pat) : e = p + 4 /\ e + 1 = p + 5
    BY <1>0
  <2>2. PICK hit \in 1..e : hit = p + 1
    BY <2>1
  <2>3. \A i \in hit..(e - 1) : i \in {p + 1, p + 2, p + 3}
    BY <2>1, <2>2
  <2>4. Without(pat, {"]"}, hit, e - 1)
    BY <2>3, PlainLetters DEF Without
  <2>. QED
    BY <2>1, <2>2, <2>4, BehindTheList
<1>. QED
  BY <1>2, <1>5, <1>6, <1>7

(* A token that stands for one character, and for which.                   *)
Single(token, c) ==
  CASE token = <<"?">> -> TRUE
    [] token[1] \in {"one", "quoted"} -> c = token[2]
    [] token[1] = "list" -> c \in {token[2], token[3]}
    [] token[1] = "range" -> Util!Between(token[2], c, token[3])

LEMMA PieceStands ==
  ASSUME NEW S, NEW str \in Seq(S), NEW token,
         NEW s \in 0..Len(str), NEW t \in s..Len(str)
  PROVE  Util!Stands(token, SubSeq(str, s + 1, t)) <=>
           token = <<"*">> \/ (t = s + 1 /\ Single(token, str[s + 1]))
<1>0. PICK l \in Nat : l = Len(str)
  OBVIOUS
<1>1. CASE t = s + 1
  <2>1. s + 1 \in 1..l /\ t \in 1..l /\ t - (s + 1) + 1 = 1
    BY <1>0, <1>1
  <2>2. PICK piece : piece = SubSeq(str, s + 1, t)
    OBVIOUS
  <2>3. Len(piece) = 1 /\ piece[1] = str[s + 1]
    <3>1. PICK a \in 1..Len(str) : a = s + 1 /\ a = t
      BY <1>0, <1>1, <2>1
    <3>2. Len(SubSeq(str, a, a)) = 1 /\ SubSeq(str, a, a)[1] = str[a]
      OBVIOUS
    <3>. QED
      BY <2>2, <3>1, <3>2
  <2>. QED
    BY <1>1, <2>2, <2>3, Zenon DEF Util!Stands, Single
<1>2. CASE t # s + 1
  <2>1. Len(SubSeq(str, s + 1, t)) # 1
    <3>1. CASE t = s
      BY <3>1
    <3>2. CASE t > s + 1
      BY <3>2
    <3>. QED
      BY <1>0, <1>2, <3>1, <3>2
  <2>. QED
    BY <1>2, <2>1 DEF Util!Stands
<1>. QED
  BY <1>1, <1>2

(* The text w of the token is in the pattern from position p.              *)
WrittenAt(token, pat, p) ==
  /\ p \in 1..Len(pat) /\ p + Len(Util!Written(token)) \in 1..(Len(pat) + 1)
  /\ \A k \in 1..Len(Util!Written(token)) : pat[(p - 1) + k] = Util!Written(token)[k]

LEMMA KindsOfTokens ==
  ASSUME NEW token \in Util!Tokens(Plain)
  PROVE  \/ token = <<"*">> \/ token = <<"?">>
         \/ \E x \in Plain : token = <<"one", x>> \/ token = <<"quoted", x>>
         \/ \E x \in Plain, y \in Plain : token = <<"list", x, y>> \/ token = <<"range", x, y>>
BY DEF Util!Tokens

LEMMA SingleTurn ==
  ASSUME NEW S, NEW str \in Seq(S), NEW T, NEW pat \in Seq(T),
         NEW match, MatchOf(match, str, pat),
         NEW token \in Util!Tokens(Plain), token # <<"*">>, NEW p, WrittenAt(token, pat, p),
         NEW s \in 0..Len(str)
  PROVE  match[p][s + 1] <=>
           /\ s < Len(str) /\ Single(token, str[s + 1])
           /\ match[p + Len(Util!Written(token))][s + 2]
<1>0. PICK l \in Nat, n \in Nat : l = Len(pat) /\ n = Len(str)
  OBVIOUS
<1>1. /\ p \in 1..(l + 1) /\ ~(p > l) /\ (s + 1) + 1 = s + 2 /\ s + 1 \in 1..(n + 1)
      /\ s + 1 <= n <=> s < n
  BY <1>0 DEF WrittenAt
<1>2. match[p][s + 1] <=> Turn(match, str, pat, p, s + 1)
  BY <1>0, <1>1 DEF MatchOf
<1>3. CASE token = <<"?">>
  <2>1. Util!Written(token) = <<"?">>
    BY <1>3 DEF Util!Written
  <2>2. pat[p] = "?" /\ Len(Util!Written(token)) = 1
    <3>1. Len(<<"?">>) = 1 /\ <<"?">>[1] = "?" /\ 1 \in 1..1 /\ (p - 1) + 1 = p
      BY <1>1
    <3>. QED
      BY <2>1, <3>1 DEF WrittenAt
  <2>3. Single(token, str[s + 1])
    BY <1>3 DEF Single
  <2>. QED
    BY <1>0, <1>1, <1>2, <2>2, <2>3 DEF Turn
<1>4. ASSUME NEW x \in Plain, token = <<"one", x>>
      PROVE  match[p][s + 1] <=> /\ s < Len(str) /\ Single(token, str[s + 1])
                                 /\ match[p + Len(Util!Written(token))][s + 2]
  <2>1. token[1] = "one" /\ token[2] = x /\ token # <<"?">>
    BY <1>4
  <2>2. Util!Written(token) = <<x>>
    BY <2>1 DEF Util!Written
  <2>3. pat[p] = x /\ Len(Util!Written(token)) = 1
    <3>1. Len(<<x>>) = 1 /\ <<x>>[1] = x /\ 1 \in 1..1 /\ (p - 1) + 1 = p
      BY <1>1
    <3>. QED
      BY <2>2, <3>1 DEF WrittenAt
  <2>4. Single(token, str[s + 1]) <=> str[s + 1] = x
    BY <2>1 DEF Single
  <2>5. pat[p] \notin {"*", "?", "[", "\\"}
    BY <2>3, PlainLetters
  <2>. QED
    BY <1>0, <1>1, <1>2, <2>3, <2>4, <2>5 DEF Turn
<1>5. ASSUME NEW x \in Plain, token = <<"quoted", x>>
      PROVE  match[p][s + 1] <=> /\ s < Len(str) /\ Single(token, str[s + 1])
                                 /\ match[p + Len(Util!Written(token))][s + 2]
  <2>1. token[1] = "quoted" /\ token[2] = x /\ token # <<"?">>
    BY <1>5
  <2>2. Util!Written(token) = <<"\\", x>>
    BY <2>1 DEF Util!Written
  <2>3. pat[p] = "\\" /\ pat[p + 1] = x /\ Len(Util!Written(token)) = 2
    <3>1. /\ Len(<<"\\", x>>) = 2 /\ <<"\\", x>>[1] = "\\" /\ <<"\\", x>>[2] = x
          /\ 1 \in 1..2 /\ 2 \in 1..2 /\ (p - 1) + 1 = p /\ (p - 1) + 2 = p + 1
      BY <1>1
    <3>. QED
      BY <2>2, <3>1 DEF WrittenAt
  <2>4. Single(token, str[s + 1]) <=> str[s + 1] = x
    BY <2>1 DEF Single
  <2>5. p < l
    BY <1>0, <2>3 DEF WrittenAt
  <2>. QED
    BY <1>0, <1>1, <1>2, <2>3, <2>4, <2>5 DEF Turn
<1>6. ASSUME NEW x \in Plain, NEW y \in Plain, token = <<"list", x, y>>
      PROVE  match[p][s + 1] <=> /\ s < Len(str) /\ Single(token, str[s + 1])
                                 /\ match[p + Len(Util!Written(token))][s + 2]
  <2>1. token[1] = "list" /\ token[2] = x /\ token[3] = y /\ token # <<"?">>
    BY <1>6
  <2>2. Util!Written(token) = <<"[", x, y, "]">>
    BY <2>1 DEF Util!Written
  <2>3. /\ pat[p] = "[" /\ pat[p + 1] = x /\ pat[p + 2] = y /\ pat[p + 3] = "]"
        /\ Len(Util!Written(token)) = 4
    <3>1. PICK w : w = <<"[", x, y, "]">>
      OBVIOUS
    <3>2. /\ Len(w) = 4 /\ w[1] = "[" /\ w[2] = x /\ w[3] = y /\ w[4] = "]"
          /\ 1 \in 1..4 /\ 2 \in 1..4 /\ 3 \in 1..4 /\ 4 \in 1..4
      BY <3>1
    <3>3. (p - 1) + 1 = p /\ (p - 1) + 2 = p + 1 /\ (p - 1) + 3 = p + 2 /\ (p - 1) + 4 = p + 3
      BY <1>1
    <3>. QED
      BY <2>2, <3>1, <3>2, <3>3 DEF WrittenAt
  <2>4. Single(token, str[s + 1]) <=> str[s + 1] \in {x, y}
    BY <2>1 DEF Single
  <2>5. p + 3 \in 1..Len(pat) /\ p \in 1..Len(pat)
    BY <1>0, <2>3 DEF WrittenAt
  <2>6. /\ Util!Listed(pat, str[s + 1], p + 1) # 0 <=> str[s + 1] \in {x, y}
        /\ Util!Listed(pat, str[s + 1], p + 1) # 0 =>
             Util!BehindList(pat, Util!Listed(pat, str[s + 1], p + 1)) = p + 4
    BY <2>3, <2>5, ListHits
  <2>. QED
    BY <1>0, <1>1, <1>2, <2>3, <2>4, <2>6 DEF Turn
<1>7. ASSUME NEW x \in Plain, NEW y \in Plain, token = <<"range", x, y>>
      PROVE  match[p][s + 1] <=> /\ s < Len(str) /\ Single(token, str[s + 1])
                                 /\ match[p + Len(Util!Written(token))][s + 2]
  <2>1. token[1] = "range" /\ token[2] = x /\ token[3] = y /\ token # <<"?">>
    BY <1>7
  <2>2. Util!Written(token) = <<"[", x, "-", y, "]">>
    BY <2>1 DEF Util!Written
  <2>3. /\ pat[p] = "[" /\ pat[p + 1] = x /\ pat[p + 2] = "-" /\ pat[p + 3] = y
        /\ pat[p + 4] = "]" /\ Len(Util!Written(token)) = 5
    <3>1. PICK w : w = <<"[", x, "-", y, "]">>
      OBVIOUS
    <3>2. /\ Len(w) = 5 /\ w[1] = "[" /\ w[2] = x /\ w[3] = "-" /\ w[4] = y /\ w[5] = "]"
          /\ 1 \in 1..5 /\ 2 \in 1..5 /\ 3 \in 1..5 /\ 4 \in 1..5 /\ 5 \in 1..5
      BY <3>1
    <3>3. /\ (p - 1) + 1 = p /\ (p - 1) + 2 = p + 1 /\ (p - 1) + 3 = p + 2
          /\ (p - 1) + 4 = p + 3 /\ (p - 1) + 5 = p + 4
      BY <1>1
    <3>. QED
      BY <2>2, <3>1, <3>2, <3>3 DEF WrittenAt
  <2>4. Single(token, str[s + 1]) <=> Util!Between(x, str[s + 1], y)
    BY <2>1 DEF Single
  <2>5. p + 4 \in 1..Len(pat) /\ p \in 1..Len(pat)
    BY <1>0, <2>3 DEF WrittenAt
  <2>6. /\ Util!Listed(pat, str[s + 1], p + 1) # 0 <=> Util!Between(x, str[s + 1], y)
        /\ Util!Listed(pat, str[s + 1], p + 1) # 0 =>
             Util!BehindList(pat, Util!Listed(pat, str[s + 1], p + 1)) = p + 5
    BY <2>3, <2>5, RangeHits
  <2>. QED
    BY <1>0, <1>1, <1>2, <2>3, <2>4, <2>6 DEF Turn
<1>. QED
  BY <1>3, <1>4, <1>5, <1>6, <1>7, KindsOfTokens

(* A token at a position of the pattern, and what it makes of the rests    *)
(* of the string.                                                          *)
LEMMA TokenTurn ==
  ASSUME NEW S, NEW str \in Seq(S), NEW T, NEW pat \in Seq(T),
         NEW match, MatchOf(match, str, pat),
         NEW token \in Util!Tokens(Plain), NEW p, WrittenAt(token, pat, p),
         NEW s \in 0..Len(str)
  PROVE  match[p][s + 1] <=>
           \E t \in s..Len(str) : /\ Util!Stands(token, SubSeq(str, s + 1, t))
                                  /\ match[p + Len(Util!Written(token))][t + 1]
<1>0. PICK l \in Nat, n \in Nat : l = Len(pat) /\ n = Len(str)
  OBVIOUS
<1>. PICK next : next = p + Len(Util!Written(token))
  OBVIOUS
<1>1. \A t \in s..n : Util!Stands(token, SubSeq(str, s + 1, t)) <=>
                        token = <<"*">> \/ (t = s + 1 /\ Single(token, str[s + 1]))
  BY <1>0, PieceStands
<1>2. CASE token # <<"*">>
  <2>1. match[p][s + 1] <=> /\ s < n /\ Single(token, str[s + 1])
                            /\ match[next][s + 2]
    BY <1>0, <1>2, SingleTurn
  <2>2. /\ s < n => s + 1 \in s..n
        /\ (s + 1) + 1 = s + 2
        /\ \A t \in s..n : t = s + 1 => s < n
    BY <1>0
  <2>3. ASSUME s < n, Single(token, str[s + 1]), match[next][s + 2]
        PROVE  \E t \in s..n : Util!Stands(token, SubSeq(str, s + 1, t)) /\ match[next][t + 1]
    <3>1. PICK t \in s..n : t = s + 1 /\ t + 1 = s + 2
      BY <2>2, <2>3
    <3>2. Util!Stands(token, SubSeq(str, s + 1, t)) /\ match[next][t + 1]
      BY <1>1, <2>3, <3>1
    <3>. QED
      BY <3>2
  <2>4. ASSUME NEW t \in s..n, Util!Stands(token, SubSeq(str, s + 1, t)), match[next][t + 1]
        PROVE  s < n /\ Single(token, str[s + 1]) /\ match[next][s + 2]
    <3>1. t = s + 1 /\ Single(token, str[s + 1])
      BY <1>1, <1>2, <2>4
    <3>2. t + 1 = s + 2
      BY <2>2, <3>1
    <3>. QED
      BY <2>2, <2>4, <3>1, <3>2
  <2>. QED
    BY <1>0, <2>1, <2>3, <2>4
<1>3. CASE token = <<"*">>
  <2>1. Util!Written(token) = <<"*">>
    BY <1>3 DEF Util!Written
  <2>2. pat[p] = "*" /\ next = p + 1 /\ p \in 1..l
    <3>1. Len(<<"*">>) = 1 /\ <<"*">>[1] = "*" /\ 1 \in 1..1
      OBVIOUS
    <3>2. p \in 1..l
      BY <1>0 DEF WrittenAt
    <3>3. (p - 1) + 1 = p
      BY <3>2
    <3>. QED
      BY <2>1, <3>1, <3>2, <3>3 DEF WrittenAt
  <2>3. p \in 1..(l + 1) /\ ~(p > l) /\ s + 1 \in 1..(n + 1) /\ (p = l => p + 1 = l + 1)
    BY <1>0, <2>2
  <2>4. match[p][s + 1] <=> p = l \/ \E t \in (s + 1)..(n + 1) : match[p + 1][t]
    <3>1. match[p][s + 1] <=> Turn(match, str, pat, p, s + 1)
      BY <1>0, <2>3 DEF MatchOf
    <3>. QED
      BY <1>0, <2>2, <2>3, <3>1 DEF Turn, Util!StarRests
  <2>5. p = l => match[p + 1][n + 1]
    <3>1. l + 1 \in 1..(l + 1) /\ n + 1 \in 1..(n + 1) /\ l + 1 > l /\ n + 1 > n
      OBVIOUS
    <3>2. match[l + 1][n + 1] <=> Turn(match, str, pat, l + 1, n + 1)
      BY <1>0, <3>1 DEF MatchOf
    <3>3. Turn(match, str, pat, l + 1, n + 1)
      BY <1>0, <3>1 DEF Turn
    <3>. QED
      BY <2>3, <3>2, <3>3
  <2>6. /\ \A t \in (s + 1)..(n + 1) : t - 1 \in s..n /\ (t - 1) + 1 = t
        /\ \A t \in s..n : t + 1 \in (s + 1)..(n + 1)
        /\ n \in s..n
    BY <1>0
  <2>7. (\E t \in (s + 1)..(n + 1) : match[p + 1][t]) <=> \E t \in s..n : match[p + 1][t + 1]
    BY <2>6
  <2>8. match[p][s + 1] <=> \E t \in s..n : match[p + 1][t + 1]
    BY <2>4, <2>5, <2>6, <2>7
  <2>. QED
    BY <1>0, <1>1, <1>3, <2>2, <2>8
<1>. QED
  BY <1>2, <1>3

(* The rest of the string behind s is cut for the tokens behind i.         *)
CutAs(cut, tokens, str, i, s) ==
  /\ cut \in [i..Len(tokens) -> 0..Len(str)]
  /\ cut[i] = s /\ cut[Len(tokens)] = Len(str)
  /\ \A j \in (i + 1)..Len(tokens) :
       /\ cut[j - 1] <= cut[j]
       /\ Util!Stands(tokens[j], SubSeq(str, cut[j - 1] + 1, cut[j]))

LEMMA NoTokenLeft ==
  ASSUME NEW T, NEW tokens \in Seq(T), NEW S, NEW str \in Seq(S), NEW s \in 0..Len(str)
  PROVE  (\E cut : CutAs(cut, tokens, str, Len(tokens), s)) <=> s = Len(str)
<1>0. PICK n \in Nat, l \in Nat : n = Len(tokens) /\ l = Len(str)
  OBVIOUS
<1>1. ASSUME NEW cut, CutAs(cut, tokens, str, n, s) PROVE s = l
  BY <1>0, <1>1 DEF CutAs
<1>2. ASSUME s = l PROVE \E cut : CutAs(cut, tokens, str, n, s)
  <2>1. PICK cut : cut = [j \in n..n |-> s]
    OBVIOUS
  <2>2. cut \in [n..n -> 0..l] /\ cut[n] = s
    BY <1>0, <2>1
  <2>3. \A j \in (n + 1)..n : FALSE
    OBVIOUS
  <2>4. CutAs(cut, tokens, str, n, s)
    BY <1>0, <1>2, <2>2, <2>3 DEF CutAs
  <2>. QED
    BY <2>4
<1>. QED
  BY <1>0, <1>1, <1>2

LEMMA OneTokenLess ==
  ASSUME NEW T, NEW tokens \in Seq(T), NEW S, NEW str \in Seq(S),
         NEW i \in 1..Len(tokens), NEW s \in 0..Len(str)
  PROVE  (\E cut : CutAs(cut, tokens, str, i - 1, s)) <=>
           \E t \in s..Len(str) : /\ Util!Stands(tokens[i], SubSeq(str, s + 1, t))
                                  /\ \E cut : CutAs(cut, tokens, str, i, t)
<1>0. PICK n \in Nat, l \in Nat : n = Len(tokens) /\ l = Len(str)
  OBVIOUS
<1>1. ASSUME NEW cut, CutAs(cut, tokens, str, i - 1, s)
      PROVE  \E t \in s..l : /\ Util!Stands(tokens[i], SubSeq(str, s + 1, t))
                             /\ \E c : CutAs(c, tokens, str, i, t)
  <2>1. /\ i \in (i - 1)..n /\ i - 1 \in (i - 1)..n /\ (i - 1) + 1 = i /\ i \in i..n /\ n \in i..n
        /\ \A j \in (i + 1)..n : j \in i..n /\ j - 1 \in i..n
        /\ \A j \in i..n : j \in (i - 1)..n
    BY <1>0
  <2>2. /\ \A j \in (i - 1)..n : cut[j] \in 0..l
        /\ cut[i - 1] = s /\ cut[n] = l
        /\ \A j \in i..n : /\ cut[j - 1] <= cut[j]
                           /\ Util!Stands(tokens[j], SubSeq(str, cut[j - 1] + 1, cut[j]))
    BY <1>0, <1>1, <2>1 DEF CutAs
  <2>3. PICK t \in s..l : t = cut[i]
    <3>1. cut[i] \in 0..l /\ s <= cut[i]
      BY <2>1, <2>2
    <3>. QED
      BY <1>0, <3>1
  <2>4. PICK c : c = [j \in i..n |-> cut[j]]
    OBVIOUS
  <2>5. c \in [i..n -> 0..l] /\ \A j \in i..n : c[j] = cut[j]
    BY <2>1, <2>2, <2>4
  <2>6. CutAs(c, tokens, str, i, t)
    BY <1>0, <2>1, <2>2, <2>3, <2>5 DEF CutAs
  <2>7. Util!Stands(tokens[i], SubSeq(str, s + 1, t))
    BY <2>1, <2>2, <2>3
  <2>. QED
    BY <2>6, <2>7
<1>2. ASSUME NEW t \in s..l, Util!Stands(tokens[i], SubSeq(str, s + 1, t)),
             NEW c, CutAs(c, tokens, str, i, t)
      PROVE  \E cut : CutAs(cut, tokens, str, i - 1, s)
  <2>1. /\ i \in (i - 1)..n /\ i - 1 \in (i - 1)..n /\ (i - 1) + 1 = i /\ i \in i..n /\ n \in i..n
        /\ i # i - 1 /\ n # i - 1
        /\ \A j \in i..n : j \in (i - 1)..n /\ j # i - 1
        /\ \A j \in (i + 1)..n : j - 1 \in i..n /\ j \in i..n
        /\ \A j \in (i - 1)..n : j # i - 1 => j \in i..n
        /\ \A j \in i..n : j # i => j \in (i + 1)..n
    BY <1>0
  <2>2. /\ \A j \in i..n : c[j] \in 0..l
        /\ c[i] = t /\ c[n] = l
        /\ \A j \in (i + 1)..n : /\ c[j - 1] <= c[j]
                                 /\ Util!Stands(tokens[j], SubSeq(str, c[j - 1] + 1, c[j]))
    BY <1>0, <1>2, <2>1 DEF CutAs
  <2>3. PICK cut : cut = [j \in (i - 1)..n |-> IF j = i - 1 THEN s ELSE c[j]]
    OBVIOUS
  <2>4. /\ cut \in [(i - 1)..n -> 0..l] /\ cut[i - 1] = s
        /\ \A j \in i..n : cut[j] = c[j]
    BY <1>0, <2>1, <2>2, <2>3
  <2>5. ASSUME NEW j \in i..n
        PROVE  /\ cut[j - 1] <= cut[j]
               /\ Util!Stands(tokens[j], SubSeq(str, cut[j - 1] + 1, cut[j]))
    <3>1. CASE j = i
      <4>1. cut[j - 1] = s /\ cut[j] = t /\ s <= t
        BY <2>1, <2>2, <2>4, <3>1
      <4>. QED
        BY <1>2, <3>1, <4>1
    <3>2. CASE j # i
      <4>1. j \in (i + 1)..n /\ j - 1 \in i..n
        BY <2>1, <3>2
      <4>2. cut[j - 1] = c[j - 1] /\ cut[j] = c[j]
        BY <2>4, <4>1
      <4>. QED
        BY <2>2, <4>1, <4>2
    <3>. QED
      BY <3>1, <3>2
  <2>6. CutAs(cut, tokens, str, i - 1, s)
    BY <1>0, <2>1, <2>2, <2>4, <2>5 DEF CutAs
  <2>. QED
    BY <2>6
<1>. QED
  BY <1>0, <1>1, <1>2

Written == Plain \cup {"*", "?", "[", "]", "-", "\\"}

LEMMA TokensAreWritten ==
  ASSUME NEW token \in Util!Tokens(Plain)
  PROVE  Util!Written(token) \in Seq(Written) /\ Len(Util!Written(token)) \in Nat \ {0}
<1>1. CASE token = <<"*">> \/ token = <<"?">>
  BY <1>1 DEF Util!Written, Written
<1>2. ASSUME NEW x \in Plain, token = <<"one", x>> \/ token = <<"quoted", x>>
      PROVE  Util!Written(token) \in Seq(Written) /\ Len(Util!Written(token)) \in Nat \ {0}
  <2>1. Util!Written(token) = <<x>> \/ Util!Written(token) = <<"\\", x>>
    BY <1>2 DEF Util!Written
  <2>2. x \in Written /\ "\\" \in Written
    BY DEF Written
  <2>3. CASE Util!Written(token) = <<x>>
    BY <2>2, <2>3
  <2>4. CASE Util!Written(token) = <<"\\", x>>
    BY <2>2, <2>4
  <2>. QED
    BY <2>1, <2>3, <2>4
<1>3. ASSUME NEW x \in Plain, NEW y \in Plain,
             token = <<"list", x, y>> \/ token = <<"range", x, y>>
      PROVE  Util!Written(token) \in Seq(Written) /\ Len(Util!Written(token)) \in Nat \ {0}
  <2>1. Util!Written(token) = <<"[", x, y, "]">> \/ Util!Written(token) = <<"[", x, "-", y, "]">>
    BY <1>3 DEF Util!Written
  <2>2. x \in Written /\ y \in Written /\ "[" \in Written /\ "]" \in Written /\ "-" \in Written
    BY DEF Written
  <2>3. CASE Util!Written(token) = <<"[", x, y, "]">>
    BY <2>2, <2>3
  <2>4. CASE Util!Written(token) = <<"[", x, "-", y, "]">>
    BY <2>2, <2>4
  <2>. QED
    BY <2>1, <2>3, <2>4
<1>. QED
  BY <1>1, <1>2, <1>3, KindsOfTokens

PatternOf(tokens) == Util!FlattenSeq([i \in DOMAIN tokens |-> Util!Written(tokens[i])])

(* The tokens are in the pattern, one behind the other.                    *)
LEMMA PatternIsWritten ==
  ASSUME NEW tokens \in Seq(Util!Tokens(Plain))
  PROVE  /\ PatternOf(tokens) \in Seq(Written)
         /\ \E off \in [0..Len(tokens) -> Nat] :
              /\ off[0] = 0 /\ off[Len(tokens)] = Len(PatternOf(tokens))
              /\ \A i \in 1..Len(tokens) :
                   /\ WrittenAt(tokens[i], PatternOf(tokens), off[i - 1] + 1)
                   /\ (off[i - 1] + 1) + Len(Util!Written(tokens[i])) = off[i] + 1
<1>0. PICK n \in Nat : n = Len(tokens)
  OBVIOUS
<1>1. PICK seqs : seqs = [i \in DOMAIN tokens |-> Util!Written(tokens[i])]
  OBVIOUS
<1>2. /\ DOMAIN tokens = 1..n
      /\ \A i \in 1..n : tokens[i] \in Util!Tokens(Plain)
  BY <1>0
<1>3. \A i \in 1..n : Util!Written(tokens[i]) \in Seq(Written)
  BY <1>2, TokensAreWritten
<1>4. seqs \in Seq(Seq(Written)) /\ Len(seqs) = n
  <2>1. seqs \in [1..n -> Seq(Written)]
    BY <1>1, <1>2, <1>3
  <2>2. \A Q : seqs \in [1..n -> Q] => seqs \in Seq(Q) /\ Len(seqs) = n
    OBVIOUS
  <2>. QED
    BY <2>1, <2>2
<1>5. PICK pat \in Seq(Written) : pat = PatternOf(tokens) /\ pat = Util!FlattenSeq(seqs)
  <2>1. Util!FlattenSeq(seqs) \in Seq(Written)
    BY <1>4, OffsetsExist
  <2>. QED
    BY <1>1, <2>1 DEF PatternOf
<1>6. PICK off : Offsets(off, seqs) /\ Len(pat) = off[n] /\ Laid(pat, seqs, off)
  BY <1>4, <1>5, OffsetsExist
<1>7. off \in [0..n -> Nat] /\ off[0] = 0
  BY <1>4, <1>6 DEF Offsets
<1>8. ASSUME NEW i \in 1..n
      PROVE  /\ WrittenAt(tokens[i], pat, off[i - 1] + 1)
             /\ (off[i - 1] + 1) + Len(Util!Written(tokens[i])) = off[i] + 1
  <2>1. seqs[i] = Util!Written(tokens[i])
    BY <1>1, <1>2
  <2>2. PICK a \in Nat, b \in Nat, c \in Nat, w \in Nat :
          /\ a = off[i - 1] /\ b = off[i] /\ w = Len(seqs[i]) /\ c = off[n]
          /\ b = a + w /\ b <= c
    <3>1. i \in 1..n /\ n \in 0..n /\ i \in 0..n
      OBVIOUS
    <3>2. /\ off[i - 1] \in Nat /\ off[i] \in Nat /\ Len(seqs[i]) \in Nat
          /\ off[i] = off[i - 1] + Len(seqs[i])
      BY <1>4, <1>6, <3>1, OffsetsGrow
    <3>3. off[i] <= off[n]
      BY <1>4, <1>6, <3>1, OffsetsGrow
    <3>4. off[n] \in Nat
      BY <1>7, <3>1
    <3>. QED
      BY <3>2, <3>3, <3>4
  <2>3. w # 0
    BY <1>2, <2>1, <2>2, TokensAreWritten
  <2>4. a + 1 \in 1..c /\ (a + 1) + w \in 1..(c + 1) /\ (a + 1) + w = b + 1 /\ (a + 1) - 1 = a
    <3>1. b = a + w /\ b <= c
      BY <2>2
    <3>. QED
      BY <2>3, <3>1
  <2>5. \A k \in 1..w : pat[a + k] = seqs[i][k]
    BY <1>4, <1>6, <2>2 DEF Laid
  <2>. QED
    BY <1>6, <2>1, <2>2, <2>4, <2>5 DEF WrittenAt
<1>. QED
  BY <1>0, <1>5, <1>6, <1>7, <1>8

LEMMA PatternDenotes ==
  ASSUME NEW S, NEW str \in Seq(S), NEW tokens \in Seq(Util!Tokens(Plain))
  PROVE  Util!Match(str, PatternOf(tokens), TRUE) <=> Util!Denotes(tokens, str)
<1>0. PICK n \in Nat, l \in Nat : n = Len(tokens) /\ l = Len(str)
  OBVIOUS
<1>1. PICK pat \in Seq(Written) : pat = PatternOf(tokens)
  BY PatternIsWritten
<1>2. PICK off \in [0..n -> Nat] :
        /\ off[0] = 0 /\ off[n] = Len(pat)
        /\ \A i \in 1..n : /\ WrittenAt(tokens[i], pat, off[i - 1] + 1)
                           /\ (off[i - 1] + 1) + Len(Util!Written(tokens[i])) = off[i] + 1
  BY <1>0, <1>1, PatternIsWritten
<1>3. PICK match : MatchOf(match, str, pat) /\ Util!Match(str, pat, TRUE) = match[1][1]
  BY MatchSteps
<1>. DEFINE Cuts(i, s) == \E cut : CutAs(cut, tokens, str, i, s)
            Good == {k \in 0..n : \A s \in 0..l : match[off[n - k] + 1][s + 1] <=> Cuts(n - k, s)}
<1>4. 0 \in Good
  <2>1. ASSUME NEW s \in 0..l PROVE match[off[n] + 1][s + 1] <=> Cuts(n, s)
    <3>1. PICK m \in Nat : m = Len(pat)
      OBVIOUS
    <3>2. m + 1 \in 1..(m + 1) /\ m + 1 > m /\ s + 1 \in 1..(l + 1) /\ (s + 1 > l <=> s = l)
      BY <3>1
    <3>3. match[m + 1][s + 1] <=> Turn(match, str, pat, m + 1, s + 1)
      BY <1>0, <1>3, <3>1, <3>2 DEF MatchOf
    <3>4. Turn(match, str, pat, m + 1, s + 1) <=> s = l
      BY <1>0, <3>1, <3>2 DEF Turn
    <3>5. Cuts(n, s) <=> s = l
      BY <1>0, NoTokenLeft
    <3>. HIDE DEF Cuts
    <3>. QED
      BY <1>2, <3>1, <3>3, <3>4, <3>5
  <2>2. n - 0 = n /\ 0 \in 0..n
    OBVIOUS
  <2>. HIDE DEF Cuts
  <2>. QED
    BY <2>1, <2>2
<1>5. ASSUME NEW k \in 1..n, k - 1 \in Good PROVE k \in Good
  <2>1. PICK i \in 1..n : i = n - (k - 1) /\ i - 1 = n - k
    <3>1. n - (k - 1) \in 1..n /\ (n - (k - 1)) - 1 = n - k
      BY <1>0
    <3>. QED
      BY <3>1
  <2>2. \A s \in 0..l : match[off[i] + 1][s + 1] <=> Cuts(i, s)
    <3>. HIDE DEF Cuts
    <3>. QED
      BY <1>5, <2>1
  <2>3. ASSUME NEW s \in 0..l PROVE match[off[i - 1] + 1][s + 1] <=> Cuts(i - 1, s)
    <3>1. tokens[i] \in Util!Tokens(Plain)
      BY <1>0
    <3>2. PICK token \in Util!Tokens(Plain) : token = tokens[i]
      BY <3>1
    <3>3. PICK p : p = off[i - 1] + 1 /\ WrittenAt(token, pat, p)
                     /\ p + Len(Util!Written(token)) = off[i] + 1
      BY <1>2, <3>2
    <3>4. match[p][s + 1] <=>
            \E t \in s..l : /\ Util!Stands(token, SubSeq(str, s + 1, t))
                            /\ match[p + Len(Util!Written(token))][t + 1]
      <4>1. s \in 0..Len(str) /\ MatchOf(match, str, pat) /\ WrittenAt(token, pat, p)
        BY <1>0, <1>3, <3>3
      <4>. HIDE DEF Cuts, Good
      <4>2. match[p][s + 1] <=>
              \E t \in s..Len(str) : /\ Util!Stands(token, SubSeq(str, s + 1, t))
                                     /\ match[p + Len(Util!Written(token))][t + 1]
        BY <4>1, TokenTurn
      <4>. QED
        BY <1>0, <4>2
    <3>5. Cuts(i - 1, s) <=>
            \E t \in s..l : Util!Stands(token, SubSeq(str, s + 1, t)) /\ Cuts(i, t)
      BY <1>0, <3>2, OneTokenLess
    <3>6. \A t \in s..l : t \in 0..l
      OBVIOUS
    <3>7. \A t \in s..l : match[p + Len(Util!Written(token))][t + 1] <=> Cuts(i, t)
      <4>. HIDE DEF Cuts
      <4>. QED
        BY <2>2, <3>3, <3>6
    <3>. HIDE DEF Cuts
    <3>. QED
      BY <3>3, <3>4, <3>5, <3>7
  <2>4. k \in 0..n
    OBVIOUS
  <2>. HIDE DEF Cuts
  <2>. QED
    BY <2>1, <2>3, <2>4
<1>6. n \in Good
  <2>. HIDE DEF Good
  <2>1. \A k \in 0..n : k \in Good
    BY <1>4, <1>5, UpTo
  <2>. QED
    BY <2>1
<1>7. match[1][1] <=> Cuts(0, 0)
  <2>1. n - n = 0 /\ 0 \in 0..l /\ 0 + 1 = 1
    OBVIOUS
  <2>. HIDE DEF Cuts
  <2>. QED
    BY <1>2, <1>6, <2>1
<1>8. Cuts(0, 0) <=> Util!Denotes(tokens, str)
  <2>1. \A cut : CutAs(cut, tokens, str, 0, 0) <=>
          /\ cut \in [0..Len(tokens) -> 0..Len(str)]
          /\ cut[0] = 0 /\ cut[Len(tokens)] = Len(str)
          /\ \A i \in 1..Len(tokens) :
               /\ cut[i - 1] <= cut[i]
               /\ Util!Stands(tokens[i], SubSeq(str, cut[i - 1] + 1, cut[i]))
    <3>1. 0 + 1 = 1
      OBVIOUS
    <3>. QED
      BY <3>1 DEF CutAs
  <2>. QED
    BY <2>1, Zenon DEF Util!Denotes
<1>. QED
  BY <1>1, <1>3, <1>7, <1>8

(* Match decides the language of a pattern of any tokens, with letters     *)
(* that mean nothing else, for every string (MatchAgrees).                 *)
THEOREM AnyMatchAgrees ==
  ASSUME NEW S, NEW str \in Seq(S), NEW patterns \in SUBSET Seq(Util!Tokens(Plain))
  PROVE  Util!MatchAgrees(patterns, str)
<1>1. ASSUME NEW tokens \in patterns
      PROVE  /\ Util!Match(str, PatternOf(tokens), TRUE) <=> Util!Denotes(tokens, str)
             /\ Util!Match(str, PatternOf(tokens), FALSE) <=>
                  Util!Match(Util!ToLowerCase(str), Util!ToLowerCase(PatternOf(tokens)), TRUE)
  <2>1. tokens \in Seq(Util!Tokens(Plain))
    OBVIOUS
  <2>. QED
    BY <2>1, PatternDenotes, MatchIs
<1>. QED
  BY <1>1, Zenon DEF Util!MatchAgrees, PatternOf
=============================================================================
