-------------------------- MODULE UtilitiesProofs --------------------------
(***************************************************************************)
(* Theorems of TaskPool, MemTrackAllocator and DataStream for all values   *)
(* of their constants, and what those of HelpersProofs mean for their      *)
(* state.                                                                  *)
(*                                                                         *)
(* The pool.  Every object the heap gave out is on the free list or held   *)
(* by exactly one holder (PoolIsCalm).  So as long as there are exactly N  *)
(* of them (the list has not grown), a holder that finds the list empty    *)
(* would leave N objects to the other Tasks in flight; there are fewer of  *)
(* those than N while the pool was never crowded.  Hence such a pool never *)
(* grows, and no pop finds the list empty.                                 *)
(*                                                                         *)
(* The memory tracker.  Three things are known of every state that its     *)
(* variables do not hold: the records in the table, the free records, and  *)
(* a rank of each that grows along the lists (TrackInv).  With the ranks,  *)
(* the lists that Chain and FirstWith read from the pointers are what they *)
(* should be: a list holds the records of the table with its hash, and     *)
(* Remove finds a record of its address if there is one.  An address has   *)
(* as many records as there are blocks and coming removals of it           *)
(* (Matched): this survives that it is given out again in between.         *)
(*                                                                         *)
(* The reader of a stream.  What it was not given of a text is the end of  *)
(* a line (ReaderInv): Span ends at the first delimiter, and a line is     *)
(* that span or the part of it that was asked for, without a CR at its     *)
(* end.                                                                    *)
(*                                                                         *)
(* Messages.  Bytes that Write puts behind each other are read in the same *)
(* order (a stream so far, and the bytes still to come); the size of a     *)
(* message is the sum of its parts in any order of the keys, and the pairs *)
(* read so far are those of the keys written so far.                       *)
(***************************************************************************)
EXTENDS MCUtilities, HelpersProofs

(* The types, and that who owns an object owns one of the heap.            *)
PoolTypes ==
  /\ TypeOK
  /\ \A h \in Holders : Owns(h) => obj[h] \in Heap

(* What holds while never more than N Tasks were in flight.                *)
PoolIsCalm ==
  /\ Exclusive
  /\ Cardinality(Busy) <= N
  /\ \A h \in Holders : pc[h] \in {"idle", "pop", "held", "destroyed"}
  /\ Heap \ fresh = Circulating
  /\ closed => \A h \in Holders : pc[h] = "idle"
  /\ ~closed => Cardinality(Heap \ fresh) = N

(* The inductive invariant of the pool.                                    *)
PoolInv == PoolTypes /\ (~crowded => PoolIsCalm)

-----------------------------------------------------------------------------
(* An injective sequence has as many elements as positions.                *)
LEMMA InjectiveLen ==
  ASSUME NEW S, NEW s \in Seq(S), IsInjective(s)
  PROVE  /\ IsFiniteSet(Range(s))
         /\ Cardinality(Range(s)) = Len(s)
<1>1. Len(s) \in Nat /\ s \in [1..Len(s) -> S] /\ DOMAIN s = 1..Len(s)
  BY LenProperties
<1>2. s \in Injection(1..Len(s), S)
  BY <1>1 DEF Injection, IsInjective
<1>3. s \in Bijection(1..Len(s), Range(s))
  BY <1>2, Fun_InjMeansBijImage
<1>4. ExistsBijection(1..Len(s), Range(s))
  BY <1>3 DEF ExistsBijection
<1>5. IsFiniteSet(1..Len(s)) /\ Cardinality(1..Len(s)) = Len(s)
  BY <1>1, FS_Interval
<1>6. QED
  BY <1>1, <1>4, <1>5, FS_Bijection, FS_CountingElements

(* Pushing a new object on a stack of distinct objects.                    *)
LEMMA PushProps ==
  ASSUME NEW S, NEW s \in Seq(S), NEW o \in S, Len(s) < N
  PROVE  /\ PushOn(s, o) \in Seq(S)
         /\ Range(PushOn(s, o)) = Range(s) \cup {o}
         /\ IsInjective(s) /\ o \notin Range(s) => IsInjective(PushOn(s, o))
<1> DEFINE t == <<o>> \o s
<1>1. Len(s) \in Nat /\ DOMAIN s = 1..Len(s) /\ s \in [1..Len(s) -> S]
  BY LenProperties
<1>2. <<o>> \in Seq(S) /\ Len(<<o>>) = 1 /\ <<o>>[1] = o
  OBVIOUS
<1>3. /\ t \in Seq(S)
      /\ Len(t) = 1 + Len(s)
      /\ \A i \in 1..(1 + Len(s)) : t[i] = IF i <= 1 THEN <<o>>[i] ELSE s[i - 1]
  BY <1>2, ConcatProperties
<1>4. DOMAIN t = 1..(1 + Len(s))
  BY <1>3, LenProperties
<1>5. t[1] = o /\ \A i \in 1..Len(s) : t[i + 1] = s[i]
  BY <1>1, <1>2, <1>3
<1>6. PushOn(s, o) = t
  BY DEF PushOn
<1> HIDE DEF t
<1>7. Range(t) = Range(s) \cup {o}
  <2>1. \A x \in Range(s) \cup {o} : x \in Range(t)
    BY <1>1, <1>4, <1>5 DEF Range
  <2>2. ASSUME NEW i \in 1..(1 + Len(s)) PROVE t[i] \in Range(s) \cup {o}
    <3>1. CASE i = 1
      BY <3>1, <1>5
    <3>2. CASE i # 1
      <4>1. i - 1 \in 1..Len(s) /\ (i - 1) + 1 = i
        BY <3>2, <1>1
      <4>2. t[i] = s[i - 1]
        BY <4>1, <1>5
      <4>3. QED
        BY <4>1, <4>2, <1>1 DEF Range
    <3>3. QED
      BY <3>1, <3>2
  <2>3. QED
    BY <2>1, <2>2, <1>4 DEF Range
<1>8. ASSUME IsInjective(s), o \notin Range(s)
      PROVE  IsInjective(t)
  <2> SUFFICES ASSUME NEW a \in 1..(1 + Len(s)), NEW b \in 1..(1 + Len(s)), t[a] = t[b]
               PROVE  a = b
    BY <1>4 DEF IsInjective
  <2>1. \A i \in 1..(1 + Len(s)) : i # 1 => i - 1 \in 1..Len(s) /\ t[i] = s[i - 1]
    <3> TAKE i \in 1..(1 + Len(s))
    <3> HAVE i # 1
    <3>1. i - 1 \in 1..Len(s) /\ (i - 1) + 1 = i
      BY <1>1
    <3>2. QED
      BY <3>1, <1>5
  <2>2. \A i \in 1..Len(s) : s[i] # o
    BY <1>8, <1>1 DEF Range
  <2>3. CASE a = 1 \/ b = 1
    BY <2>3, <2>1, <2>2, <1>5
  <2>4. CASE a # 1 /\ b # 1
    <3>1. s[a - 1] = s[b - 1] /\ a - 1 \in 1..Len(s) /\ b - 1 \in 1..Len(s)
      BY <2>4, <2>1
    <3>2. a - 1 = b - 1
      BY <3>1, <1>8, <1>1 DEF IsInjective
    <3>3. QED
      BY <3>2, <1>1
  <2>5. QED
    BY <2>3, <2>4
<1>9. QED
  BY <1>3, <1>6, <1>7, <1>8

(* A push, refused or not, leaves a stack of objects.                      *)
LEMMA PushType ==
  ASSUME NEW S, NEW s \in Seq(S), NEW o \in S
  PROVE  PushOn(s, o) \in Seq(S)
<1>1. <<o>> \o s \in Seq(S)
  BY ConcatProperties
<1>2. QED
  BY <1>1 DEF PushOn

(* Popping from a non-empty stack of distinct objects.                     *)
LEMMA PopProps ==
  ASSUME NEW S, NEW s \in Seq(S), s # <<>>, IsInjective(s)
  PROVE  /\ Head(s) \in S
         /\ Tail(s) \in Seq(S)
         /\ Range(s) = Range(Tail(s)) \cup {Head(s)}
         /\ Head(s) \notin Range(Tail(s))
         /\ IsInjective(Tail(s))
<1>1. Len(s) \in Nat \ {0} /\ DOMAIN s = 1..Len(s) /\ s \in [1..Len(s) -> S]
  BY LenProperties, EmptySeq
<1>2. Tail(s) \in Seq(S) /\ Len(Tail(s)) = Len(s) - 1 /\ Head(s) = s[1]
  OBVIOUS
<1>3. DOMAIN Tail(s) = 1..(Len(s) - 1)
  BY <1>2, LenProperties
<1>4. \A i \in 1..(Len(s) - 1) : Tail(s)[i] = s[i + 1]
  BY <1>1, <1>2
<1> DEFINE t == Tail(s)
<1> HIDE DEF t
<1>5. \A i \in 1..Len(s) : i # 1 => i - 1 \in 1..(Len(s) - 1) /\ s[i] = t[i - 1]
  <2> TAKE i \in 1..Len(s)
  <2> HAVE i # 1
  <2>1. i - 1 \in 1..(Len(s) - 1) /\ (i - 1) + 1 = i
    BY <1>1
  <2>2. QED
    BY <2>1, <1>4 DEF t
<1>6. \A i \in 1..(Len(s) - 1) : t[i] = s[i + 1] /\ i + 1 \in 1..Len(s) /\ i + 1 # 1
  BY <1>1, <1>4 DEF t
<1>7. DOMAIN t = 1..(Len(s) - 1)
  BY <1>3 DEF t
<1>8. 1 \in 1..Len(s)
  BY <1>1
<1>9. Range(s) = Range(t) \cup {s[1]}
  <2>1. ASSUME NEW i \in 1..Len(s) PROVE s[i] \in Range(t) \cup {s[1]}
    <3>1. CASE i = 1
      BY <3>1
    <3>2. CASE i # 1
      BY <3>2, <1>5, <1>7 DEF Range
    <3>3. QED
      BY <3>1, <3>2
  <2>2. ASSUME NEW i \in 1..(Len(s) - 1) PROVE t[i] \in Range(s)
    BY <1>1, <1>6 DEF Range
  <2>3. s[1] \in Range(s)
    BY <1>1, <1>8 DEF Range
  <2>4. QED
    BY <2>1, <2>2, <2>3, <1>1, <1>7 DEF Range
<1>10. s[1] \notin Range(t)
  <2>1. ASSUME NEW i \in 1..(Len(s) - 1) PROVE t[i] # s[1]
    BY <1>1, <1>6, <1>8 DEF IsInjective
  <2>2. QED
    BY <2>1, <1>7 DEF Range
<1>11. IsInjective(t)
  <2> SUFFICES ASSUME NEW a \in 1..(Len(s) - 1), NEW b \in 1..(Len(s) - 1), t[a] = t[b]
               PROVE  a = b
    BY <1>7 DEF IsInjective
  <2>1. a + 1 = b + 1
    BY <1>1, <1>6 DEF IsInjective
  <2>2. QED
    BY <2>1, <1>1
<1>12. QED
  BY <1>1, <1>2, <1>8, <1>9, <1>10, <1>11 DEF t

-----------------------------------------------------------------------------
(* The invariant holds when the constructor of FreeList has run.           *)
LEMMA PoolInitInv == Init => PoolInv
<1> SUFFICES ASSUME Init PROVE PoolInv
  OBVIOUS
<1>1. freelist \in Seq(Heap) /\ Len(freelist) = N /\ IsInjective(freelist)
  BY PoolAssumption DEF Init, Grown
<1>2. \A h \in Holders : ~Owns(h) /\ pc[h] = "idle"
  BY DEF Init, Owns
<1>3. Owned = {} /\ Busy = {}
  BY <1>2 DEF Owned, Busy
<1>4. PoolTypes
  BY <1>1, <1>2 DEF Init, TypeOK, PoolTypes, PCs
<1>5. Range(freelist) \subseteq Heap
  BY <1>1, LenProperties, Fun_RangeProperties
<1>6. Heap \ fresh = Range(freelist)
  BY <1>5 DEF Init
<1>7. Cardinality(Heap \ fresh) = N
  BY <1>1, <1>6, InjectiveLen
<1>8. Cardinality(Busy) <= N
  BY <1>3, FS_EmptySet, PoolAssumption
<1>9. QED
  BY <1>1, <1>2, <1>3, <1>4, <1>6, <1>7, <1>8
     DEF PoolInv, PoolIsCalm, Exclusive, Circulating, Init

(* Every step keeps the types, whatever happens to the list.               *)
LEMMA PoolNextTypes == ASSUME PoolTypes, [Next]_vars PROVE PoolTypes'
<1> USE DEF PoolTypes, TypeOK, PCs, Owns, Move
<1>1. ASSUME NEW h \in Holders, AquireCheck(h) PROVE PoolTypes'
  BY <1>1 DEF AquireCheck
<1>2. ASSUME NEW h \in Holders, AquireNew(h) PROVE PoolTypes'
  BY <1>2 DEF AquireNew
<1>3. ASSUME NEW h \in Holders, AquirePushNew(h) PROVE PoolTypes'
  BY <1>3, PushType DEF AquirePushNew
<1>4. ASSUME NEW h \in Holders, AquirePop(h) PROVE PoolTypes'
  <2>1. Head(freelist) \in Heap /\ Tail(freelist) \in Seq(Heap)
    BY <1>4, HeadTailProperties DEF AquirePop
  <2>2. QED
    BY <1>4, <2>1 DEF AquirePop
<1>5. ASSUME NEW h \in Holders, AquirePopNull(h) PROVE PoolTypes'
  BY <1>5 DEF AquirePopNull
<1>6. ASSUME NEW h \in Holders, ReleaseDestroy(h) PROVE PoolTypes'
  BY <1>6 DEF ReleaseDestroy
<1>7. ASSUME NEW h \in Holders, ReleasePush(h) PROVE PoolTypes'
  BY <1>7, PushType DEF ReleasePush
<1>8. CASE FreeBegin
  BY <1>8 DEF FreeBegin
<1>9. CASE FreePop
  <2>1. Head(freelist) \in Heap /\ Tail(freelist) \in Seq(Heap)
    BY <1>9, HeadTailProperties DEF FreePop
  <2>2. QED
    BY <1>9, <2>1 DEF FreePop
<1>10. CASE UNCHANGED vars
  BY <1>10 DEF vars
<1>11. QED
  BY <1>1, <1>2, <1>3, <1>4, <1>5, <1>6, <1>7, <1>8, <1>9, <1>10
     DEF Next, Aquire, Release

(* A holder that owns nothing leaves fewer than N objects to the others, so *)
(* a list that has not grown is not empty.                                 *)
LEMMA ListNotEmpty ==
  ASSUME PoolIsCalm, ~closed, NEW h \in Holders, ~Owns(h),
         Cardinality(Busy \cup {h}) <= N
  PROVE  freelist # <<>>
<1> SUFFICES ASSUME freelist = <<>> PROVE FALSE
  OBVIOUS
<1> DEFINE Owners == {g \in Holders : Owns(g)}
<1>1. IsFiniteSet(Holders) /\ N \in Nat
  BY PoolAssumption
<1>2. Range(freelist) = {}
  BY DEF Range
<1>3. /\ Owners \in SUBSET Holders /\ Busy \cup {h} \in SUBSET Holders
      /\ Owners \in SUBSET (Busy \cup {h}) /\ h \notin Owners
  BY DEF Busy, Owns
<1>4. /\ IsFiniteSet(Busy \cup {h}) /\ IsFiniteSet(Owners) /\ IsFiniteSet(Owners \cup {h})
      /\ Cardinality(Owners \cup {h}) = Cardinality(Owners) + 1
  BY <1>1, <1>3, FS_Subset, FS_AddElement
<1>5. Cardinality(Owners \cup {h}) <= Cardinality(Busy \cup {h})
  BY <1>3, <1>4, FS_Subset
<1> DEFINE f == [g \in Owners |-> obj[g]]
<1>6. f \in Surjection(Owners, Owned)
  BY DEF Surjection, Owned
<1>7. IsFiniteSet(Owned) /\ Cardinality(Owned) <= Cardinality(Owners)
  BY <1>4, <1>6, FS_Surjection
<1>8. Cardinality(Owned) = N
  BY <1>2 DEF PoolIsCalm, Circulating
<1>9. /\ Cardinality(Busy \cup {h}) \in Nat
      /\ Cardinality(Owners) \in Nat
  BY <1>4, FS_CardinalityType
<1>10. QED
  BY <1>1, <1>4, <1>5, <1>7, <1>8, <1>9

(* A holder about to give its object back finds room on the stack.         *)
LEMMA RoomToRelease ==
  ASSUME PoolTypes, PoolIsCalm, ~closed, NEW h \in Holders, pc[h] = "destroyed"
  PROVE  Len(freelist) < N
<1>1. Owns(h) /\ obj[h] \in Heap /\ obj[h] \in Owned
  BY DEF PoolTypes, PoolIsCalm, Owns, Owned
<1>2. freelist \in Seq(Heap) /\ IsInjective(freelist)
  BY DEF PoolTypes, PoolIsCalm, TypeOK, Exclusive
<1>3. IsFiniteSet(Range(freelist)) /\ Cardinality(Range(freelist)) = Len(freelist)
  BY <1>2, InjectiveLen
<1>4. obj[h] \notin Range(freelist)
  BY <1>1 DEF PoolTypes, PoolIsCalm, Exclusive
<1>5. /\ IsFiniteSet(Range(freelist) \cup {obj[h]})
      /\ Cardinality(Range(freelist) \cup {obj[h]}) = Len(freelist) + 1
  BY <1>3, <1>4, FS_AddElement
<1>6. IsFiniteSet(Heap \ fresh)
  BY PoolAssumption, FS_Subset
<1>7. Range(freelist) \cup {obj[h]} \in SUBSET (Heap \ fresh)
  BY <1>1 DEF PoolTypes, PoolIsCalm, Circulating
<1>8. Len(freelist) + 1 <= N
  BY <1>5, <1>6, <1>7, FS_Subset DEF PoolTypes, PoolIsCalm
<1>9. Len(freelist) \in Nat /\ N \in Nat
  BY <1>2, LenProperties, PoolAssumption
<1>10. QED
  BY <1>8, <1>9

(* A step that does not crowd the pool keeps it calm.                      *)
LEMMA PoolNextCalm ==
  ASSUME PoolTypes, PoolIsCalm, ~crowded', [Next]_vars, PoolTypes'
  PROVE  PoolIsCalm'
<1>1. ASSUME NEW h \in Holders, AquireCheck(h) PROVE PoolIsCalm'
  <2>1. Cardinality(Busy') <= N /\ Busy' = Busy \cup {h}
    <3>1. Busy' = Busy \cup {h}
      BY <1>1 DEF AquireCheck, Move, Busy, PoolTypes, TypeOK
    <3>2. IsFiniteSet(Busy') /\ N \in Nat
      BY PoolAssumption, FS_Subset DEF Busy
    <3>3. Cardinality(Busy') \in Nat
      BY <3>2, FS_CardinalityType
    <3>4. ~(Cardinality(Busy') > N)
      BY <1>1 DEF AquireCheck
    <3>5. QED
      BY <3>1, <3>2, <3>3, <3>4
  <2>2. freelist # <<>>
    <3>1. ~closed /\ ~Owns(h)
      BY <1>1 DEF AquireCheck, Move, Owns
    <3>2. QED
      BY <2>1, <3>1, ListNotEmpty
  <2>3. /\ pc[h] = "idle" /\ pc' = [pc EXCEPT ![h] = "pop"]
        /\ UNCHANGED <<freelist, fresh, obj, closed>> /\ ~closed
    BY <1>1, <2>2 DEF AquireCheck, Move
  <2>4. \A g \in Holders : Owns(g)' <=> Owns(g)
    BY <2>3 DEF Owns, PoolIsCalm, PoolTypes, TypeOK
  <2>5. Owned' = Owned
    BY <2>3, <2>4 DEF Owned
  <2>6. QED
    BY <2>1, <2>3, <2>4, <2>5 DEF PoolIsCalm, PoolTypes, TypeOK, PCs, Exclusive, Circulating
<1>2. ASSUME NEW h \in Holders, AquireNew(h) PROVE PoolIsCalm'
  BY <1>2 DEF AquireNew, Move, PoolIsCalm, PoolTypes
<1>3. ASSUME NEW h \in Holders, AquirePushNew(h) PROVE PoolIsCalm'
  BY <1>3 DEF AquirePushNew, Move, PoolIsCalm, PoolTypes
<1>4. ASSUME NEW h \in Holders, AquirePop(h) PROVE PoolIsCalm'
  <2> DEFINE o == Head(freelist)
  <2>1. /\ freelist # <<>> /\ freelist \in Seq(Heap) /\ IsInjective(freelist)
        /\ pc[h] = "pop" /\ pc' = [pc EXCEPT ![h] = "held"]
        /\ obj' = [obj EXCEPT ![h] = o] /\ freelist' = Tail(freelist)
        /\ UNCHANGED <<fresh, closed>> /\ ~closed
    BY <1>4 DEF AquirePop, Move, PoolIsCalm, PoolTypes, TypeOK, Exclusive
  <2>2. /\ o \in Heap /\ freelist' \in Seq(Heap)
        /\ Range(freelist) = Range(freelist') \cup {o}
        /\ o \notin Range(freelist') /\ IsInjective(freelist')
    BY <2>1, PopProps
  <2> HIDE DEF o
  <2>3. \A g \in Holders : Owns(g)' <=> Owns(g) \/ g = h
    BY <2>1 DEF Owns, PoolIsCalm, PoolTypes, TypeOK
  <2>4. \A g \in Holders : obj'[g] = IF g = h THEN o ELSE obj[g]
    BY <2>1 DEF PoolIsCalm, PoolTypes, TypeOK
  <2>5. ~Owns(h)
    BY <2>1 DEF Owns
  <2>6. Owned' = Owned \cup {o}
    BY <2>3, <2>4, <2>5 DEF Owned
  <2>7. o \notin Owned /\ \A g \in Holders : Owns(g) => obj[g] # o
    BY <2>2 DEF PoolIsCalm, PoolTypes, Exclusive, Owned
  <2>8. TypeOK'
    BY <2>1, <2>2 DEF PoolIsCalm, PoolTypes, TypeOK, PCs
  <2>9. Exclusive'
    BY <2>2, <2>3, <2>4, <2>6, <2>7 DEF PoolIsCalm, PoolTypes, Exclusive
  <2>10. Busy' = Busy
    BY <2>1 DEF Busy, PoolTypes, TypeOK
  <2>11. QED
    BY <2>1, <2>2, <2>3, <2>4, <2>6, <2>8, <2>9, <2>10
       DEF PoolIsCalm, PoolTypes, Circulating, TypeOK
<1>5. ASSUME NEW h \in Holders, AquirePopNull(h) PROVE PoolIsCalm'
  <2>1. ~Owns(h) /\ ~closed /\ freelist = <<>>
    BY <1>5 DEF AquirePopNull, Move, PoolIsCalm, PoolTypes, Owns
  <2>2. Busy \cup {h} = Busy
    BY <1>5 DEF AquirePopNull, Move, Busy
  <2>3. Cardinality(Busy \cup {h}) <= N
    BY <2>2 DEF PoolIsCalm
  <2>4. QED
    BY <2>1, <2>3, ListNotEmpty
<1>6. ASSUME NEW h \in Holders, ReleaseDestroy(h) PROVE PoolIsCalm'
  <2>1. /\ pc[h] = "held" /\ pc' = [pc EXCEPT ![h] = "destroyed"]
        /\ UNCHANGED <<freelist, fresh, obj, closed>> /\ ~closed
    BY <1>6 DEF ReleaseDestroy, Move, PoolIsCalm, PoolTypes
  <2>2. \A g \in Holders : Owns(g)' <=> Owns(g)
    BY <2>1 DEF Owns, PoolIsCalm, PoolTypes, TypeOK
  <2>3. Owned' = Owned
    BY <2>1, <2>2 DEF Owned
  <2>4. Busy' = Busy
    BY <2>1 DEF Busy, PoolTypes, TypeOK
  <2>5. QED
    BY <2>1, <2>2, <2>3, <2>4 DEF PoolIsCalm, PoolTypes, TypeOK, PCs, Exclusive, Circulating
<1>7. ASSUME NEW h \in Holders, ReleasePush(h) PROVE PoolIsCalm'
  <2> DEFINE o == obj[h]
  <2>1. /\ pc[h] = "destroyed" /\ pc' = [pc EXCEPT ![h] = "idle"]
        /\ freelist' = PushOn(freelist, o)
        /\ obj' = [obj EXCEPT ![h] = NoObj]
        /\ UNCHANGED <<fresh, closed>> /\ ~closed
        /\ freelist \in Seq(Heap) /\ IsInjective(freelist)
    BY <1>7 DEF ReleasePush, Move, PoolIsCalm, PoolTypes, TypeOK, Exclusive
  <2>2. Owns(h) /\ o \in Heap /\ o \in Owned /\ o \notin Range(freelist)
    BY <2>1 DEF Owns, Owned, PoolIsCalm, PoolTypes, Exclusive
  <2>3. Len(freelist) < N
    BY <2>1, RoomToRelease
  <2>4. /\ freelist' \in Seq(Heap) /\ IsInjective(freelist')
        /\ Range(freelist') = Range(freelist) \cup {o}
    BY <2>1, <2>2, <2>3, PushProps
  <2> HIDE DEF o
  <2>5. \A g \in Holders : Owns(g)' <=> Owns(g) /\ g # h
    BY <2>1 DEF Owns, PoolIsCalm, PoolTypes, TypeOK
  <2>6. \A g \in Holders : g # h => obj'[g] = obj[g]
    BY <2>1 DEF PoolIsCalm, PoolTypes, TypeOK
  <2>7. Owned' = Owned \ {o}
    <3>1. \A g \in Holders : Owns(g) /\ g # h => obj[g] # o
      BY <2>2 DEF PoolIsCalm, PoolTypes, Exclusive, o
    <3>2. obj[h] = o
      BY DEF o
    <3>3. QED
      BY <2>5, <2>6, <3>1, <3>2 DEF Owned
  <2>8. TypeOK'
    BY <2>1, <2>4 DEF PoolIsCalm, PoolTypes, TypeOK, PCs
  <2>9. Exclusive'
    BY <2>4, <2>5, <2>6, <2>7 DEF PoolIsCalm, PoolTypes, Exclusive
  <2>10. Circulating' = Circulating
    BY <2>2, <2>4, <2>7 DEF Circulating
  <2>11. Cardinality(Busy') <= N
    <3>1. Busy' \in SUBSET Busy /\ Busy \in SUBSET Holders
      BY <2>1 DEF Busy, PoolTypes, TypeOK
    <3>2. IsFiniteSet(Busy) /\ IsFiniteSet(Busy') /\ Cardinality(Busy') <= Cardinality(Busy)
      BY <3>1, PoolAssumption, FS_Subset
    <3>3. Cardinality(Busy) \in Nat /\ Cardinality(Busy') \in Nat /\ N \in Nat
      BY <3>2, FS_CardinalityType, PoolAssumption
    <3>4. QED
      BY <3>2, <3>3 DEF PoolIsCalm
  <2>12. QED
    BY <2>1, <2>5, <2>6, <2>8, <2>9, <2>10, <2>11 DEF PoolIsCalm, PoolTypes, TypeOK
<1>8. CASE FreeBegin
  <2>1. \A g \in Holders : Owns(g)' <=> Owns(g)
    BY <1>8 DEF FreeBegin, Owns
  <2>2. Owned' = Owned
    BY <1>8, <2>1 DEF FreeBegin, Owned
  <2>3. Busy' = Busy
    BY <1>8 DEF FreeBegin, Busy
  <2>4. QED
    BY <1>8, <2>1, <2>2, <2>3 DEF FreeBegin, PoolIsCalm, PoolTypes, TypeOK, Exclusive, Circulating
<1>9. CASE FreePop
  <2> DEFINE o == Head(freelist)
  <2>1. /\ freelist # <<>> /\ freelist \in Seq(Heap) /\ IsInjective(freelist)
        /\ freelist' = Tail(freelist) /\ fresh' = fresh \cup {o} /\ closed
        /\ UNCHANGED <<pc, obj, closed>>
    BY <1>9 DEF FreePop, PoolIsCalm, PoolTypes, TypeOK, Exclusive
  <2>2. /\ o \in Heap /\ freelist' \in Seq(Heap)
        /\ Range(freelist) = Range(freelist') \cup {o}
        /\ o \notin Range(freelist') /\ IsInjective(freelist')
    BY <2>1, PopProps
  <2> HIDE DEF o
  <2>3. \A g \in Holders : ~Owns(g) /\ ~Owns(g)'
    BY <2>1 DEF Owns, PoolIsCalm, PoolTypes
  <2>4. Owned = {} /\ Owned' = {}
    BY <2>3 DEF Owned
  <2>5. Busy' = Busy
    BY <2>1 DEF Busy
  <2>6. QED
    BY <2>1, <2>2, <2>3, <2>4, <2>5 DEF PoolIsCalm, PoolTypes, TypeOK, Exclusive, Circulating
<1>10. CASE UNCHANGED vars
  BY <1>10 DEF vars, PoolIsCalm, PoolTypes, TypeOK, Exclusive, Circulating, Owned, Owns, Busy
<1>11. QED
  BY <1>1, <1>2, <1>3, <1>4, <1>5, <1>6, <1>7, <1>8, <1>9, <1>10
     DEF Next, Aquire, Release

(* Every step keeps the inductive invariant.                               *)
LEMMA PoolNextInv == PoolInv /\ [Next]_vars => PoolInv'
<1> SUFFICES ASSUME PoolInv, [Next]_vars PROVE PoolInv'
  OBVIOUS
<1>1. PoolTypes'
  BY PoolNextTypes DEF PoolInv
<1>2. crowded => crowded'
  BY DEF PoolInv, PoolTypes, TypeOK, Next, Aquire, Release, AquireCheck, AquireNew,
         AquirePushNew, AquirePop, AquirePopNull, ReleaseDestroy, ReleasePush,
         FreeBegin, FreePop, vars
<1>3. ~crowded' => PoolIsCalm'
  BY <1>1, <1>2, PoolNextCalm DEF PoolInv
<1>4. QED
  BY <1>1, <1>3 DEF PoolInv

(* The inductive invariant holds in every state.                           *)
THEOREM PoolInvariant == Spec => []PoolInv
<1>1. QED
  BY PoolInitInv, PoolNextInv, PTL DEF Spec

(* Every variable keeps its type (the state of FreeList and of the threads *)
(* inside Aquire and Release), also in a pool that grew or crashed.        *)
THEOREM TypeCorrect == Spec => []TypeOK
<1>1. PoolInv => TypeOK
  BY DEF PoolInv, PoolTypes
<1>2. QED
  BY <1>1, PoolInvariant, PTL

(* While never more than N Tasks were in flight, no two of them share an   *)
(* object and none is on the free list, in any interleaving of any number  *)
(* of threads inside Aquire and Release.                                   *)
THEOREM UncrowdedPoolIsExclusive == Spec => []ExclusiveOwnership
<1>1. PoolInv => ExclusiveOwnership
  BY DEF PoolInv, PoolIsCalm, ExclusiveOwnership
<1>2. QED
  BY <1>1, PoolInvariant, PTL

(* The gap between empty() and pop() of Aquire is then harmless.           *)
THEOREM UncrowdedPoolHasNoNullTask == Spec => []NoNullTask
<1>1. PoolInv => NoNullTask
  BY DEF PoolInv, PoolIsCalm, NoNullTask
<1>2. QED
  BY <1>1, PoolInvariant, PTL

(* No object is lost, and Free gives every one back to the heap.           *)
THEOREM UncrowdedPoolLosesNothing == Spec => []NothingLost
<1>1. PoolInv => NothingLost
  <2> SUFFICES ASSUME PoolInv, ~crowded PROVE NothingLost
    BY DEF NothingLost
  <2>1. ASSUME closed, freelist = <<>> PROVE fresh = Heap
    <3>1. Owned = {}
      BY <2>1 DEF PoolInv, PoolIsCalm, Owned, Owns
    <3>2. Range(freelist) = {}
      BY <2>1 DEF Range
    <3>3. Heap \ fresh = {} /\ fresh \subseteq Heap
      BY <3>1, <3>2 DEF PoolInv, PoolIsCalm, PoolTypes, Circulating, TypeOK
    <3>4. QED
      BY <3>3
  <2>2. QED
    BY <2>1 DEF PoolInv, PoolIsCalm, NothingLost
<1>2. QED
  BY <1>1, PoolInvariant, PTL

-----------------------------------------------------------------------------
(* Sums over finite sets.                                                  *)
First(U) == CHOOSE x \in U : TRUE

(* g sums f over every subset of T, as SumFunctionOnSet does.              *)
IsSum(g, f, T) ==
  g = [U \in SUBSET T |-> IF U = {} THEN 0 ELSE f[First(U)] + g[U \ {First(U)}]]

(* There is only one such g.                                               *)
LEMMA SumsAgree ==
  ASSUME NEW f, NEW T, NEW V, NEW g, NEW h, IsFiniteSet(T), IsSum(g, f, T), IsSum(h, f, V)
  PROVE  \A U : U \subseteq T /\ U \subseteq V => g[U] = h[U]
<1>. DEFINE C == {W \in SUBSET T : W \subseteq V /\ g[W] # h[W]}
<1>. SUFFICES ASSUME C # {} PROVE FALSE
  OBVIOUS
<1>1. PICK W \in C : \A x \in W : W \ {x} \notin C
  BY SmallestSet
<1>2. \A X : X \subseteq T /\ X \subseteq V =>
        /\ g[X] = IF X = {} THEN 0 ELSE f[First(X)] + g[X \ {First(X)}]
        /\ h[X] = IF X = {} THEN 0 ELSE f[First(X)] + h[X \ {First(X)}]
  BY DEF IsSum
<1>3. W # {} /\ First(W) \in W
  BY <1>2 DEF First
<1>4. g[W \ {First(W)}] = h[W \ {First(W)}]
  BY <1>1, <1>3
<1>. HIDE DEF C
<1>5. W \subseteq T /\ W \subseteq V /\ g[W] # h[W]
  BY DEF C
<1>6. g[W] = f[First(W)] + g[W \ {First(W)}] /\ h[W] = f[First(W)] + h[W \ {First(W)}]
  BY <1>2, <1>3, <1>5
<1>. QED
  BY <1>4, <1>5, <1>6

(* And there is one.                                                       *)
LEMMA SumExists ==
  ASSUME NEW S, IsFiniteSet(S), NEW f, \A x \in S : f[x] \in Int
  PROVE  \E g \in [SUBSET S -> Int] : IsSum(g, f, S)
<1>. DEFINE pick == [U \in SUBSET S |-> First(U)]
            step == [a \in S \X Int |-> f[a[1]] + a[2]]
<1>1. \A U \in SUBSET S : U # {} => pick[U] \in U
  BY DEF First
<1>2. \A x \in S, v \in Int : step[<<x, v>>] = f[x] + v
  OBVIOUS
<1>. HIDE DEF step
<1>3. ASSUME NEW x \in S, NEW v \in Int PROVE step[<<x, v>>] \in Int
  <2>1. step[<<x, v>>] = f[x] + v /\ f[x] \in Int
    BY <1>2
  <2>. QED
    BY <2>1
<1>. HIDE DEF pick
<1>4. PICK g \in [SUBSET S -> Int] : IsFold(g, 0, pick, step, S)
  <2>1. 0 \in Int
    OBVIOUS
  <2>. QED
    BY <1>1, <1>3, <2>1, FoldExists
<1>5. ASSUME NEW U \in SUBSET S
      PROVE  g[U] = IF U = {} THEN 0 ELSE f[First(U)] + g[U \ {First(U)}]
  <2>1. CASE U = {}
    BY <1>4, <2>1 DEF IsFold
  <2>2. CASE U # {}
    <3>1. pick[U] = First(U) /\ First(U) \in S /\ g[U \ {First(U)}] \in Int
      BY <1>1, <2>2 DEF pick
    <3>2. g[U] = step[<<First(U), g[U \ {First(U)}]>>]
      BY <1>4, <2>2, <3>1 DEF IsFold
    <3>. QED
      BY <1>2, <2>2, <3>1, <3>2
  <2>. QED
    BY <2>1, <2>2
<1>6. g = [U \in SUBSET S |-> g[U]]
  OBVIOUS
<1>. QED
  BY <1>5, <1>6 DEF IsSum

(* So SumFunctionOnSet is that sum.                                        *)
LEMMA SumIsSum ==
  ASSUME NEW S, IsFiniteSet(S), NEW f, \A x \in S : f[x] \in Int
  PROVE  \E g \in [SUBSET S -> Int] : IsSum(g, f, S) /\ SumFunctionOnSet(f, S) = g[S]
<1>1. PICK g \in [SUBSET S -> Int] : IsSum(g, f, S)
  BY SumExists
<1>2. g = [s \in SUBSET S |-> IF s = {} THEN 0 ELSE LET x == CHOOSE x \in s : TRUE IN f[x] + g[s \ {x}]]
  BY <1>1 DEF IsSum, First
<1>. DEFINE h == CHOOSE h : h = [s \in SUBSET S |->
                    IF s = {} THEN 0 ELSE LET x == CHOOSE x \in s : TRUE IN f[x] + h[s \ {x}]]
<1>3. IsSum(h, f, S)
  <2>1. h = [s \in SUBSET S |-> IF s = {} THEN 0 ELSE LET x == CHOOSE x \in s : TRUE IN f[x] + h[s \ {x}]]
    BY <1>2
  <2>. HIDE DEF h
  <2>. QED
    BY <2>1 DEF IsSum, First
<1>4. SumFunctionOnSet(f, S) = h[S]
  BY DEF SumFunctionOnSet, FoldFunctionOnSet, MapThenFoldSet
<1>. HIDE DEF h
<1>5. h[S] = g[S]
  BY <1>1, <1>3, SumsAgree
<1>. QED
  BY <1>1, <1>4, <1>5

(* The sum over no element.                                                *)
LEMMA SumOfNone ==
  ASSUME NEW f
  PROVE  SumFunctionOnSet(f, {}) = 0
<1>1. IsFiniteSet({})
  BY FS_EmptySet
<1>2. PICK g \in [SUBSET {} -> Int] : IsSum(g, f, {}) /\ SumFunctionOnSet(f, {}) = g[{}]
  BY <1>1, SumIsSum
<1>. QED
  BY <1>2 DEF IsSum

(* An element adds its value.                                              *)
LEMMA SumOfMore ==
  ASSUME NEW S, IsFiniteSet(S), NEW f, \A x \in S : f[x] \in Int, NEW y \in S
  PROVE  /\ SumFunctionOnSet(f, S) \in Int /\ SumFunctionOnSet(f, S \ {y}) \in Int
         /\ SumFunctionOnSet(f, S) = SumFunctionOnSet(f, S \ {y}) + f[y]
<1>1. PICK g \in [SUBSET S -> Int] : IsSum(g, f, S) /\ SumFunctionOnSet(f, S) = g[S]
  BY SumIsSum
<1>2. IsFiniteSet(S \ {y}) /\ \A x \in S \ {y} : f[x] \in Int
  BY FS_RemoveElement
<1>3. PICK h \in [SUBSET (S \ {y}) -> Int] :
        IsSum(h, f, S \ {y}) /\ SumFunctionOnSet(f, S \ {y}) = h[S \ {y}]
  BY <1>2, SumIsSum
<1>4. h[S \ {y}] = g[S \ {y}]
  <2>1. S \ {y} \in SUBSET (S \ {y}) /\ S \ {y} \subseteq S
    OBVIOUS
  <2>. QED
    BY <1>1, <1>2, <1>3, <2>1, SumsAgree
<1>5. \A X \in SUBSET S : X # {} => First(X) \in X /\ g[X] = f[First(X)] + g[X \ {First(X)}]
  BY <1>1 DEF IsSum, First
<1>. DEFINE C == {U \in SUBSET S : \E x \in U : g[U] # g[U \ {x}] + f[x]}
<1>6. C = {}
  <2>. SUFFICES ASSUME C # {} PROVE FALSE
    OBVIOUS
  <2>1. PICK U \in C : \A x \in U : U \ {x} \notin C
    BY SmallestSet
  <2>2. PICK x \in U : g[U] # g[U \ {x}] + f[x]
    OBVIOUS
  <2>. DEFINE c == First(U)
  <2>3. /\ U \in SUBSET S /\ c \in U /\ g[U] = f[c] + g[U \ {c}]
        /\ f[c] \in Int /\ f[x] \in Int /\ g[U \ {c}] \in Int /\ g[U \ {x}] \in Int
    <3>1. U \in SUBSET S /\ U # {} /\ x \in S
      OBVIOUS
    <3>. HIDE DEF C
    <3>. QED
      BY <1>5, <3>1
  <2>. HIDE DEF c, C
  <2>4. x # c
    <3>. SUFFICES ASSUME x = c PROVE FALSE
      OBVIOUS
    <3>1. g[U] = f[x] + g[U \ {x}]
      BY <2>3
    <3>2. f[x] + g[U \ {x}] = g[U \ {x}] + f[x]
      BY <2>3
    <3>. QED
      BY <2>2, <3>1, <3>2
  <2>5. g[U \ {c}] = g[(U \ {c}) \ {x}] + f[x]
    <3>1. U \ {c} \notin C /\ x \in U \ {c} /\ U \ {c} \in SUBSET S
      BY <2>1, <2>3, <2>4
    <3>. QED
      BY <3>1 DEF C
  <2>6. g[U \ {x}] = g[(U \ {x}) \ {c}] + f[c]
    <3>1. U \ {x} \notin C /\ c \in U \ {x} /\ U \ {x} \in SUBSET S
      BY <2>1, <2>3, <2>4
    <3>. QED
      BY <3>1 DEF C
  <2>7. (U \ {c}) \ {x} = (U \ {x}) \ {c} /\ g[(U \ {x}) \ {c}] \in Int
    BY <2>3
  <2>8. f[c] + (g[(U \ {x}) \ {c}] + f[x]) = (g[(U \ {x}) \ {c}] + f[c]) + f[x]
    BY <2>3, <2>7
  <2>9. g[U] = f[c] + (g[(U \ {x}) \ {c}] + f[x])
    BY <2>3, <2>5, <2>7
  <2>. QED
    BY <2>2, <2>6, <2>8, <2>9
<1>7. g[S] = g[S \ {y}] + f[y] /\ g[S] \in Int /\ g[S \ {y}] \in Int
  BY <1>6
<1>. QED
  BY <1>1, <1>3, <1>4, <1>7

(* Only the values of the elements count.                                  *)
LEMMA SumOfSame ==
  ASSUME NEW S, IsFiniteSet(S), NEW f, NEW h, \A x \in S : f[x] \in Int /\ h[x] = f[x]
  PROVE  SumFunctionOnSet(f, S) = SumFunctionOnSet(h, S)
<1>1. PICK g \in [SUBSET S -> Int] : IsSum(g, f, S) /\ SumFunctionOnSet(f, S) = g[S]
  BY SumIsSum
<1>2. PICK k \in [SUBSET S -> Int] : IsSum(k, h, S) /\ SumFunctionOnSet(h, S) = k[S]
  <2>1. \A x \in S : h[x] \in Int
    OBVIOUS
  <2>. QED
    BY <2>1, SumIsSum
<1>3. IsSum(g, h, S)
  <2>1. \A U \in SUBSET S : U # {} => h[First(U)] = f[First(U)]
    BY DEF First
  <2>. QED
    BY <1>1, <2>1 DEF IsSum
<1>4. g[S] = k[S]
  <2>1. S \in SUBSET S
    OBVIOUS
  <2>. QED
    BY <1>2, <1>3, <2>1, SumsAgree
<1>. QED
  BY <1>1, <1>2, <1>4

(* The fields of the records, and the buckets they belong to.              *)
Nexts(f) == [i \in Infos |-> f[i].next]
Prevs(f) == [i \in Infos |-> f[i].prev]
Hashes(f) == [i \in Infos |-> GetHash(f[i].addr)]

(* The table: its buckets start lists of the records T, linked both ways   *)
(* behind the heads. The rank r grows along a list: no list ends in a ring.*)
Lists(T, r, nx, pv, hs, bk) ==
  /\ \A b \in Buckets : bk[b] # Null => bk[b] \in T /\ hs[bk[b]] = b
  /\ \A i \in T : nx[i] # Null =>
       /\ nx[i] \in T /\ pv[nx[i]] = i
       /\ hs[nx[i]] = hs[i] /\ nx[i] # bk[hs[i]]
  /\ \A j \in T : j # bk[hs[j]] =>
       pv[j] \in T /\ nx[pv[j]] = j /\ r[pv[j]] < r[j]

(* The free list: one list of the records F, which nothing links to twice. *)
FreeList(F, nx, head) ==
  /\ head # Null => head \in F
  /\ \A i \in F : nx[i] # Null => nx[i] \in F /\ nx[i] # head
  /\ \A i, j \in F : nx[i] = nx[j] /\ nx[i] # Null => i = j

(* A hash is a bucket.                                                     *)
LEMMA HashType ==
  ASSUME NEW a \in Nat
  PROVE  GetHash(a) \in Buckets
<1>. DEFINE d == a \div 16
<1>1. d \in Nat /\ TableSize \in Nat /\ TableSize > 0
  BY TrackAssumption
<1>. HIDE DEF d
<1>2. d % TableSize \in 0..(TableSize - 1)
  BY <1>1
<1>. QED
  BY <1>2 DEF d, GetHash, Buckets

(* Some record of a set has the least rank.                                *)
LEMMA LeastRank ==
  ASSUME NEW r \in [Infos -> Nat], NEW S \in SUBSET Infos, S # {}
  PROVE  \E i \in S : \A j \in S : r[i] <= r[j]
<1>. DEFINE Ranks == {r[i] : i \in S}
<1>1. Ranks \in SUBSET Nat /\ Ranks # {}
  OBVIOUS
<1>2. PICK n \in Ranks : \A k \in Ranks : n <= k
  <2>. HIDE DEF Ranks
  <2>. QED
    BY <1>1, SmallestOf
<1>. QED
  BY <1>2

(* Insert: a record in front of the list of its bucket. The others are one *)
(* further behind.                                                         *)
LEMMA ListsOfInsert ==
  ASSUME NEW T \in SUBSET Infos, NEW r \in [Infos -> Nat], NEW bk \in [Buckets -> Pointers],
         NEW nx \in [Infos -> Pointers], NEW pv \in [Infos -> Pointers], NEW hs \in [Infos -> Buckets],
         NEW nx2 \in [Infos -> Pointers], NEW pv2 \in [Infos -> Pointers],
         NEW x \in Infos \ T, NEW h, h = bk[hs[x]],
         Lists(T, r, nx, pv, hs, bk),
         nx2[x] = h, h # Null => pv2[h] = x,
         \A i \in Infos \ {x} : nx2[i] = nx[i],
         \A i \in Infos \ {h} : pv2[i] = pv[i],
         NEW r2, r2[x] = 0, \A i \in T : r2[i] = r[i] + 1,
         NEW bk2, bk2[hs[x]] = x, \A b \in Buckets : b # hs[x] => bk2[b] = bk[b]
  PROVE  Lists(T \cup {x}, r2, nx2, pv2, hs, bk2)
<1>. DEFINE T2 == T \cup {x}
<1>1. r2[x] = 0 /\ \A i \in T : r2[i] = r[i] + 1 /\ r[i] \in Nat
  OBVIOUS
<1>2. bk2[hs[x]] = x /\ \A b \in Buckets : b # hs[x] => bk2[b] = bk[b]
  OBVIOUS
<1>3. x \in T2 /\ x \notin T /\ T \subseteq T2 /\ \A i \in T2 : i = x \/ i \in T
  OBVIOUS
<1>4. Null \notin Infos /\ h \in Pointers /\ (h # Null => h \in T /\ hs[h] = hs[x])
  BY TrackAssumption DEF Lists, Pointers
<1>. HIDE DEF T2
<1>5. ASSUME NEW b \in Buckets, bk2[b] # Null PROVE bk2[b] \in T2 /\ hs[bk2[b]] = b
  BY <1>2, <1>3, <1>5 DEF Lists
<1>6. ASSUME NEW i \in T2, nx2[i] # Null
      PROVE  /\ nx2[i] \in T2 /\ pv2[nx2[i]] = i
             /\ hs[nx2[i]] = hs[i] /\ nx2[i] # bk2[hs[i]]
  <2>1. CASE i = x
    BY <1>2, <1>3, <1>4, <1>6, <2>1
  <2>2. CASE i \in T
    <3>1. nx2[i] = nx[i] /\ nx[i] \in T /\ pv[nx[i]] = i /\ hs[nx[i]] = hs[i] /\ nx[i] # bk[hs[i]]
      BY <1>3, <1>6, <2>2 DEF Lists
    <3>2. nx[i] # h
      BY <1>4, <3>1
    <3>3. pv2[nx[i]] = i
      BY <3>1, <3>2
    <3>. QED
      BY <1>2, <1>3, <3>1, <3>3, <2>2
  <2>. QED
    BY <1>3, <2>1, <2>2
<1>7. ASSUME NEW j \in T2, j # bk2[hs[j]]
      PROVE  pv2[j] \in T2 /\ nx2[pv2[j]] = j /\ r2[pv2[j]] < r2[j]
  <2>1. j \in T
    BY <1>2, <1>3, <1>7
  <2>2. CASE j = h
    <3>1. pv2[j] = x
      BY <1>4, <2>1, <2>2
    <3>. QED
      BY <1>1, <1>3, <2>1, <2>2, <3>1
  <2>3. CASE j # h
    <3>1. j # bk[hs[j]]
      BY <1>2, <1>7, <2>1, <2>3
    <3>2. pv2[j] = pv[j] /\ pv[j] \in T /\ nx[pv[j]] = j /\ r[pv[j]] < r[j]
      BY <2>1, <2>3, <3>1 DEF Lists
    <3>3. nx2[pv[j]] = j /\ r2[pv[j]] < r2[j]
      BY <1>1, <1>3, <2>1, <3>2
    <3>. QED
      BY <1>3, <3>2, <3>3
  <2>. QED
    BY <2>2, <2>3
<1>8. Lists(T2, r2, nx2, pv2, hs, bk2)
  BY <1>5, <1>6, <1>7, Zenon DEF Lists
<1>. QED
  BY <1>8 DEF T2

(* Remove of a head, which leaves the m_Prev of the new head alone.        *)
LEMMA ListsOfRemovedHead ==
  ASSUME NEW T \in SUBSET Infos, NEW r \in [Infos -> Nat], NEW bk \in [Buckets -> Pointers],
         NEW nx \in [Infos -> Pointers], NEW pv \in [Infos -> Pointers], NEW hs \in [Infos -> Buckets],
         NEW x \in T, x = bk[hs[x]], Lists(T, r, nx, pv, hs, bk)
  PROVE  Lists(T \ {x}, r, nx, pv, hs, [bk EXCEPT ![hs[x]] = nx[x]])
<1>. DEFINE bk2 == [bk EXCEPT ![hs[x]] = nx[x]]
            T2 == T \ {x}
<1>2. bk2[hs[x]] = nx[x] /\ \A b \in Buckets : b # hs[x] => bk2[b] = bk[b]
  OBVIOUS
<1>3. T2 \subseteq T /\ x \notin T2 /\ \A i \in T : i = x \/ i \in T2
  OBVIOUS
<1>4. Null \notin Infos /\ \A i \in T : nx[i] # x
  BY TrackAssumption DEF Lists
<1>. HIDE DEF bk2, T2
<1>5. ASSUME NEW b \in Buckets, bk2[b] # Null PROVE bk2[b] \in T2 /\ hs[bk2[b]] = b
  <2>1. CASE b = hs[x]
    BY <1>2, <1>3, <1>4, <1>5, <2>1 DEF Lists
  <2>2. CASE b # hs[x]
    <3>1. bk2[b] = bk[b] /\ bk[b] \in T /\ hs[bk[b]] = b
      BY <1>2, <1>5, <2>2 DEF Lists
    <3>. QED
      BY <1>3, <2>2, <3>1
  <2>. QED
    BY <2>1, <2>2
<1>6. ASSUME NEW i \in T2, nx[i] # Null
      PROVE  /\ nx[i] \in T2 /\ pv[nx[i]] = i
             /\ hs[nx[i]] = hs[i] /\ nx[i] # bk2[hs[i]]
  <2>1. i \in T /\ i # x /\ nx[i] \in T /\ pv[nx[i]] = i /\ hs[nx[i]] = hs[i] /\ nx[i] # bk[hs[i]]
    BY <1>3, <1>6 DEF Lists
  <2>2. nx[i] = nx[x] => pv[nx[i]] = x
    BY <1>6 DEF Lists
  <2>. QED
    BY <1>2, <1>3, <1>4, <2>1, <2>2
<1>7. ASSUME NEW j \in T2, j # bk2[hs[j]]
      PROVE  pv[j] \in T2 /\ nx[pv[j]] = j /\ r[pv[j]] < r[j]
  <2>1. j \in T /\ j # x
    BY <1>3
  <2>2. j # bk[hs[j]]
    BY <1>2, <1>7, <2>1
  <2>3. pv[j] \in T /\ nx[pv[j]] = j /\ r[pv[j]] < r[j]
    BY <2>1, <2>2 DEF Lists
  <2>4. pv[j] # x
    <3>1. SUFFICES ASSUME pv[j] = x PROVE FALSE
      OBVIOUS
    <3>2. nx[x] = j /\ hs[j] = hs[x]
      BY <1>4, <2>1, <2>3, <3>1 DEF Lists
    <3>. QED
      BY <1>2, <1>7, <3>2
  <2>. QED
    BY <1>3, <2>3, <2>4
<1>8. Lists(T2, r, nx, pv, hs, bk2)
  BY <1>5, <1>6, <1>7, Zenon DEF Lists
<1>. QED
  BY <1>8 DEF T2, bk2

(* Remove of a record behind the head.                                     *)
LEMMA ListsOfRelinked ==
  ASSUME NEW T \in SUBSET Infos, NEW r \in [Infos -> Nat], NEW bk \in [Buckets -> Pointers],
         NEW nx \in [Infos -> Pointers], NEW pv \in [Infos -> Pointers], NEW hs \in [Infos -> Buckets],
         NEW nx2 \in [Infos -> Pointers], NEW pv2 \in [Infos -> Pointers],
         NEW x \in T, x # bk[hs[x]], Lists(T, r, nx, pv, hs, bk),
         nx2[pv[x]] = nx[x], nx[x] # Null => pv2[nx[x]] = pv[x],
         \A i \in Infos \ {pv[x]} : nx2[i] = nx[i],
         \A i \in Infos \ {nx[x]} : pv2[i] = pv[i]
  PROVE  Lists(T \ {x}, r, nx2, pv2, hs, bk)
<1>. DEFINE T2 == T \ {x}
            p == pv[x]
            q == nx[x]
<1>1. T2 \subseteq T /\ x \notin T2 /\ \A i \in T : i = x \/ i \in T2
  OBVIOUS
<1>2. p \in T /\ nx[p] = x /\ r[p] < r[x] /\ r[p] \in Nat /\ r[x] \in Nat /\ hs[p] = hs[x]
  BY TrackAssumption DEF Lists
<1>3. q # Null => /\ q \in T /\ pv[q] = x /\ hs[q] = hs[x] /\ q # bk[hs[x]]
                  /\ r[x] < r[q] /\ r[q] \in Nat
  BY DEF Lists
<1>4. p # x /\ q # x /\ Null \notin Infos
  BY TrackAssumption, <1>2, <1>3
<1>5. /\ nx2[p] = q /\ (q # Null => pv2[q] = p)
      /\ \A i \in T : (i # p => nx2[i] = nx[i]) /\ (i # q => pv2[i] = pv[i])
  OBVIOUS
<1>. HIDE DEF T2, p, q
<1>6. ASSUME NEW b \in Buckets, bk[b] # Null PROVE bk[b] \in T2 /\ hs[bk[b]] = b
  BY <1>1, <1>6 DEF Lists
<1>7. ASSUME NEW i \in T2, nx2[i] # Null
      PROVE  /\ nx2[i] \in T2 /\ pv2[nx2[i]] = i
             /\ hs[nx2[i]] = hs[i] /\ nx2[i] # bk[hs[i]]
  <2>1. CASE i = p
    BY <1>1, <1>2, <1>3, <1>4, <1>5, <1>7, <2>1
  <2>2. CASE i # p
    <3>1. i \in T /\ i # x /\ nx2[i] = nx[i]
      BY <1>1, <1>5, <2>2
    <3>2. nx[i] \in T /\ pv[nx[i]] = i /\ hs[nx[i]] = hs[i] /\ nx[i] # bk[hs[i]]
      BY <1>7, <3>1 DEF Lists
    <3>3. nx[i] # x /\ nx[i] # q
      BY <1>3, <1>4, <2>2, <3>1, <3>2 DEF p
    <3>. QED
      BY <1>1, <1>5, <3>1, <3>2, <3>3
  <2>. QED
    BY <2>1, <2>2
<1>8. ASSUME NEW j \in T2, j # bk[hs[j]]
      PROVE  pv2[j] \in T2 /\ nx2[pv2[j]] = j /\ r[pv2[j]] < r[j]
  <2>1. j \in T /\ j # x
    BY <1>1
  <2>2. CASE j = q
    <3>1. q # Null
      BY <1>4, <2>1, <2>2
    <3>. QED
      BY <1>1, <1>2, <1>3, <1>4, <1>5, <2>2, <3>1
  <2>3. CASE j # q
    <3>1. pv2[j] = pv[j] /\ pv[j] \in T /\ nx[pv[j]] = j /\ r[pv[j]] < r[j]
      BY <1>5, <1>8, <2>1, <2>3 DEF Lists
    <3>2. pv[j] # x /\ pv[j] # p
      BY <1>2, <2>1, <2>3, <3>1 DEF q
    <3>. QED
      BY <1>1, <1>5, <3>1, <3>2
  <2>. QED
    BY <2>2, <2>3
<1>9. Lists(T2, r, nx2, pv2, hs, bk)
  BY <1>6, <1>7, <1>8, Zenon DEF Lists
<1>. QED
  BY <1>9 DEF T2

(* GetNextFreeInfo takes the head of the free list.                        *)
LEMMA FreeOfPop ==
  ASSUME NEW F, NEW nx, NEW head \in F, FreeList(F, nx, head), head # Null
  PROVE  FreeList(F \ {head}, nx, nx[head])
BY DEF FreeList

(* AddFreeInfo puts a record in front of it.                               *)
LEMMA FreeOfPush ==
  ASSUME NEW F \in SUBSET Infos, NEW nx, NEW nx2, NEW head \in Pointers, FreeList(F, nx, head),
         NEW x \in Infos \ F, nx2[x] = head, \A i \in F : nx2[i] = nx[i]
  PROVE  FreeList(F \cup {x}, nx2, x)
BY DEF FreeList

(* What a record is.                                                       *)
Records == [addr : Nat, size : Nat, next : Pointers, prev : Pointers]

(* The types of the tracker.                                               *)
TrackTypes ==
  /\ live \in SUBSET Addrs /\ blocks \in SUBSET live
  /\ tracking \in BOOLEAN /\ untracked \in BOOLEAN /\ cleared \in BOOLEAN
  /\ info \in [Infos -> [addr : Nat, size : Nat, next : Pointers, prev : Pointers]]
  /\ bucket \in [Buckets -> Pointers]
  /\ freeInfo \in Pointers /\ unused \in SUBSET Infos
  /\ allocatedSize \in Int /\ allocatedCount \in Int
  /\ at \in [Threads -> {"out", "info", "count", "check", "remove", "recycle"}]
  /\ ptr \in [Threads -> Nat]
  /\ rec \in [Threads -> Pointers]

(* The threads that are inside with a new block, and those that have a     *)
(* record in their hands.                                                  *)
Bringing == {t \in Threads : at[t] \in {"info", "count", "check"}}
Holding == {t \in Threads : at[t] \in {"count", "check", "recycle"}}

(* A block that is being recorded is out, and in nobody else's hands.      *)
BlocksApart ==
  /\ \A t \in Bringing : ptr[t] \in live \ blocks
  /\ \A t, u \in Bringing : ptr[t] = ptr[u] => t = u
  /\ ~tracking => Quiet

(* A record is in the table, free, not allocated or in the hands of one    *)
(* thread, which has given it the address of its block.                    *)
Apart(T, F) ==
  /\ T \cap F = {} /\ T \cap unused = {} /\ F \cap unused = {}
  /\ \A t \in Holding : rec[t] \in Infos /\ rec[t] \notin T \cup F \cup unused
  /\ \A t, u \in Holding : rec[t] = rec[u] => t = u
  /\ \A t \in Threads : at[t] = "check" => info[rec[t]].addr = ptr[t]

(* The counters are those of the records in the table and in hand.         *)
CountersFit(T) ==
  tracking /\ ~cleared =>
    /\ allocatedCount = Cardinality(InHand \cup T)
    /\ allocatedSize = SumFunctionOnSet([i \in Infos |-> info[i].size], InHand \cup T)

(* The records of an address, and the threads that have freed it and look  *)
(* for its record.                                                         *)
RecordsOf(T, a) == {i \in T : info[i].addr = a}
Removers(a) == {t \in Threads : at[t] = "remove" /\ ptr[t] = a}

(* An address has a record for the block that is out and one for every     *)
(* Remove that is still to come: it may have been given out again          *)
(* meanwhile.                                                              *)
Matched(T) ==
  tracking /\ ~untracked /\ ~cleared =>
    \A a \in Nat : Cardinality(RecordsOf(T, a)) =
                   Cardinality(Removers(a)) + (IF a \in blocks THEN 1 ELSE 0)

(* The invariant of a tracker with the table T and the free records F.     *)
TrackInv(T, F, r) ==
  /\ T \in SUBSET Infos /\ F \in SUBSET Infos /\ r \in [Infos -> Nat]
  /\ Lists(T, r, Nexts(info), Prevs(info), Hashes(info), bucket)
  /\ FreeList(F, Nexts(info), freeInfo)
  /\ Apart(T, F) /\ CountersFit(T) /\ Matched(T)

(* The inductive invariant of the tracker.                                 *)
TrackSound == TrackTypes /\ BlocksApart /\ \E T, F, r : TrackInv(T, F, r)

(* The types of the fields.                                                *)
LEMMA InfoTypes ==
  ASSUME TrackTypes
  PROVE  /\ Nexts(info) \in [Infos -> Pointers] /\ Prevs(info) \in [Infos -> Pointers]
         /\ Hashes(info) \in [Infos -> Buckets]
         /\ \A i \in Infos : /\ Nexts(info)[i] = info[i].next /\ Prevs(info)[i] = info[i].prev
                             /\ Hashes(info)[i] = GetHash(info[i].addr)
                             /\ info[i].addr \in Nat /\ info[i].size \in Nat
<1>1. \A i \in Infos : info[i].addr \in Nat /\ info[i].size \in Nat
                       /\ info[i].next \in Pointers /\ info[i].prev \in Pointers
  BY DEF TrackTypes
<1>2. \A i \in Infos : GetHash(info[i].addr) \in Buckets
  BY <1>1, HashType
<1>. QED
  BY <1>1, <1>2, Zenon DEF Nexts, Prevs, Hashes

(* A list holds the records of the table with the hash of its bucket.      *)
LEMMA ChainOfBucket ==
  ASSUME TrackTypes, NEW T, NEW F, NEW r, TrackInv(T, F, r), NEW b \in Buckets
  PROVE  Chain(bucket[b]) = {i \in T : GetHash(info[i].addr) = b}
<1>. DEFINE S == {i \in T : GetHash(info[i].addr) = b}
            Closed(C) == /\ bucket[b] \in C \cup {Null}
                         /\ \A j \in C : info[j].next \in C \cup {Null}
<1>1. /\ T \in SUBSET Infos /\ r \in [Infos -> Nat] /\ Null \notin Infos
      /\ Lists(T, r, Nexts(info), Prevs(info), Hashes(info), bucket)
  BY TrackAssumption DEF TrackInv
<1>2. \A i \in T : /\ Nexts(info)[i] = info[i].next /\ Prevs(info)[i] = info[i].prev
                   /\ Hashes(info)[i] = GetHash(info[i].addr)
  BY <1>1, InfoTypes
<1>3. \A i \in Infos : i \in Chain(bucket[b]) <=> \A C \in SUBSET Infos : Closed(C) => i \in C
  BY DEF Chain
<1>4. S \in SUBSET Infos /\ Closed(S)
  BY <1>1, <1>2 DEF Lists
<1>5. ASSUME NEW C \in SUBSET Infos, Closed(C) PROVE S \subseteq C
  <2>. SUFFICES ASSUME S \ C # {} PROVE FALSE
    OBVIOUS
  <2>1. PICK i \in S \ C : \A j \in S \ C : r[i] <= r[j]
    <3>1. S \ C \in SUBSET Infos
      BY <1>1
    <3>. QED
      BY <1>1, <3>1, LeastRank
  <2>2. i \in T /\ i \in Infos /\ i # Null /\ Hashes(info)[i] = b
    BY <1>1, <1>2
  <2>3. i # bucket[b]
    BY <1>5, <2>1, <2>2
  <2>. DEFINE p == Prevs(info)[i]
  <2>4. p \in T /\ Nexts(info)[p] = i /\ r[p] < r[i]
    BY <1>1, <2>2, <2>3 DEF Lists
  <2>5. Hashes(info)[p] = b
    BY <1>1, <2>2, <2>4 DEF Lists
  <2>6. p \in S /\ info[p].next = i
    BY <1>2, <2>4, <2>5
  <2>7. p \notin C
    BY <1>5, <2>1, <2>2, <2>6
  <2>8. r[i] \in Nat /\ r[p] \in Nat
    BY <1>1, <2>2, <2>4
  <2>. QED
    BY <2>1, <2>4, <2>6, <2>7, <2>8
<1>6. Chain(bucket[b]) \subseteq Infos
  BY DEF Chain
<1>. HIDE DEF S, Closed
<1>7. Chain(bucket[b]) = S
  BY <1>3, <1>4, <1>5, <1>6
<1>. QED
  BY <1>7 DEF S

(* So the lists hold the whole table.                                      *)
LEMMA TableIsRecorded ==
  ASSUME TrackTypes, NEW T, NEW F, NEW r, TrackInv(T, F, r)
  PROVE  Recorded = T
<1>1. \A b \in Buckets : Chain(bucket[b]) = {i \in T : GetHash(info[i].addr) = b}
  BY ChainOfBucket
<1>2. \A i \in T : GetHash(info[i].addr) \in Buckets
  BY InfoTypes, HashType DEF TrackInv
<1>. QED
  BY <1>1, <1>2 DEF Recorded

(* The records behind a record of the table have greater ranks.            *)
LEMMA ChainOfRecord ==
  ASSUME TrackTypes, NEW T, NEW F, NEW r, TrackInv(T, F, r), NEW i \in T
  PROVE  \A j \in Chain(i) : j = i \/ (j \in T /\ r[i] < r[j])
<1>. DEFINE S == {j \in T : j = i \/ r[i] < r[j]}
<1>1. /\ T \in SUBSET Infos /\ r \in [Infos -> Nat] /\ Null \notin Infos
      /\ Lists(T, r, Nexts(info), Prevs(info), Hashes(info), bucket)
  BY TrackAssumption DEF TrackInv
<1>2. \A j \in T : Nexts(info)[j] = info[j].next /\ r[j] \in Nat
  BY <1>1, InfoTypes
<1>3. ASSUME NEW j \in S PROVE info[j].next \in S \cup {Null}
  <2>1. CASE info[j].next = Null
    BY <2>1
  <2>2. CASE info[j].next # Null
    <3>1. info[j].next \in T /\ r[j] < r[info[j].next]
      BY <1>1, <1>2, <2>2 DEF Lists
    <3>. QED
      BY <1>2, <3>1
  <2>. QED
    BY <2>1, <2>2
<1>4. i \in S \cup {Null} /\ S \in SUBSET Infos
  BY <1>1
<1>5. Chain(i) \subseteq S
  <2>. HIDE DEF S
  <2>. QED
    BY <1>3, <1>4 DEF Chain
<1>. QED
  BY <1>5

(* The free list holds free records.                                       *)
LEMMA FreeChain ==
  ASSUME TrackTypes, NEW T, NEW F, NEW r, TrackInv(T, F, r)
  PROVE  Chain(freeInfo) \subseteq F
<1>1. F \in SUBSET Infos /\ FreeList(F, Nexts(info), freeInfo)
  BY DEF TrackInv
<1>2. \A j \in F : Nexts(info)[j] = info[j].next
  BY <1>1, InfoTypes
<1>3. freeInfo \in F \cup {Null} /\ \A j \in F : info[j].next \in F \cup {Null}
  BY <1>1, <1>2 DEF FreeList
<1>. QED
  BY <1>1, <1>3 DEF Chain

(* Remove finds a record with the address if the table has one.            *)
LEMMA FirstIsFound ==
  ASSUME TrackTypes, NEW T, NEW F, NEW r, TrackInv(T, F, r), NEW a \in Nat
  PROVE  LET found == FirstWith(bucket[GetHash(a)], a)
         IN IF RecordsOf(T, a) = {} THEN found = Null ELSE found \in RecordsOf(T, a)
<1>. DEFINE b == GetHash(a)
            found == FirstWith(bucket[b], a)
            with == {i \in Chain(bucket[b]) : info[i].addr = a}
<1>1. b \in Buckets
  BY HashType
<1>2. with = RecordsOf(T, a)
  BY <1>1, ChainOfBucket DEF RecordsOf
<1>3. CASE RecordsOf(T, a) = {}
  BY <1>2, <1>3 DEF FirstWith
<1>4. CASE RecordsOf(T, a) # {}
  <2>1. T \in SUBSET Infos /\ r \in [Infos -> Nat] /\ RecordsOf(T, a) \subseteq T
    BY DEF TrackInv, RecordsOf
  <2>2. PICK k \in RecordsOf(T, a) : \A j \in RecordsOf(T, a) : r[k] <= r[j]
    BY <1>4, <2>1, LeastRank
  <2>3. ASSUME NEW j \in RecordsOf(T, a), k \in Chain(j) PROVE k = j
    <3>1. j \in T /\ k \in T /\ r[k] \in Nat /\ r[j] \in Nat
      BY <2>1
    <3>2. k = j \/ r[j] < r[k]
      BY <2>3, <3>1, ChainOfRecord
    <3>. QED
      BY <2>2, <3>1, <3>2
  <2>4. found = CHOOSE i \in with : \A j \in with : i \in Chain(j) => i = j
    BY <1>2, <1>4 DEF FirstWith
  <2>5. \E i \in with : \A j \in with : i \in Chain(j) => i = j
    BY <1>2, <2>3
  <2>. HIDE DEF with, found
  <2>6. found \in with
    BY <2>4, <2>5
  <2>. QED
    BY <1>2, <1>4, <2>6 DEF found
<1>. QED
  BY <1>3, <1>4

(* The invariant implies RecordsAreAccounted.                              *)
LEMMA SoundIsAccounted ==
  ASSUME TrackSound
  PROVE  RecordsAreAccounted
<1>1. PICK T, F, r : TrackInv(T, F, r)
  BY DEF TrackSound
<1>2. TrackTypes /\ Recorded = T
  BY <1>1, TableIsRecorded DEF TrackSound
<1>3. \A i \in T : info[i].next # Null => info[info[i].next].prev = i
  <2>1. T \in SUBSET Infos /\ Lists(T, r, Nexts(info), Prevs(info), Hashes(info), bucket)
    BY <1>1 DEF TrackInv
  <2>2. \A i \in T : Nexts(info)[i] = info[i].next /\ Prevs(info)[i] = info[i].prev
    BY <1>2, <2>1, InfoTypes
  <2>. QED
    BY <2>1, <2>2 DEF Lists
<1>4. \A b, c \in Buckets : b # c => Chain(bucket[b]) \cap Chain(bucket[c]) = {}
  <2>1. \A b \in Buckets : Chain(bucket[b]) = {i \in T : GetHash(info[i].addr) = b}
    BY <1>1, <1>2, ChainOfBucket
  <2>. QED
    BY <2>1
<1>5. InHand \cap T = {} /\ (InHand \cup T) \cap (Chain(freeInfo) \cup unused) = {}
  <2>1. Chain(freeInfo) \subseteq F
    BY <1>1, <1>2, FreeChain
  <2>2. \A i \in InHand : i \notin T \cup F \cup unused
    BY <1>1 DEF TrackInv, Apart, InHand, Holding
  <2>. QED
    BY <1>1, <2>1, <2>2 DEF TrackInv, Apart
<1>6. CountersFit(T)
  BY <1>1 DEF TrackInv
<1>. QED
  BY <1>2, <1>3, <1>4, <1>5, <1>6 DEF RecordsAreAccounted, CountersFit

(* It implies EveryBlockIsRecorded: with nobody inside, no Remove is to    *)
(* come, and the records have the addresses of the blocks, each once.      *)
LEMMA SoundIsRecorded ==
  ASSUME TrackSound
  PROVE  EveryBlockIsRecorded
<1>. SUFFICES ASSUME tracking, Quiet, ~untracked, ~cleared
              PROVE  {info[i].addr : i \in Recorded} = blocks
                       /\ Cardinality(Recorded) = Cardinality(blocks)
  BY DEF EveryBlockIsRecorded
<1>1. PICK T, F, r : TrackInv(T, F, r)
  BY DEF TrackSound
<1>2. TrackTypes /\ Recorded = T /\ T \in SUBSET Infos /\ IsFiniteSet(T) /\ blocks \in SUBSET Nat
  <2>1. TrackTypes /\ Recorded = T /\ T \in SUBSET Infos
    BY <1>1, TableIsRecorded DEF TrackSound, TrackInv
  <2>. QED
    BY TrackAssumption, <2>1, FS_Subset DEF TrackTypes
<1>3. \A a \in Nat : Cardinality(RecordsOf(T, a)) = IF a \in blocks THEN 1 ELSE 0
  <2>1. \A a \in Nat : Removers(a) = {}
    BY DEF Removers, Quiet
  <2>2. Cardinality({}) = 0
    BY FS_EmptySet
  <2>3. Matched(T)
    BY <1>1 DEF TrackInv
  <2>4. \A a \in Nat : Cardinality(RecordsOf(T, a)) = 0 + (IF a \in blocks THEN 1 ELSE 0)
    BY <2>1, <2>2, <2>3 DEF Matched
  <2>. QED
    BY <2>4
<1>4. \A a \in Nat : a \notin blocks => RecordsOf(T, a) = {}
  <2>. SUFFICES ASSUME NEW a \in Nat, a \notin blocks PROVE RecordsOf(T, a) = {}
    OBVIOUS
  <2>1. IsFiniteSet(RecordsOf(T, a)) /\ Cardinality(RecordsOf(T, a)) = 0
    BY <1>2, <1>3, FS_Subset DEF RecordsOf
  <2>. QED
    BY <2>1, FS_EmptySet
<1>5. \A a \in blocks : \E i : RecordsOf(T, a) = {i}
  <2>. SUFFICES ASSUME NEW a \in blocks PROVE \E i : RecordsOf(T, a) = {i}
    OBVIOUS
  <2>1. IsFiniteSet(RecordsOf(T, a)) /\ Cardinality(RecordsOf(T, a)) = 1
    BY <1>2, <1>3, FS_Subset DEF RecordsOf
  <2>. QED
    BY <2>1, FS_Singleton
<1>. DEFINE g == [i \in T |-> info[i].addr]
<1>6. \A i \in T : info[i].addr \in Nat
  BY <1>2, InfoTypes
<1>7. \A i \in T : info[i].addr \in blocks
  BY <1>4, <1>6 DEF RecordsOf
<1>8. \A i, j \in T : info[i].addr = info[j].addr => i = j
  BY <1>5, <1>7 DEF RecordsOf
<1>9. \A a \in blocks : \E i \in T : info[i].addr = a
  BY <1>5 DEF RecordsOf
<1>10. g \in Bijection(T, blocks)
  BY <1>7, <1>8, <1>9 DEF Bijection, Injection, Surjection, IsInjective
<1>11. Cardinality(T) = Cardinality(blocks)
  BY <1>2, <1>10, FS_Bijection DEF ExistsBijection
<1>. QED
  BY <1>2, <1>7, <1>9, <1>11

(* It holds at first.                                                      *)
LEMMA SoundAtFirst ==
  ASSUME TrackInit
  PROVE  TrackSound
<1>. DEFINE r == [i \in Infos |-> 0]
<1>1. TrackTypes
  <2>1. Blank \in [addr : Nat, size : Nat, next : Pointers, prev : Pointers]
    BY DEF Blank, Pointers
  <2>2. Null \in Pointers
    BY DEF Pointers
  <2>3. /\ info \in [Infos -> [addr : Nat, size : Nat, next : Pointers, prev : Pointers]]
        /\ bucket \in [Buckets -> Pointers] /\ rec \in [Threads -> Pointers]
             /\ ptr \in [Threads -> Nat]
    BY <2>1, <2>2 DEF TrackInit
  <2>4. tracking \in BOOLEAN /\ untracked \in BOOLEAN /\ cleared \in BOOLEAN
    BY Zenon DEF TrackInit
  <2>5. at \in [Threads -> {"out", "info", "count", "check", "remove", "recycle"}]
    BY DEF TrackInit
  <2>. QED
    BY <2>2, <2>3, <2>4, <2>5 DEF TrackInit, TrackTypes
<1>2. BlocksApart
  BY DEF TrackInit, BlocksApart, Bringing, Quiet
<1>3. Lists({}, r, Nexts(info), Prevs(info), Hashes(info), bucket)
        /\ FreeList({}, Nexts(info), freeInfo)
  BY DEF TrackInit, Lists, FreeList
<1>4. Apart({}, {}) /\ CountersFit({}) /\ Matched({})
  BY DEF TrackInit, Apart, CountersFit, Matched, Holding
<1>5. {} \in SUBSET Infos /\ r \in [Infos -> Nat]
  OBVIOUS
<1>. HIDE DEF r
<1>6. TrackInv({}, {}, r)
  BY <1>3, <1>4, <1>5 DEF TrackInv
<1>. QED
  BY <1>1, <1>2, <1>6 DEF TrackSound

(* What the records say does not change with who holds blocks.             *)
LEMMA SameTable ==
  ASSUME NEW T, NEW F, NEW r, TrackInv(T, F, r), UNCHANGED tableVars, UNCHANGED rec, UNCHANGED counters,
         tracking' = tracking, cleared' = cleared,
         \A t \in Threads :
           /\ at'[t] \in {"count", "check", "recycle"} <=> at[t] \in {"count", "check", "recycle"}
           /\ at'[t] \in {"check", "recycle"} <=> at[t] \in {"check", "recycle"}
           /\ at'[t] = "check" => at[t] = "check" /\ ptr'[t] = ptr[t],
         Matched(T)'
  PROVE  TrackInv(T, F, r)'
<1>1. /\ T \in SUBSET Infos /\ F \in SUBSET Infos /\ r \in [Infos -> Nat]
      /\ Lists(T, r, Nexts(info), Prevs(info), Hashes(info), bucket)
      /\ FreeList(F, Nexts(info), freeInfo) /\ Apart(T, F) /\ CountersFit(T)
  BY DEF TrackInv
<1>2. info' = info /\ bucket' = bucket /\ freeInfo' = freeInfo /\ unused' = unused /\ rec' = rec
  BY DEF tableVars
<1>3. Lists(T, r, Nexts(info), Prevs(info), Hashes(info), bucket)'
        /\ FreeList(F, Nexts(info), freeInfo)'
  BY <1>1, <1>2 DEF Nexts, Prevs, Hashes, Lists, FreeList
<1>4. Apart(T, F)'
  BY <1>1, <1>2 DEF Apart, Holding
<1>5. InHand' = InHand
  BY <1>2 DEF InHand
<1>6. CountersFit(T)'
  BY <1>1, <1>2, <1>5 DEF CountersFit, counters
<1>. QED
  BY <1>1, <1>3, <1>4, <1>6 DEF TrackInv

(* Nothing happens.                                                        *)
LEMMA SoundAfterStutter ==
  ASSUME TrackSound, UNCHANGED trackVars
  PROVE  TrackSound'
<1>1. PICK T, F, r : TrackInv(T, F, r)
  BY DEF TrackSound
<1>2. /\ UNCHANGED <<live, blocks, tracking, info, bucket, freeInfo, unused>>
      /\ UNCHANGED <<allocatedSize, allocatedCount, at, ptr, rec, asserted, untracked, cleared>>
  BY DEF trackVars, tableVars, counters, threadVars, historyVars
<1>3. TrackTypes' /\ BlocksApart'
  BY <1>2 DEF TrackSound, TrackTypes, BlocksApart, Bringing, Quiet
<1>4. Matched(T)'
  BY <1>1, <1>2 DEF TrackInv, Matched, RecordsOf, Removers
<1>5. TrackInv(T, F, r)'
  BY <1>1, <1>2, <1>4, SameTable DEF tableVars, counters
<1>. QED
  BY <1>3, <1>5 DEF TrackSound

(* A thread brings a new block, or takes one past the tracker.             *)
LEMMA SoundAfterAllocate ==
  ASSUME TrackSound, NEW t \in Threads, NEW a \in Addrs, Allocate(t, a)
  PROVE  TrackSound'
<1>1. PICK T, F, r : TrackInv(T, F, r)
  BY DEF TrackSound
<1>2. TrackTypes /\ BlocksApart /\ a \in Nat
  BY TrackAssumption DEF TrackSound
<1>3. /\ a \notin live /\ live' = live \cup {a}
      /\ UNCHANGED <<tracking, info, bucket, freeInfo, unused, allocatedSize, allocatedCount>>
      /\ UNCHANGED <<rec, untracked, cleared>>
  BY DEF Allocate, Obtain, tableVars, counters, historyVars
<1>4. CASE tracking /\ Step(t, "out", "info") /\ ptr' = [ptr EXCEPT ![t] = a] /\ UNCHANGED blocks
  <2>1. at[t] = "out" /\ at' = [at EXCEPT ![t] = "info"] /\ blocks' = blocks
    BY <1>4 DEF Step
  <2>2. /\ at'[t] = "info" /\ ptr'[t] = a
        /\ \A u \in Threads : u # t => at'[u] = at[u] /\ ptr'[u] = ptr[u]
    BY <1>2, <1>4, <2>1 DEF TrackTypes
  <2>3. TrackTypes'
    BY <1>2, <1>3, <1>4, <2>1 DEF TrackTypes
  <2>4. BlocksApart'
    BY <1>2, <1>3, <1>4, <2>1, <2>2 DEF BlocksApart, Bringing, TrackTypes
  <2>5. Matched(T)'
    <3>1. \A d \in Nat : Removers(d)' = Removers(d) /\ RecordsOf(T, d)' = RecordsOf(T, d)
      BY <1>3, <2>1, <2>2 DEF Removers, RecordsOf
    <3>2. Matched(T)
      BY <1>1 DEF TrackInv
    <3>. QED
      BY <1>3, <2>1, <3>1, <3>2 DEF Matched
  <2>6. TrackInv(T, F, r)'
    <3>1. UNCHANGED tableVars /\ UNCHANGED counters
      BY <1>3 DEF tableVars, counters
    <3>. QED
      BY <1>1, <1>3, <2>1, <2>2, <2>5, <3>1, SameTable
  <2>. QED
    BY <2>3, <2>4, <2>6 DEF TrackSound
<1>5. CASE ~tracking /\ Step(t, "out", "out") /\ blocks' = blocks \cup {a} /\ UNCHANGED ptr
  <2>1. at' = at /\ ptr' = ptr /\ blocks' = blocks \cup {a} /\ ~tracking
    BY <1>2, <1>5 DEF Step, TrackTypes
  <2>2. TrackTypes'
    BY <1>2, <1>3, <2>1 DEF TrackTypes
  <2>3. BlocksApart'
    BY <1>2, <1>3, <2>1 DEF BlocksApart, Bringing, Quiet, TrackTypes
  <2>4. Matched(T)'
    BY <1>3, <2>1 DEF Matched
  <2>5. TrackInv(T, F, r)'
    <3>1. UNCHANGED tableVars /\ UNCHANGED counters
      BY <1>3 DEF tableVars, counters
    <3>. QED
      BY <1>1, <1>3, <2>1, <2>4, <3>1, SameTable
  <2>. QED
    BY <2>2, <2>3, <2>5 DEF TrackSound
<1>. QED
  BY <1>4, <1>5 DEF Allocate

(* Memory that the tracker does not see ends what it promises of blocks.   *)
LEMMA SoundAfterUntracked ==
  ASSUME TrackSound, NEW t \in Threads, NEW a \in Addrs, AllocateUntracked(t, a)
  PROVE  TrackSound'
<1>1. PICK T, F, r : TrackInv(T, F, r)
  BY DEF TrackSound
<1>2. TrackTypes /\ BlocksApart
  BY DEF TrackSound
<1>3. /\ a \notin live /\ live' = live \cup {a} /\ blocks' = blocks \cup {a}
      /\ untracked' = (untracked \/ tracking)
      /\ UNCHANGED <<tracking, info, bucket, freeInfo, unused, allocatedSize, allocatedCount>>
      /\ UNCHANGED <<at, ptr, rec, cleared>>
  BY DEF AllocateUntracked, Obtain, tableVars, counters, threadVars
<1>4. TrackTypes'
  BY <1>2, <1>3 DEF TrackTypes
<1>5. BlocksApart'
  BY <1>2, <1>3 DEF BlocksApart, Bringing, Quiet, TrackTypes
<1>6. Matched(T)'
  BY <1>3 DEF Matched
<1>7. TrackInv(T, F, r)'
  <2>1. UNCHANGED tableVars /\ UNCHANGED counters
    BY <1>3 DEF tableVars, counters
  <2>. QED
    BY <1>1, <1>3, <1>6, <2>1, SameTable
<1>. QED
  BY <1>4, <1>5, <1>7 DEF TrackSound

(* The check of Insert changes nothing.                                    *)
LEMMA SoundAfterCheck ==
  ASSUME TrackSound, NEW t \in Threads, CheckValid(t)
  PROVE  TrackSound'
<1>1. PICK T, F, r : TrackInv(T, F, r)
  BY DEF TrackSound
<1>2. /\ UNCHANGED <<live, blocks, tracking, info, bucket, freeInfo, unused>>
      /\ UNCHANGED <<allocatedSize, allocatedCount, at, ptr, rec, untracked, cleared>>
  BY DEF CheckValid, tableVars, counters
<1>3. TrackTypes' /\ BlocksApart'
  BY <1>2 DEF TrackSound, TrackTypes, BlocksApart, Bringing, Quiet
<1>4. Matched(T)'
  BY <1>1, <1>2 DEF TrackInv, Matched, RecordsOf, Removers
<1>5. TrackInv(T, F, r)'
  BY <1>1, <1>2, <1>4, SameTable DEF tableVars, counters
<1>. QED
  BY <1>3, <1>5 DEF TrackSound

(* The address is free for another block, and one more Remove is to come.  *)
LEMMA SoundAfterDeAllocate ==
  ASSUME TrackSound, NEW t \in Threads, NEW a \in Addrs, DeAllocate(t, a)
  PROVE  TrackSound'
<1>1. PICK T, F, r : TrackInv(T, F, r)
  BY DEF TrackSound
<1>2. TrackTypes /\ BlocksApart /\ a \in Nat
  BY TrackAssumption DEF TrackSound
<1>3. /\ a \in blocks /\ blocks' = blocks \ {a} /\ live' = live \ {a}
      /\ UNCHANGED <<tracking, info, bucket, freeInfo, unused, allocatedSize, allocatedCount>>
      /\ UNCHANGED <<rec, untracked, cleared>>
  BY DEF DeAllocate, GiveBack, tableVars, counters, historyVars
<1>4. UNCHANGED tableVars /\ UNCHANGED counters
  BY <1>3 DEF tableVars, counters
<1>5. CASE tracking
  <2>1. at[t] = "out" /\ at' = [at EXCEPT ![t] = "remove"] /\ ptr' = [ptr EXCEPT ![t] = a]
    BY <1>5 DEF Step, DeAllocate
  <2>2. /\ at'[t] = "remove" /\ ptr'[t] = a
        /\ \A u \in Threads : u # t => at'[u] = at[u] /\ ptr'[u] = ptr[u]
    BY <1>2, <2>1 DEF TrackTypes
  <2>3. TrackTypes'
    BY <1>2, <1>3, <2>1 DEF TrackTypes
  <2>4. BlocksApart'
    BY <1>2, <1>3, <1>5, <2>1, <2>2 DEF BlocksApart, Bringing, TrackTypes
  <2>5. Matched(T)'
    <3>1. \A d \in Nat : /\ RecordsOf(T, d)' = RecordsOf(T, d)
                         /\ d # a => Removers(d)' = Removers(d)
      BY <1>3, <2>1, <2>2 DEF Removers, RecordsOf
    <3>2. Removers(a)' = Removers(a) \cup {t} /\ t \notin Removers(a)
      BY <2>1, <2>2 DEF Removers
    <3>3. IsFiniteSet(Removers(a))
      BY TrackAssumption, FS_Subset DEF Removers
    <3>4. Cardinality(Removers(a)') = Cardinality(Removers(a)) + 1
            /\ Cardinality(Removers(a)) \in Nat
      BY <3>2, <3>3, FS_AddElement, FS_CardinalityType
    <3>5. Matched(T)
      BY <1>1 DEF TrackInv
    <3>6. SUFFICES ASSUME tracking, ~untracked, ~cleared, NEW d \in Nat
                   PROVE  Cardinality(RecordsOf(T, d)') = Cardinality(Removers(d)')
                            + (IF d \in blocks' THEN 1 ELSE 0)
      BY <1>3 DEF Matched
    <3>7. Cardinality(RecordsOf(T, d)) = Cardinality(Removers(d)) + (IF d \in blocks THEN 1 ELSE 0)
      BY <3>5, <3>6 DEF Matched
    <3>8. CASE d = a
      <4>1. d \in blocks /\ d \notin blocks'
        BY <1>3, <3>8
      <4>. QED
        BY <3>1, <3>4, <3>7, <3>8, <4>1
    <3>9. CASE d # a
      BY <1>3, <3>1, <3>7, <3>9
    <3>. QED
      BY <3>8, <3>9
  <2>6. TrackInv(T, F, r)'
    BY <1>1, <1>3, <1>4, <2>1, <2>2, <2>5, SameTable
  <2>. QED
    BY <2>3, <2>4, <2>6 DEF TrackSound
<1>6. CASE ~tracking
  <2>1. at' = at /\ ptr' = ptr
    BY <1>2, <1>6 DEF Step, DeAllocate, TrackTypes
  <2>2. TrackTypes'
    BY <1>2, <1>3, <2>1 DEF TrackTypes
  <2>3. BlocksApart'
    BY <1>2, <1>3, <1>6, <2>1 DEF BlocksApart, Bringing, Quiet, TrackTypes
  <2>4. Matched(T)'
    BY <1>3, <1>6 DEF Matched
  <2>5. TrackInv(T, F, r)'
    BY <1>1, <1>3, <1>4, <2>1, <2>4, SameTable
  <2>. QED
    BY <2>2, <2>3, <2>5 DEF TrackSound
<1>. QED
  BY <1>5, <1>6

(* Records that are not in a list do not matter for it.                    *)
LEMMA ListsFrame ==
  ASSUME NEW T, NEW r, NEW nx, NEW pv, NEW hs, NEW bk, NEW nx2, NEW pv2, NEW hs2,
         Lists(T, r, nx, pv, hs, bk),
         \A i \in T : nx2[i] = nx[i] /\ pv2[i] = pv[i] /\ hs2[i] = hs[i]
  PROVE  Lists(T, r, nx2, pv2, hs2, bk)
BY DEF Lists

(* Nor for the free list.                                                  *)
LEMMA FreeFrame ==
  ASSUME NEW F, NEW head, NEW nx, NEW nx2, FreeList(F, nx, head), \A i \in F : nx2[i] = nx[i]
  PROVE  FreeList(F, nx2, head)
BY DEF FreeList

(* What Insert changes.                                                    *)
LEMMA LinkedFields ==
  ASSUME TrackTypes, NEW x \in Infos, NEW h \in Pointers
  PROVE  /\ Linked(x, h) \in [Infos -> Records]
         /\ \A i \in Infos :
              /\ Linked(x, h)[i].addr = info[i].addr /\ Linked(x, h)[i].size = info[i].size
              /\ Linked(x, h)[i].next = IF i = x THEN h ELSE info[i].next
              /\ i # h => Linked(x, h)[i].prev = info[i].prev
         /\ h # Null => Linked(x, h)[h].prev = x
<1>1. info \in [Infos -> Records] /\ Null \in Pointers /\ x \in Pointers
  BY DEF TrackTypes, Records, Pointers
<1>2. CASE h = Null
  <2>1. Linked(x, h) = [info EXCEPT ![x].next = Null]
    BY <1>2 DEF Linked
  <2>2. Null \notin Infos
    BY TrackAssumption
  <2>. QED
    BY <1>1, <1>2, <2>1, <2>2 DEF Records
<1>3. CASE h # Null
  <2>1. Linked(x, h) = [info EXCEPT ![x].next = h, ![h].prev = x]
    BY <1>3 DEF Linked
  <2>2. h \in Infos
    BY <1>3 DEF Pointers
  <2>. DEFINE g == [info EXCEPT ![x].next = h]
  <2>3. /\ g \in [Infos -> Records] /\ g[x].next = h
        /\ \A i \in Infos : /\ g[i].addr = info[i].addr /\ g[i].size = info[i].size
                                 /\ g[i].prev = info[i].prev
                            /\ i # x => g[i].next = info[i].next
    BY <1>1 DEF Records
  <2>4. Linked(x, h) = [g EXCEPT ![h].prev = x]
    BY <2>1
  <2>. HIDE DEF g
  <2>. QED
    BY <1>1, <1>3, <2>2, <2>3, <2>4 DEF Records
<1>. QED
  BY <1>2, <1>3

(* A record is taken off the free list or from malloc, or there is none.   *)
LEMMA SoundAfterFree ==
  ASSUME TrackSound, NEW t \in Threads, GetNextFreeInfo(t)
  PROVE  TrackSound'
<1>1. PICK T, F, r : TrackInv(T, F, r)
  BY DEF TrackSound
<1>2. TrackTypes /\ BlocksApart
  BY DEF TrackSound
<1>3. /\ at[t] = "info"
      /\ UNCHANGED <<live, tracking, info, bucket, allocatedSize, allocatedCount, cleared>>
  BY DEF GetNextFreeInfo, counters
<1>4. /\ T \in SUBSET Infos /\ F \in SUBSET Infos /\ r \in [Infos -> Nat]
      /\ Lists(T, r, Nexts(info), Prevs(info), Hashes(info), bucket)
      /\ FreeList(F, Nexts(info), freeInfo) /\ Apart(T, F) /\ CountersFit(T) /\ Matched(T)
  BY <1>1 DEF TrackInv
<1>5. Lists(T, r, Nexts(info), Prevs(info), Hashes(info), bucket)'
  BY <1>3, <1>4 DEF Nexts, Prevs, Hashes, Lists
(* A record x is taken for the block.                                      *)
<1>6. ASSUME NEW x \in Infos, rec' = [rec EXCEPT ![t] = x],
             at' = [at EXCEPT ![t] = "count"], UNCHANGED <<blocks, untracked, ptr>>,
             freeInfo' \in Pointers, unused' \in SUBSET unused,
             NEW G \in SUBSET F, FreeList(G, Nexts(info), freeInfo'),
             x \notin T \cup G \cup unused', x \in F \cup unused
      PROVE  TrackSound'
  <2>1. /\ at'[t] = "count" /\ rec'[t] = x
        /\ \A u \in Threads : u # t => at'[u] = at[u] /\ rec'[u] = rec[u]
    BY <1>2, <1>6 DEF TrackTypes
  <2>2. TrackTypes'
    BY <1>2, <1>3, <1>6 DEF TrackTypes, Pointers
  <2>3. BlocksApart'
    BY <1>2, <1>3, <1>6, <2>1 DEF BlocksApart, Bringing, Quiet
  <2>4. FreeList(G, Nexts(info), freeInfo)'
    <3>1. Nexts(info') = Nexts(info) /\ freeInfo' \in Pointers
      BY <1>3, <1>6
    <3>2. FreeList(G, Nexts(info'), freeInfo')
      BY <1>6, <3>1, Zenon
    <3>. QED
      BY <3>2
  <2>5. Apart(T, G)'
    BY <1>3, <1>4, <1>6, <2>1 DEF Apart, Holding
  <2>6. CountersFit(T)'
    <3>1. InHand' = InHand
      BY <1>3, <2>1 DEF InHand
    <3>. QED
      BY <1>3, <1>4, <3>1 DEF CountersFit
  <2>7. Matched(T)'
    <3>1. \A d \in Nat : RecordsOf(T, d)' = RecordsOf(T, d) /\ Removers(d)' = Removers(d)
      BY <1>3, <1>6, <2>1 DEF RecordsOf, Removers
    <3>. QED
      BY <1>3, <1>4, <1>6, <3>1 DEF Matched
  <2>8. TrackInv(T, G, r)'
    BY <1>4, <1>5, <1>6, <2>4, <2>5, <2>6, <2>7 DEF TrackInv
  <2>. QED
    BY <2>2, <2>3, <2>8 DEF TrackSound
<1>7. CASE /\ freeInfo # Null /\ rec' = [rec EXCEPT ![t] = freeInfo]
           /\ freeInfo' = info[freeInfo].next
           /\ UNCHANGED <<unused, blocks, untracked, ptr>> /\ Step(t, "info", "count")
  <2>1. freeInfo \in F /\ freeInfo' = Nexts(info)[freeInfo] /\ freeInfo' \in Pointers
    BY <1>2, <1>4, <1>7, InfoTypes DEF FreeList
  <2>2. FreeList(F \ {freeInfo}, Nexts(info), freeInfo')
    BY <1>4, <1>7, <2>1, FreeOfPop
  <2>3. freeInfo \notin T \cup (F \ {freeInfo}) \cup unused' /\ unused' \in SUBSET unused
    BY <1>4, <1>7, <2>1 DEF Apart
  <2>4. at' = [at EXCEPT ![t] = "count"]
    BY <1>7 DEF Step
  <2>5. freeInfo \in Infos /\ F \ {freeInfo} \in SUBSET F
    BY <1>4, <2>1
  <2>. QED
    BY <1>6, <1>7, <2>1, <2>2, <2>3, <2>4, <2>5
<1>8. ASSUME NEW i \in unused, rec' = [rec EXCEPT ![t] = i], unused' = unused \ {i},
             UNCHANGED <<freeInfo, blocks, untracked, ptr>>, Step(t, "info", "count")
      PROVE  TrackSound'
  <2>1. i \in Infos /\ freeInfo' \in Pointers
    BY <1>2, <1>8 DEF TrackTypes
  <2>2. i \notin T \cup F \cup unused' /\ unused' \in SUBSET unused
    BY <1>4, <1>8 DEF Apart
  <2>3. at' = [at EXCEPT ![t] = "count"] /\ FreeList(F, Nexts(info), freeInfo')
    BY <1>4, <1>8 DEF Step
  <2>. QED
    BY <1>6, <1>8, <2>1, <2>2, <2>3
<1>9. CASE /\ blocks' = blocks \cup {ptr[t]} /\ untracked' = TRUE
           /\ ptr' = [ptr EXCEPT ![t] = 0]
           /\ UNCHANGED <<freeInfo, unused, rec>> /\ Step(t, "info", "out")
  <2>1. at' = [at EXCEPT ![t] = "out"]
    BY <1>9 DEF Step
  <2>2. /\ at'[t] = "out" /\ ptr'[t] = 0
        /\ \A u \in Threads : u # t => at'[u] = at[u] /\ ptr'[u] = ptr[u]
    BY <1>2, <1>9, <2>1 DEF TrackTypes
  <2>3. ptr[t] \in live
    BY <1>2, <1>3 DEF BlocksApart, Bringing
  <2>4. TrackTypes'
    BY <1>2, <1>3, <1>9, <2>1, <2>3 DEF TrackTypes
  <2>5. BlocksApart'
    BY <1>2, <1>3, <1>9, <2>2, <2>3 DEF BlocksApart, Bringing, Quiet
  <2>6. Matched(T)'
    BY <1>9 DEF Matched
  <2>7. TrackInv(T, F, r)'
    <3>1. UNCHANGED tableVars /\ UNCHANGED counters
      BY <1>3, <1>9 DEF tableVars, counters
    <3>. QED
      BY <1>1, <1>3, <1>9, <2>2, <2>6, <3>1, SameTable
  <2>. QED
    BY <2>4, <2>5, <2>7 DEF TrackSound
<1>. QED
  BY <1>7, <1>8, <1>9 DEF GetNextFreeInfo

(* The record is counted while it is in hand.                              *)
LEMMA SoundAfterFill ==
  ASSUME TrackSound, NEW t \in Threads, NEW size \in Sizes, FillInfo(t, size)
  PROVE  TrackSound'
<1>1. PICK T, F, r : TrackInv(T, F, r)
  BY DEF TrackSound
<1>2. TrackTypes /\ BlocksApart /\ size \in Nat
  BY TrackAssumption DEF TrackSound
<1>. DEFINE x == rec[t]
            filled == [addr |-> ptr[t], size |-> size, next |-> Null, prev |-> Null]
<1>3. /\ at[t] = "count" /\ at' = [at EXCEPT ![t] = "check"]
      /\ info' = [info EXCEPT ![x] = filled]
      /\ allocatedSize' = allocatedSize + size /\ allocatedCount' = allocatedCount + 1
      /\ UNCHANGED <<live, blocks, tracking, bucket, freeInfo, unused, ptr, rec, untracked, cleared>>
  BY DEF FillInfo, Step, historyVars
<1>4. /\ T \in SUBSET Infos /\ F \in SUBSET Infos /\ r \in [Infos -> Nat]
      /\ Lists(T, r, Nexts(info), Prevs(info), Hashes(info), bucket)
      /\ FreeList(F, Nexts(info), freeInfo) /\ Apart(T, F) /\ CountersFit(T) /\ Matched(T)
  BY <1>1 DEF TrackInv
<1>5. x \in Infos /\ x \notin T \cup F \cup unused
  BY <1>3, <1>4 DEF Apart, Holding
<1>6. filled \in Records /\ filled.addr = ptr[t] /\ filled.size = size
  BY <1>2 DEF TrackTypes, Records, Pointers
<1>. HIDE DEF filled, x
<1>7. /\ at'[t] = "check" /\ \A u \in Threads : u # t => at'[u] = at[u]
      /\ info'[x] = filled /\ \A i \in Infos : i # x => info'[i] = info[i]
      /\ info' \in [Infos -> Records]
  BY <1>2, <1>3, <1>5, <1>6 DEF TrackTypes, Records
<1>8. TrackTypes'
  BY <1>2, <1>3, <1>7 DEF TrackTypes, Records
<1>9. BlocksApart'
  BY <1>2, <1>3, <1>7 DEF BlocksApart, Bringing, Quiet
<1>10. Lists(T, r, Nexts(info), Prevs(info), Hashes(info), bucket)'
         /\ FreeList(F, Nexts(info), freeInfo)'
  <2>1. \A i \in T \cup F : /\ Nexts(info')[i] = Nexts(info)[i] /\ Prevs(info')[i] = Prevs(info)[i]
                            /\ Hashes(info')[i] = Hashes(info)[i]
    BY <1>4, <1>5, <1>7 DEF Nexts, Prevs, Hashes
  <2>2. Lists(T, r, Nexts(info'), Prevs(info'), Hashes(info'), bucket')
    <3>1. Lists(T, r, Nexts(info'), Prevs(info'), Hashes(info'), bucket)
      BY <1>4, <2>1, ListsFrame
    <3>. QED
      BY <1>3, <3>1
  <2>3. FreeList(F, Nexts(info'), freeInfo')
    <3>1. FreeList(F, Nexts(info'), freeInfo)
      BY <1>4, <2>1, FreeFrame
    <3>. QED
      BY <1>3, <3>1
  <2>. QED
    BY <2>2, <2>3
<1>11. Apart(T, F)'
  <2>1. Holding' = Holding /\ t \in Holding
    BY <1>3, <1>7 DEF Holding
  <2>2. \A u \in Threads : at'[u] = "check" => info'[rec'[u]].addr = ptr'[u]
    <3>1. info'[rec[t]].addr = ptr[t]
      BY <1>6, <1>7 DEF x
    <3>2. ASSUME NEW u \in Threads, u # t, at[u] = "check" PROVE info'[rec[u]].addr = ptr[u]
      <4>1. rec[u] # x /\ rec[u] \in Infos
        BY <1>4, <2>1, <3>2 DEF Apart, Holding, x
      <4>. QED
        BY <1>4, <1>7, <3>2, <4>1 DEF Apart
    <3>. QED
      BY <1>3, <1>7, <3>1, <3>2
  <2>. QED
    BY <1>3, <1>4, <2>1, <2>2 DEF Apart
<1>12. CountersFit(T)'
  <2>. DEFINE S == InHand \cup T
              f == [i \in Infos |-> info[i].size]
              g == [i \in Infos |-> info'[i].size]
  <2>1. InHand' = InHand \cup {x}
    BY <1>3, <1>7 DEF InHand, x
  <2>2. x \notin S /\ S \in SUBSET Infos
    BY <1>3, <1>4, <1>5 DEF Apart, Holding, InHand, x
  <2>3. IsFiniteSet(S) /\ IsFiniteSet(S \cup {x}) /\ Cardinality(S \cup {x}) = Cardinality(S) + 1
    BY TrackAssumption, <2>2, FS_Subset, FS_AddElement
  <2>4. \A i \in Infos : f[i] \in Nat /\ g[i] \in Nat /\ (i # x => g[i] = f[i])
    BY <1>2, <1>7, InfoTypes DEF Records
  <2>5. g[x] = size
    BY <1>5, <1>6, <1>7
  <2>. HIDE DEF S, f, g
  <2>6. SumFunctionOnSet(f, S) = SumFunctionOnSet(g, S)
    <3>1. \A i \in S : f[i] \in Int /\ g[i] = f[i]
      BY <2>2, <2>4
    <3>. QED
      BY <2>3, <3>1, SumOfSame
  <2>7. SumFunctionOnSet(g, S \cup {x}) = SumFunctionOnSet(g, S) + size
    <3>1. \A i \in S \cup {x} : g[i] \in Int
      BY <1>5, <2>2, <2>4
    <3>2. (S \cup {x}) \ {x} = S /\ x \in S \cup {x}
      BY <2>2
    <3>3. SumFunctionOnSet(g, S \cup {x}) = SumFunctionOnSet(g, (S \cup {x}) \ {x}) + g[x]
      BY <2>3, <3>1, <3>2, SumOfMore
    <3>. QED
      BY <2>5, <3>2, <3>3
  <2>8. (InHand \cup T)' = S \cup {x}
    BY <2>1 DEF S
  <2>9. tracking /\ ~cleared => allocatedCount = Cardinality(S)
          /\ allocatedSize = SumFunctionOnSet(f, S)
    BY <1>4 DEF CountersFit, S, f
  <2>10. [i \in Infos |-> info[i].size]' = g
    BY DEF g
  <2>11. tracking /\ ~cleared => /\ allocatedCount' = Cardinality(S \cup {x})
                                 /\ allocatedSize' = SumFunctionOnSet(g, S \cup {x})
    BY <1>3, <2>3, <2>6, <2>7, <2>9
  <2>. QED
    BY <1>3, <2>8, <2>10, <2>11 DEF CountersFit
<1>13. Matched(T)'
  <2>1. \A d \in Nat : RecordsOf(T, d)' = RecordsOf(T, d) /\ Removers(d)' = Removers(d)
    BY <1>3, <1>4, <1>5, <1>7 DEF RecordsOf, Removers
  <2>. QED
    BY <1>3, <1>4, <2>1 DEF Matched
<1>14. TrackInv(T, F, r)'
  BY <1>4, <1>10, <1>11, <1>12, <1>13 DEF TrackInv
<1>. QED
  BY <1>8, <1>9, <1>14 DEF TrackSound

(* The record goes from the hands of its thread into the table.            *)
LEMMA SoundAfterInsert ==
  ASSUME TrackSound, NEW t \in Threads, Insert(t)
  PROVE  TrackSound'
<1>1. PICK T, F, r : TrackInv(T, F, r)
  BY DEF TrackSound
<1>2. TrackTypes /\ BlocksApart
  BY DEF TrackSound
<1>0. PICK x, a, b, h : x = rec[t] /\ a = ptr[t] /\ b = GetHash(a) /\ h = bucket[b]
  OBVIOUS
<1>. DEFINE r2 == [i \in Infos |-> IF i = x THEN 0 ELSE r[i] + 1]
            T2 == T \cup {x}
<1>3. /\ at[t] = "check" /\ at' = [at EXCEPT ![t] = "out"]
      /\ info' = Linked(x, h) /\ bucket' = [bucket EXCEPT ![b] = x]
      /\ rec' = [rec EXCEPT ![t] = Null] /\ ptr' = [ptr EXCEPT ![t] = 0]
      /\ blocks' = blocks \cup {a}
      /\ UNCHANGED <<live, tracking, freeInfo, unused, allocatedSize, allocatedCount, untracked, cleared>>
  BY <1>0 DEF Insert, Step, historyVars, counters
<1>4. /\ T \in SUBSET Infos /\ F \in SUBSET Infos /\ r \in [Infos -> Nat]
      /\ Lists(T, r, Nexts(info), Prevs(info), Hashes(info), bucket)
      /\ FreeList(F, Nexts(info), freeInfo) /\ Apart(T, F) /\ CountersFit(T) /\ Matched(T)
  BY <1>1 DEF TrackInv
<1>5. x \in Infos /\ x \notin T \cup F \cup unused /\ info[x].addr = a
  BY <1>0, <1>3, <1>4 DEF Apart, Holding
<1>6. a \in Nat /\ a \in live /\ a \notin blocks /\ b \in Buckets /\ h \in Pointers
  <2>1. a \in Nat /\ a \in live /\ a \notin blocks
    BY <1>0, <1>2, <1>3 DEF TrackTypes, BlocksApart, Bringing
  <2>2. b \in Buckets
    BY <1>0, <2>1, HashType
  <2>. QED
    BY <1>0, <1>2, <2>1, <2>2 DEF TrackTypes
<1>. HIDE DEF r2, T2
<1>7. /\ info' \in [Infos -> Records]
      /\ \A i \in Infos : /\ info'[i].addr = info[i].addr /\ info'[i].size = info[i].size
                          /\ info'[i].next = IF i = x THEN h ELSE info[i].next
                          /\ i # h => info'[i].prev = info[i].prev
      /\ h # Null => info'[h].prev = x
  BY <1>2, <1>3, <1>5, <1>6, LinkedFields
<1>8. /\ at'[t] = "out" /\ \A u \in Threads : u # t => at'[u] = at[u] /\ rec'[u] = rec[u]
           /\ ptr'[u] = ptr[u]
  BY <1>2, <1>3 DEF TrackTypes
<1>9. TrackTypes'
  BY <1>2, <1>3, <1>5, <1>6, <1>7 DEF TrackTypes, Records, Pointers
<1>10. BlocksApart'
  BY <1>0, <1>2, <1>3, <1>6, <1>8 DEF BlocksApart, Bringing, Quiet
<1>11. T2 \in SUBSET Infos /\ r2 \in [Infos -> Nat]
  BY <1>4, <1>5 DEF T2, r2
<1>12. Lists(T2, r2, Nexts(info'), Prevs(info'), Hashes(info'), bucket')
  <2>1. /\ Nexts(info') \in [Infos -> Pointers] /\ Prevs(info') \in [Infos -> Pointers]
        /\ Hashes(info') = Hashes(info)
    BY <1>7 DEF Nexts, Prevs, Hashes, Records
  <2>2. Hashes(info)[x] = b /\ h = bucket[Hashes(info)[x]] /\ bucket \in [Buckets -> Pointers]
    BY <1>0, <1>2, <1>5 DEF Hashes, TrackTypes
  <2>3. /\ Nexts(info')[x] = h /\ (h # Null => Prevs(info')[h] = x)
        /\ \A i \in Infos \ {x} : Nexts(info')[i] = Nexts(info)[i]
        /\ \A i \in Infos \ {h} : Prevs(info')[i] = Prevs(info)[i]
    BY <1>5, <1>6, <1>7 DEF Nexts, Prevs, Pointers
  <2>4. /\ Nexts(info) \in [Infos -> Pointers] /\ Prevs(info) \in [Infos -> Pointers]
        /\ Hashes(info) \in [Infos -> Buckets] /\ x \in Infos \ T
    BY <1>2, <1>5, InfoTypes
  <2>5. Lists(T2, r2, Nexts(info'), Prevs(info'), Hashes(info), bucket')
    <3>1. PICK nx, pv, hs, bk, nx2, pv2 :
            /\ nx = Nexts(info) /\ pv = Prevs(info) /\ hs = Hashes(info) /\ bk = bucket
            /\ nx2 = Nexts(info') /\ pv2 = Prevs(info')
      OBVIOUS
    <3>2. Lists(T, r, nx, pv, hs, bk)
      BY <1>4, <3>1
    <3>3. /\ nx \in [Infos -> Pointers] /\ pv \in [Infos -> Pointers] /\ hs \in [Infos -> Buckets]
          /\ bk \in [Buckets -> Pointers] /\ x \in Infos \ T /\ h = bk[hs[x]]
          /\ nx2 \in [Infos -> Pointers] /\ pv2 \in [Infos -> Pointers]
      BY <2>1, <2>2, <2>4, <3>1
    <3>4. /\ nx2[x] = h /\ (h # Null => pv2[h] = x)
          /\ \A i \in Infos \ {x} : nx2[i] = nx[i]
          /\ \A i \in Infos \ {h} : pv2[i] = pv[i]
      BY <2>3, <3>1
    <3>5. PICK bk2 : bk2 = bucket'
      OBVIOUS
    <3>6. /\ r2[x] = 0 /\ \A i \in T : r2[i] = r[i] + 1
          /\ bk2[hs[x]] = x /\ \A d \in Buckets : d # hs[x] => bk2[d] = bk[d]
      BY <1>3, <1>4, <1>5, <1>6, <2>2, <3>1, <3>3, <3>5 DEF r2
    <3>7. Lists(T \cup {x}, r2, nx2, pv2, hs, bk2)
      BY <1>4, <3>2, <3>3, <3>4, <3>6, ListsOfInsert
    <3>. QED
      BY <3>1, <3>5, <3>7 DEF T2
  <2>. QED
    BY <2>1, <2>5
<1>13. FreeList(F, Nexts(info'), freeInfo')
  <2>1. \A i \in F : Nexts(info')[i] = Nexts(info)[i]
    BY <1>4, <1>5, <1>7 DEF Nexts
  <2>2. FreeList(F, Nexts(info'), freeInfo)
    BY <1>4, <2>1, FreeFrame
  <2>. QED
    BY <1>3, <2>2
<1>14. Apart(T2, F)'
  <2>1. \A u \in Holding' : u \in Holding /\ u # t
    BY <1>8 DEF Holding
  <2>2. t \in Holding
    BY <1>3 DEF Holding
  <2>3. \A u \in Holding' : rec'[u] = rec[u] /\ rec[u] # x /\ rec[u] \in Infos
          /\ rec[u] \notin T \cup F \cup unused
    BY <1>0, <1>4, <1>8, <2>1, <2>2 DEF Apart, Holding
  <2>4. \A u, v \in Holding' : rec'[u] = rec'[v] => u = v
    BY <1>4, <2>1, <2>3 DEF Apart
  <2>5. \A u \in Threads : at'[u] = "check" => info'[rec'[u]].addr = ptr'[u]
    BY <1>4, <1>7, <1>8, <2>3 DEF Apart, Holding
  <2>. QED
    BY <1>3, <1>4, <1>5, <2>3, <2>4, <2>5 DEF Apart, T2
<1>15. CountersFit(T2)'
  <2>1. InHand = InHand' \cup {x}
    BY <1>0, <1>3, <1>8 DEF InHand
  <2>2. (InHand \cup T2)' = InHand \cup T
    BY <2>1 DEF T2
  <2>3. [i \in Infos |-> info'[i].size] = [i \in Infos |-> info[i].size]
    BY <1>7
  <2>. QED
    BY <1>3, <1>4, <2>2, <2>3 DEF CountersFit
<1>16. Matched(T2)'
  <2>1. \A d \in Nat : Removers(d)' = Removers(d)
    BY <1>3, <1>8 DEF Removers
  <2>2. \A d \in Nat : d # a => RecordsOf(T2, d)' = RecordsOf(T, d)
    BY <1>4, <1>5, <1>7 DEF RecordsOf, T2
  <2>3. RecordsOf(T2, a)' = RecordsOf(T, a) \cup {x} /\ x \notin RecordsOf(T, a)
    BY <1>4, <1>5, <1>7 DEF RecordsOf, T2
  <2>4. IsFiniteSet(RecordsOf(T, a))
    BY TrackAssumption, <1>4, FS_Subset DEF RecordsOf
  <2>5. Cardinality(RecordsOf(T2, a)') = Cardinality(RecordsOf(T, a)) + 1
          /\ Cardinality(RecordsOf(T, a)) \in Nat
    BY <2>3, <2>4, FS_AddElement, FS_CardinalityType
  <2>6. SUFFICES ASSUME tracking, ~untracked, ~cleared, NEW d \in Nat
                 PROVE  Cardinality(RecordsOf(T2, d)') = Cardinality(Removers(d)')
                          + (IF d \in blocks' THEN 1 ELSE 0)
    BY <1>3 DEF Matched
  <2>7. Cardinality(RecordsOf(T, d)) = Cardinality(Removers(d)) + (IF d \in blocks THEN 1 ELSE 0)
    BY <1>4, <2>6 DEF Matched
  <2>8. CASE d = a
    <3>1. d \notin blocks /\ d \in blocks'
      BY <1>3, <1>6, <2>8
    <3>2. Cardinality(Removers(d)) \in Nat
      BY TrackAssumption, FS_Subset, FS_CardinalityType DEF Removers
    <3>. QED
      BY <2>1, <2>5, <2>7, <2>8, <3>1, <3>2
  <2>9. CASE d # a
    BY <1>3, <2>1, <2>2, <2>7, <2>9
  <2>. QED
    BY <2>8, <2>9
<1>17. TrackInv(T2, F, r2)'
  BY <1>4, <1>11, <1>12, <1>13, <1>14, <1>15, <1>16 DEF TrackInv
<1>. QED
  BY <1>9, <1>10, <1>17 DEF TrackSound

(* What Remove changes behind a head.                                      *)
LEMMA RelinkedFields ==
  ASSUME TrackTypes, NEW x \in Infos, info[x].prev \in Infos
  PROVE  /\ Relinked(x) \in [Infos -> Records]
         /\ \A i \in Infos :
              /\ Relinked(x)[i].addr = info[i].addr /\ Relinked(x)[i].size = info[i].size
              /\ Relinked(x)[i].next = IF i = info[x].prev THEN info[x].next ELSE info[i].next
              /\ i # info[x].next => Relinked(x)[i].prev = info[i].prev
         /\ info[x].next # Null => Relinked(x)[info[x].next].prev = info[x].prev
<1>. DEFINE p == info[x].prev
            q == info[x].next
            g == [info EXCEPT ![p].next = q]
<1>1. /\ info \in [Infos -> Records] /\ p \in Infos /\ q \in Pointers /\ p \in Pointers
      /\ p # Null /\ Null \notin Infos
  BY TrackAssumption DEF TrackTypes, Records, Pointers
<1>2. Relinked(x) = IF q = Null THEN g ELSE [g EXCEPT ![q].prev = p]
  BY <1>1 DEF Relinked
<1>. HIDE DEF p, q
<1>3. /\ g \in [Infos -> Records] /\ g[p].next = q
      /\ \A i \in Infos : /\ g[i].addr = info[i].addr /\ g[i].size = info[i].size
                               /\ g[i].prev = info[i].prev
                          /\ i # p => g[i].next = info[i].next
  BY <1>1 DEF Records
<1>. HIDE DEF g
<1>4. CASE q = Null
  BY <1>1, <1>2, <1>3, <1>4 DEF p, q
<1>5. CASE q # Null
  <2>1. q \in Infos /\ Relinked(x) = [g EXCEPT ![q].prev = p]
    BY <1>1, <1>2, <1>5 DEF Pointers
  <2>2. /\ Relinked(x) \in [Infos -> Records]
        /\ \A i \in Infos :
             /\ Relinked(x)[i].addr = g[i].addr /\ Relinked(x)[i].size = g[i].size
             /\ Relinked(x)[i].next = g[i].next
             /\ i # q => Relinked(x)[i].prev = g[i].prev
        /\ Relinked(x)[q].prev = p
    BY <1>1, <1>3, <2>1 DEF Records
  <2>. QED
    BY <1>3, <2>1, <2>2 DEF p, q
<1>. QED
  BY <1>4, <1>5

(* A record goes from the table into the hands of the thread, perhaps that *)
(* of another thread's block with the same address: the block keeps one.   *)
LEMMA SoundAfterRemove ==
  ASSUME TrackSound, NEW t \in Threads, RemoveRecord(t)
  PROVE  TrackSound'
<1>1. PICK T, F, r : TrackInv(T, F, r)
  BY DEF TrackSound
<1>2. TrackTypes /\ BlocksApart
  BY DEF TrackSound
<1>0. PICK a, b, x : a = ptr[t] /\ b = GetHash(a) /\ x = FirstWith(bucket[b], a)
  OBVIOUS
<1>. DEFINE T2 == T \ {x}
<1>3. /\ at[t] = "remove" /\ ptr' = [ptr EXCEPT ![t] = 0]
      /\ UNCHANGED <<live, blocks, tracking, freeInfo, unused, allocatedSize, allocatedCount, untracked, cleared>>
  BY DEF RemoveRecord, Step, historyVars, counters
<1>4. /\ T \in SUBSET Infos /\ F \in SUBSET Infos /\ r \in [Infos -> Nat]
      /\ Lists(T, r, Nexts(info), Prevs(info), Hashes(info), bucket)
      /\ FreeList(F, Nexts(info), freeInfo) /\ Apart(T, F) /\ CountersFit(T) /\ Matched(T)
  BY <1>1 DEF TrackInv
<1>5. a \in Nat /\ b \in Buckets
  BY <1>0, <1>2, HashType DEF TrackTypes
<1>6. IF RecordsOf(T, a) = {} THEN x = Null ELSE x \in RecordsOf(T, a)
  BY <1>0, <1>1, <1>2, <1>5, FirstIsFound
<1>7. \A d \in Nat : IsFiniteSet(Removers(d)) /\ IsFiniteSet(RecordsOf(T, d))
  BY TrackAssumption, <1>4, FS_Subset DEF RecordsOf, Removers
<1>8. t \in Removers(a)
  BY <1>0, <1>3 DEF Removers
<1>9. Cardinality(Removers(a) \ {t}) = Cardinality(Removers(a)) - 1
        /\ Cardinality(Removers(a)) \in Nat
      /\ Cardinality(Removers(a) \ {t}) \in Nat
  BY <1>5, <1>7, <1>8, FS_RemoveElement, FS_CardinalityType
<1>10. CASE x = Null /\ Step(t, "remove", "out") /\ UNCHANGED <<info, bucket, rec>>
  <2>1. at' = [at EXCEPT ![t] = "out"]
    BY <1>10 DEF Step
  <2>2. at'[t] = "out" /\ \A u \in Threads : u # t => at'[u] = at[u] /\ ptr'[u] = ptr[u]
    BY <1>2, <1>3, <2>1 DEF TrackTypes
  <2>3. TrackTypes'
    BY <1>2, <1>3, <1>10, <2>1 DEF TrackTypes
  <2>4. BlocksApart'
    BY <1>2, <1>3, <2>2 DEF BlocksApart, Bringing, Quiet
  <2>5. Matched(T)'
    <3>1. SUFFICES ASSUME tracking, ~untracked, ~cleared PROVE FALSE
      BY <1>3 DEF Matched
    <3>2. Cardinality(RecordsOf(T, a)) = Cardinality(Removers(a)) + (IF a \in blocks THEN 1 ELSE 0)
      BY <1>4, <1>5, <3>1 DEF Matched
    <3>3. RecordsOf(T, a) = {}
      <4>1. Null \notin RecordsOf(T, a)
        BY TrackAssumption, <1>4 DEF RecordsOf
      <4>. QED
        BY <1>6, <1>10, <4>1
    <3>4. Cardinality(RecordsOf(T, a)) = 0
      BY <3>3, FS_EmptySet
    <3>. QED
      BY <1>9, <3>2, <3>4
  <2>6. TrackInv(T, F, r)'
    <3>1. UNCHANGED tableVars /\ UNCHANGED counters
      BY <1>3, <1>10 DEF tableVars, counters
    <3>. QED
      BY <1>1, <1>3, <1>10, <2>2, <2>5, <3>1, SameTable
  <2>. QED
    BY <2>3, <2>4, <2>6 DEF TrackSound
(* The record x leaves the table.                                          *)
<1>11. ASSUME x # Null, Step(t, "remove", "recycle"), rec' = [rec EXCEPT ![t] = x],
              info' \in [Infos -> Records], bucket' \in [Buckets -> Pointers],
              \A i \in Infos : info'[i].addr = info[i].addr /\ info'[i].size = info[i].size,
              \A i \in F : info'[i].next = info[i].next,
              Lists(T2, r, Nexts(info'), Prevs(info'), Hashes(info'), bucket')
       PROVE  TrackSound'
  <2>1. at' = [at EXCEPT ![t] = "recycle"]
    BY <1>11 DEF Step
  <2>2. /\ at'[t] = "recycle" /\ rec'[t] = x
        /\ \A u \in Threads : u # t => at'[u] = at[u] /\ ptr'[u] = ptr[u] /\ rec'[u] = rec[u]
    BY <1>2, <1>3, <1>11, <2>1 DEF TrackTypes
  <2>3. x \in RecordsOf(T, a) /\ x \in T /\ info[x].addr = a /\ x \in Infos
    BY <1>4, <1>6, <1>11 DEF RecordsOf
  <2>4. TrackTypes'
    BY <1>2, <1>3, <1>11, <2>1, <2>3 DEF TrackTypes, Records, Pointers
  <2>5. BlocksApart'
    BY <1>2, <1>3, <2>2 DEF BlocksApart, Bringing, Quiet
  <2>6. FreeList(F, Nexts(info'), freeInfo')
    <3>1. \A i \in F : Nexts(info')[i] = Nexts(info)[i]
      BY <1>4, <1>11 DEF Nexts
    <3>2. FreeList(F, Nexts(info'), freeInfo)
      BY <1>4, <3>1, FreeFrame
    <3>. QED
      BY <1>3, <3>2
  <2>7. Apart(T2, F)'
    <3>1. Holding' = Holding \cup {t} /\ t \notin Holding
      BY <1>3, <2>2 DEF Holding
    <3>2. x \in T /\ x \notin F \cup unused \cup T2
      BY <1>4, <2>3 DEF Apart
    <3>3. \A u \in Holding : u # t /\ rec'[u] = rec[u] /\ rec[u] \in Infos
            /\ rec[u] \notin T \cup F \cup unused
      BY <1>4, <2>2, <3>1 DEF Apart, Holding
    <3>4. \A u \in Holding' : rec'[u] \in Infos /\ rec'[u] \notin T2 \cup F \cup unused
      BY <2>2, <2>3, <3>1, <3>2, <3>3
    <3>5. \A u, v \in Holding' : rec'[u] = rec'[v] => u = v
      BY <1>4, <2>2, <2>3, <3>1, <3>3 DEF Apart
    <3>6. \A u \in Threads : at'[u] = "check" => info'[rec'[u]].addr = ptr'[u]
      BY <1>4, <1>11, <2>2, <3>3 DEF Apart, Holding
    <3>. QED
      BY <1>3, <1>4, <3>4, <3>5, <3>6 DEF Apart
  <2>8. CountersFit(T2)'
    <3>1. InHand' = InHand \cup {x}
      BY <1>3, <2>2 DEF InHand
    <3>2. (InHand \cup T2)' = InHand \cup T
      BY <2>3, <3>1
    <3>3. [i \in Infos |-> info'[i].size] = [i \in Infos |-> info[i].size]
      BY <1>11
    <3>. QED
      BY <1>3, <1>4, <3>2, <3>3 DEF CountersFit
  <2>9. Matched(T2)'
    <3>1. \A d \in Nat : d # a => Removers(d)' = Removers(d) /\ RecordsOf(T2, d)' = RecordsOf(T, d)
      BY <1>0, <1>3, <1>4, <1>11, <2>2, <2>3 DEF Removers, RecordsOf
    <3>2. Removers(a)' = Removers(a) \ {t} /\ RecordsOf(T2, a)' = RecordsOf(T, a) \ {x}
      BY <1>0, <1>3, <1>4, <1>11, <2>2 DEF Removers, RecordsOf
    <3>3. Cardinality(RecordsOf(T, a) \ {x}) = Cardinality(RecordsOf(T, a)) - 1
            /\ Cardinality(RecordsOf(T, a)) \in Nat
      BY <1>5, <1>7, <2>3, FS_RemoveElement, FS_CardinalityType
    <3>4. SUFFICES ASSUME tracking, ~untracked, ~cleared, NEW d \in Nat
                   PROVE  Cardinality(RecordsOf(T2, d)') = Cardinality(Removers(d)')
                            + (IF d \in blocks' THEN 1 ELSE 0)
      BY <1>3 DEF Matched
    <3>5. Cardinality(RecordsOf(T, d)) = Cardinality(Removers(d)) + (IF d \in blocks THEN 1 ELSE 0)
      BY <1>4, <3>4 DEF Matched
    <3>. HIDE DEF T2
    <3>6. CASE d = a
      <4>1. Cardinality(RecordsOf(T2, d)') = Cardinality(RecordsOf(T, d)) - 1
        BY <3>2, <3>3, <3>6
      <4>2. Cardinality(Removers(d)') = Cardinality(Removers(d)) - 1
              /\ Cardinality(Removers(d)) \in Nat
        BY <1>9, <3>2, <3>6
      <4>. QED
        BY <1>3, <3>5, <4>1, <4>2
    <3>7. CASE d # a
      BY <1>3, <3>1, <3>5, <3>7
    <3>. QED
      BY <3>6, <3>7
  <2>10. TrackInv(T2, F, r)'
    BY <1>4, <1>11, <2>6, <2>7, <2>8, <2>9 DEF TrackInv
  <2>. QED
    BY <2>4, <2>5, <2>10 DEF TrackSound
<1>12. ASSUME x # Null
       PROVE  /\ x \in T /\ Hashes(info)[x] = b /\ Nexts(info)[x] = info[x].next
                   /\ Prevs(info)[x] = info[x].prev
              /\ info \in [Infos -> Records] /\ bucket \in [Buckets -> Pointers]
              /\ Nexts(info) \in [Infos -> Pointers] /\ Prevs(info) \in [Infos -> Pointers]
              /\ Hashes(info) \in [Infos -> Buckets]
  <2>1. x \in T /\ info[x].addr = a
    BY <1>6, <1>12 DEF RecordsOf
  <2>. QED
    BY <1>0, <1>2, <1>4, <2>1, InfoTypes DEF TrackTypes, Records
<1>13. CASE /\ x # Null /\ x = bucket[b] /\ Step(t, "remove", "recycle")
            /\ bucket' = [bucket EXCEPT ![b] = info[x].next]
            /\ rec' = [rec EXCEPT ![t] = x] /\ UNCHANGED info
  <2>1. Lists(T2, r, Nexts(info), Prevs(info), Hashes(info), bucket')
    <3>1. Lists(T2, r, Nexts(info), Prevs(info), Hashes(info), [bucket EXCEPT ![Hashes(info)[x]] = Nexts(info)[x]])
      <4>1. x = bucket[Hashes(info)[x]]
        BY <1>12, <1>13
      <4>. QED
        BY <1>4, <1>12, <1>13, <4>1, ListsOfRemovedHead
    <3>. QED
      BY <1>12, <1>13, <3>1
  <2>2. Lists(T2, r, Nexts(info'), Prevs(info'), Hashes(info'), bucket')
    BY <1>13, <2>1
  <2>3. bucket' \in [Buckets -> Pointers] /\ info' \in [Infos -> Records]
    <3>1. info[x].next \in Pointers
      BY <1>4, <1>12, <1>13 DEF Records
    <3>. QED
      BY <1>12, <1>13, <3>1
  <2>. QED
    BY <1>11, <1>13, <2>2, <2>3
<1>14. CASE /\ x # Null /\ x # bucket[b] /\ Step(t, "remove", "recycle")
            /\ info' = Relinked(x) /\ rec' = [rec EXCEPT ![t] = x] /\ UNCHANGED bucket
  <2>1. x \in Infos /\ x # bucket[Hashes(info)[x]]
    BY <1>4, <1>12, <1>14
  <2>2. info[x].prev \in Infos /\ info[x].prev \in T
    BY <1>4, <1>12, <1>14, <2>1 DEF Lists
  <2>3. /\ info' \in [Infos -> Records]
        /\ \A i \in Infos :
             /\ info'[i].addr = info[i].addr /\ info'[i].size = info[i].size
             /\ info'[i].next = IF i = info[x].prev THEN info[x].next ELSE info[i].next
             /\ i # info[x].next => info'[i].prev = info[i].prev
        /\ info[x].next # Null => info'[info[x].next].prev = info[x].prev
    BY <1>2, <1>14, <2>1, <2>2, RelinkedFields
  <2>4. Lists(T2, r, Nexts(info'), Prevs(info'), Hashes(info'), bucket')
    <3>. DEFINE p == Prevs(info)[x]
                q == Nexts(info)[x]
    <3>1. p = info[x].prev /\ q = info[x].next /\ q \in Pointers
      BY <1>12, <1>14, <2>1
    <3>2. /\ Nexts(info') \in [Infos -> Pointers] /\ Prevs(info') \in [Infos -> Pointers]
          /\ Hashes(info') = Hashes(info)
      BY <2>3 DEF Nexts, Prevs, Hashes, Records
    <3>3. /\ Nexts(info')[p] = q /\ (q # Null => Prevs(info')[q] = p)
          /\ \A i \in Infos \ {p} : Nexts(info')[i] = Nexts(info)[i]
          /\ \A i \in Infos \ {q} : Prevs(info')[i] = Prevs(info)[i]
      <4>. HIDE DEF p, q
      <4>. QED
        BY <2>2, <2>3, <3>1 DEF Nexts, Prevs, Pointers
    <3>4. Lists(T2, r, Nexts(info'), Prevs(info'), Hashes(info), bucket)
      BY <1>4, <1>12, <1>14, <2>1, <3>2, <3>3, ListsOfRelinked
    <3>. QED
      BY <1>14, <3>2, <3>4
  <2>5. \A i \in F : info'[i].next = info[i].next
    BY <1>4, <2>2, <2>3 DEF Apart
  <2>6. bucket' \in [Buckets -> Pointers]
    BY <1>12, <1>14
  <2>. QED
    BY <1>11, <1>14, <2>3, <2>4, <2>5, <2>6
<1>. QED
  BY <1>0, <1>10, <1>13, <1>14 DEF RemoveRecord

(* The record is counted no more, and free.                                *)
LEMMA SoundAfterRecycle ==
  ASSUME TrackSound, NEW t \in Threads, AddFreeInfo(t)
  PROVE  TrackSound'
<1>1. PICK T, F, r : TrackInv(T, F, r)
  BY DEF TrackSound
<1>2. TrackTypes /\ BlocksApart
  BY DEF TrackSound
<1>0. PICK x, kept, F2 :
        /\ x = rec[t] /\ F2 = F \cup {x}
        /\ kept = [addr |-> info[x].addr, size |-> 0, next |-> freeInfo, prev |-> Null]
  OBVIOUS
<1>3. /\ at[t] = "recycle" /\ at' = [at EXCEPT ![t] = "out"]
      /\ info' = [info EXCEPT ![x] = kept] /\ freeInfo' = x
      /\ rec' = [rec EXCEPT ![t] = Null]
      /\ allocatedSize' = allocatedSize - info[x].size /\ allocatedCount' = allocatedCount - 1
      /\ UNCHANGED <<live, blocks, tracking, bucket, unused, ptr, untracked, cleared>>
  BY <1>0 DEF AddFreeInfo, Step, historyVars
<1>4. /\ T \in SUBSET Infos /\ F \in SUBSET Infos /\ r \in [Infos -> Nat]
      /\ Lists(T, r, Nexts(info), Prevs(info), Hashes(info), bucket)
      /\ FreeList(F, Nexts(info), freeInfo) /\ Apart(T, F) /\ CountersFit(T) /\ Matched(T)
  BY <1>1 DEF TrackInv
<1>5. x \in Infos /\ x \notin T \cup F \cup unused
  BY <1>0, <1>3, <1>4 DEF Apart, Holding
<1>6. /\ kept \in Records /\ kept.addr = info[x].addr /\ kept.size = 0 /\ kept.next = freeInfo
      /\ freeInfo \in Pointers
  <2>1. info[x].addr \in Nat /\ freeInfo \in Pointers /\ Null \in Pointers
    BY <1>2, <1>5, InfoTypes DEF TrackTypes, Pointers
  <2>. QED
    BY <1>0, <2>1 DEF Records
<1>7. /\ at'[t] = "out" /\ \A u \in Threads : u # t => at'[u] = at[u] /\ rec'[u] = rec[u]
      /\ info'[x] = kept /\ \A i \in Infos : i # x => info'[i] = info[i]
      /\ info' \in [Infos -> Records]
  BY <1>2, <1>3, <1>5, <1>6 DEF TrackTypes, Records
<1>8. TrackTypes'
  <2>1. allocatedSize' \in Int /\ allocatedCount' \in Int
    BY <1>2, <1>3, <1>5, InfoTypes DEF TrackTypes
  <2>. QED
    BY <1>2, <1>3, <1>5, <1>7, <2>1 DEF TrackTypes, Records, Pointers
<1>9. BlocksApart'
  BY <1>2, <1>3, <1>7 DEF BlocksApart, Bringing, Quiet
<1>10. Lists(T, r, Nexts(info'), Prevs(info'), Hashes(info'), bucket')
  <2>1. \A i \in T : /\ Nexts(info')[i] = Nexts(info)[i] /\ Prevs(info')[i] = Prevs(info)[i]
                     /\ Hashes(info')[i] = Hashes(info)[i]
    BY <1>4, <1>5, <1>7 DEF Nexts, Prevs, Hashes
  <2>2. Lists(T, r, Nexts(info'), Prevs(info'), Hashes(info'), bucket)
    BY <1>4, <2>1, ListsFrame
  <2>. QED
    BY <1>3, <2>2
<1>11. FreeList(F2, Nexts(info'), freeInfo')
  <2>1. Nexts(info')[x] = freeInfo /\ \A i \in F : Nexts(info')[i] = Nexts(info)[i]
    BY <1>4, <1>5, <1>6, <1>7 DEF Nexts
  <2>2. x \in Infos \ F
    BY <1>5
  <2>3. FreeList(F \cup {x}, Nexts(info'), x)
    BY <1>4, <1>6, <2>1, <2>2, FreeOfPush
  <2>. QED
    BY <1>0, <1>3, <2>3
<1>12. Apart(T, F2)'
  <2>1. t \in Holding /\ \A u \in Holding' : u \in Holding /\ u # t
    BY <1>3, <1>7 DEF Holding
  <2>2. \A u \in Holding' : rec'[u] = rec[u] /\ rec[u] # x /\ rec[u] \in Infos
          /\ rec[u] \notin T \cup F \cup unused
    BY <1>0, <1>4, <1>7, <2>1 DEF Apart, Holding
  <2>3. \A u, v \in Holding' : rec'[u] = rec'[v] => u = v
    BY <1>4, <2>1, <2>2 DEF Apart
  <2>4. \A u \in Threads : at'[u] = "check" => info'[rec'[u]].addr = ptr'[u]
    BY <1>3, <1>4, <1>7, <2>2 DEF Apart, Holding
  <2>5. \A u \in Holding' : rec'[u] \in Infos /\ rec'[u] \notin T \cup F2 \cup unused
    BY <1>0, <2>2
  <2>6. T \cap F2 = {} /\ T \cap unused = {} /\ F2 \cap unused = {}
    BY <1>0, <1>4, <1>5 DEF Apart
  <2>. QED
    BY <1>3, <2>3, <2>4, <2>5, <2>6 DEF Apart
<1>13. CountersFit(T)'
  <2>. DEFINE S == InHand \cup T
              f == [i \in Infos |-> info[i].size]
              g == [i \in Infos |-> info'[i].size]
  <2>1. x \in InHand /\ InHand' = InHand \ {x}
    <3>1. \A u \in Threads : u # t /\ at[u] \in {"check", "recycle"} => rec[u] # x
      BY <1>0, <1>3, <1>4 DEF Apart, Holding
    <3>. QED
      BY <1>0, <1>3, <1>7, <3>1 DEF InHand
  <2>2. x \in S /\ S \in SUBSET Infos
    BY <1>0, <1>3, <1>4, <1>5, <2>1 DEF Apart, Holding, InHand
  <2>3. IsFiniteSet(S) /\ IsFiniteSet(S \ {x}) /\ Cardinality(S \ {x}) = Cardinality(S) - 1
    BY TrackAssumption, <2>2, FS_Subset, FS_RemoveElement
  <2>4. \A i \in Infos : f[i] \in Nat /\ (i # x => g[i] = f[i])
    BY <1>2, <1>7, InfoTypes
  <2>5. f[x] = info[x].size
    BY <1>5
  <2>6. (InHand \cup T)' = S \ {x}
    BY <1>5, <2>1
  <2>. HIDE DEF S, f, g
  <2>7. SumFunctionOnSet(f, S \ {x}) = SumFunctionOnSet(g, S \ {x})
    <3>1. \A i \in S \ {x} : f[i] \in Int /\ g[i] = f[i]
      BY <2>2, <2>4
    <3>. QED
      BY <2>3, <3>1, SumOfSame
  <2>8. /\ SumFunctionOnSet(f, S) \in Int /\ SumFunctionOnSet(f, S \ {x}) \in Int
        /\ SumFunctionOnSet(f, S) = SumFunctionOnSet(f, S \ {x}) + f[x]
    <3>1. \A i \in S : f[i] \in Int
      BY <2>2, <2>4
    <3>. QED
      BY <2>2, <2>3, <3>1, SumOfMore
  <2>9. f[x] \in Int
    BY <1>5, <2>4
  <2>10. tracking /\ ~cleared => allocatedCount = Cardinality(S)
           /\ allocatedSize = SumFunctionOnSet(f, S)
    BY <1>4 DEF CountersFit, S, f
  <2>11. [i \in Infos |-> info[i].size]' = g
    BY DEF g
  <2>12. tracking /\ ~cleared => /\ allocatedCount' = Cardinality(S \ {x})
                                 /\ allocatedSize' = SumFunctionOnSet(g, S \ {x})
    BY <1>3, <2>3, <2>5, <2>7, <2>8, <2>9, <2>10
  <2>. QED
    BY <1>3, <2>6, <2>11, <2>12 DEF CountersFit
<1>14. Matched(T)'
  <2>1. \A d \in Nat : RecordsOf(T, d)' = RecordsOf(T, d) /\ Removers(d)' = Removers(d)
    BY <1>3, <1>4, <1>5, <1>7 DEF RecordsOf, Removers
  <2>. QED
    BY <1>3, <1>4, <2>1 DEF Matched
<1>15. F2 \in SUBSET Infos
  BY <1>0, <1>4, <1>5
<1>16. TrackInv(T, F2, r)'
  BY <1>4, <1>10, <1>11, <1>12, <1>13, <1>14, <1>15 DEF TrackInv
<1>. QED
  BY <1>8, <1>9, <1>16 DEF TrackSound

(* The empty record is one.                                                *)
LEMMA BlankRecord == Blank \in Records
BY DEF Blank, Records, Pointers

(* A new tracker knows nothing.                                            *)
LEMMA SoundAfterSet ==
  ASSUME TrackSound, SetAllocator
  PROVE  TrackSound'
<1>1. PICK r : r \in [Infos -> Nat]
  BY DEF TrackSound, TrackInv
<1>2. TrackTypes /\ BlocksApart
  BY DEF TrackSound
<1>3. /\ Quiet /\ tracking' = ~tracking
      /\ untracked' = (untracked \/ (~tracking /\ live # {}))
      /\ bucket' = [b \in Buckets |-> Null] /\ freeInfo' = Null
      /\ allocatedSize' = 0 /\ allocatedCount' = 0 /\ cleared' = FALSE
      /\ info' = [i \in Infos |-> Blank]
      /\ UNCHANGED <<live, blocks, unused, at, ptr, rec>>
  BY DEF SetAllocator, threadVars
<1>4. TrackTypes'
  <2>1. info' \in [Infos -> Records] /\ bucket' \in [Buckets -> Pointers] /\ freeInfo' \in Pointers
    BY <1>3, BlankRecord DEF Pointers
  <2>2. tracking' \in BOOLEAN /\ untracked' \in BOOLEAN /\ cleared' \in BOOLEAN
    BY <1>2, <1>3, Zenon DEF TrackTypes
  <2>. QED
    BY <1>2, <1>3, <2>1, <2>2 DEF TrackTypes, Records
<1>5. BlocksApart'
  BY <1>2, <1>3 DEF BlocksApart, Bringing, Quiet
<1>6. Lists({}, r, Nexts(info'), Prevs(info'), Hashes(info'), bucket')
        /\ FreeList({}, Nexts(info'), freeInfo')
  BY <1>3 DEF Lists, FreeList
<1>7. Apart({}, {})'
  BY <1>3 DEF Apart, Holding, Quiet
<1>8. CountersFit({})'
  <2>1. (InHand \cup {})' = {}
    BY <1>3 DEF InHand, Quiet
  <2>2. Cardinality({}) = 0
    BY FS_EmptySet
  <2>3. SumFunctionOnSet([i \in Infos |-> info'[i].size], {}) = 0
    BY SumOfNone
  <2>. QED
    BY <1>3, <2>1, <2>2, <2>3 DEF CountersFit
<1>9. Matched({})'
  <2>1. SUFFICES ASSUME tracking', ~untracked', NEW d \in Nat
                 PROVE  Cardinality(RecordsOf({}, d)') = Cardinality(Removers(d)')
                          + (IF d \in blocks' THEN 1 ELSE 0)
    BY DEF Matched
  <2>2. RecordsOf({}, d)' = {} /\ Removers(d)' = {}
    BY <1>3 DEF RecordsOf, Removers, Quiet
  <2>3. blocks' = {}
    BY <1>2, <1>3, <2>1 DEF TrackTypes
  <2>4. Cardinality({}) = 0
    BY FS_EmptySet
  <2>5. Cardinality(RecordsOf({}, d)') = 0 /\ Cardinality(Removers(d)') = 0
    BY <2>2, <2>4
  <2>6. (IF d \in blocks' THEN 1 ELSE 0) = 0
    BY <2>3
  <2>. QED
    BY <2>5, <2>6
<1>10. TrackInv({}, {}, r)'
  <2>1. {} \in SUBSET Infos
    OBVIOUS
  <2>. QED
    BY <1>1, <1>6, <1>7, <1>8, <1>9, <2>1 DEF TrackInv
<1>. QED
  BY <1>4, <1>5, <1>10 DEF TrackSound

(* Clear empties the table.                                                *)
LEMMA SoundAfterShutDown ==
  ASSUME TrackSound, ShutDown
  PROVE  TrackSound'
<1>1. PICK T, F, r : TrackInv(T, F, r)
  BY DEF TrackSound
<1>2. TrackTypes /\ BlocksApart /\ Recorded = T
  BY <1>1, TableIsRecorded DEF TrackSound
<1>3. /\ Quiet /\ unused' = unused \cup T /\ bucket' = [b \in Buckets |-> Null]
      /\ cleared' = TRUE
      /\ info' = [i \in Infos |-> IF i \in T THEN Blank ELSE info[i]]
      /\ UNCHANGED <<live, blocks, tracking, freeInfo, allocatedSize, allocatedCount>>
      /\ UNCHANGED <<at, ptr, rec, untracked>>
  BY <1>2 DEF ShutDown, threadVars, counters
<1>4. /\ T \in SUBSET Infos /\ F \in SUBSET Infos /\ r \in [Infos -> Nat]
      /\ FreeList(F, Nexts(info), freeInfo) /\ Apart(T, F)
  BY <1>1 DEF TrackInv
<1>5. TrackTypes'
  <2>1. info' \in [Infos -> Records] /\ bucket' \in [Buckets -> Pointers]
          /\ unused' \in SUBSET Infos
    <3>1. info \in [Infos -> Records]
      BY <1>2 DEF TrackTypes, Records
    <3>2. unused' \in SUBSET Infos
      BY <1>2, <1>3, <1>4 DEF TrackTypes
    <3>. QED
      BY <1>3, <3>1, <3>2, BlankRecord DEF Pointers
  <2>. QED
    BY <1>2, <1>3, <2>1 DEF TrackTypes, Records
<1>6. BlocksApart'
  BY <1>2, <1>3 DEF BlocksApart, Bringing, Quiet
<1>7. Lists({}, r, Nexts(info'), Prevs(info'), Hashes(info'), bucket')
  BY <1>3 DEF Lists
<1>8. FreeList(F, Nexts(info'), freeInfo')
  <2>1. \A i \in F : Nexts(info')[i] = Nexts(info)[i]
    BY <1>3, <1>4 DEF Nexts, Apart
  <2>2. FreeList(F, Nexts(info'), freeInfo)
    BY <1>4, <2>1, FreeFrame
  <2>. QED
    BY <1>3, <2>2
<1>9. Apart({}, F)'
  BY <1>3, <1>4 DEF Apart, Holding, Quiet
<1>10. CountersFit({})' /\ Matched({})'
  BY <1>3 DEF CountersFit, Matched
<1>11. TrackInv({}, F, r)'
  <2>1. {} \in SUBSET Infos
    OBVIOUS
  <2>. QED
    BY <1>4, <1>7, <1>8, <1>9, <1>10, <2>1 DEF TrackInv
<1>. QED
  BY <1>5, <1>6, <1>11 DEF TrackSound

(* The inductive invariant holds in every state of the tracker.            *)
THEOREM TrackerIsSound == TrackSpec => []TrackSound
<1>1. TrackInit => TrackSound
  BY SoundAtFirst
<1>2. TrackSound /\ [TrackNext]_trackVars => TrackSound'
  <2>. SUFFICES ASSUME TrackSound, [TrackNext]_trackVars PROVE TrackSound'
    OBVIOUS
  <2>1. ASSUME NEW t \in Threads, Track(t) PROVE TrackSound'
    BY <2>1, SoundAfterAllocate, SoundAfterUntracked, SoundAfterFree, SoundAfterFill,
       SoundAfterCheck, SoundAfterInsert, SoundAfterDeAllocate, SoundAfterRemove,
       SoundAfterRecycle DEF Track
  <2>2. CASE SetAllocator
    BY <2>2, SoundAfterSet
  <2>3. CASE ShutDown
    BY <2>3, SoundAfterShutDown
  <2>4. CASE UNCHANGED trackVars
    BY <2>4, SoundAfterStutter
  <2>. QED
    BY <2>1, <2>2, <2>3, <2>4 DEF TrackNext
<1>. QED
  BY <1>1, <1>2, PTL DEF TrackSpec

(* Whatever threads do at once inside the tracker, a record is at one      *)
(* place, the lists stay linked, and the counters of the tracker are those *)
(* of its records (MemTrackAllocator::Allocate, DeAllocate,                *)
(* AllocHashTable::Insert and Remove), for any number of threads, addresses*)
(* and records and any table size.                                         *)
THEOREM RecordsStayAccounted == TrackSpec => []RecordsAreAccounted
<1>1. TrackSound => RecordsAreAccounted
  BY SoundIsAccounted
<1>. QED
  BY <1>1, TrackerIsSound, PTL

(* When nobody is inside the tracker, and it has met no memory it has no   *)
(* record of, the blocks that are out have one record each and there is no *)
(* other, although DeAllocate frees memory before Remove looks for its     *)
(* record.                                                                 *)
THEOREM BlocksStayRecorded == TrackSpec => []EveryBlockIsRecorded
<1>1. TrackSound => EveryBlockIsRecorded
  BY SoundIsRecorded
<1>. QED
  BY <1>1, TrackerIsSound, PTL

-----------------------------------------------------------------------------
(* The stream and its reader: the cursor is at most one byte behind the    *)
(* end, and not before where the reader began.                             *)
ReaderInv ==
  /\ stream \in [data : Seq(Nat), pos : Nat]
  /\ from \in Nat /\ from <= stream.pos
  /\ NoByteLost

(* What the reader need not be given: the end of a line, or of the part of *)
(* it that was asked for.                                                  *)
EndsLine(data, i, cut) ==
  \/ data[i + 1] \in {LF, NUL} \/ i \in cut
  \/ data[i + 1] = CR /\ (i + 1 = Len(data) \/ data[i + 2] \in {LF, NUL} \/ i + 1 \in cut)

(* Span is the distance to the first delimiter, NUL or the end.            *)
LEMMA SpanEnds ==
  ASSUME NEW s \in [data : Seq(Nat), pos : Nat], NEW delim, s.pos < Size(s)
  PROVE  /\ Span(s, delim) \in 0..(Size(s) - s.pos)
         /\ s.pos + Span(s, delim) < Size(s) =>
              s.data[s.pos + Span(s, delim) + 1] \in delim \cup {NUL}
<1>. DEFINE S == {i \in s.pos..(Size(s) - 1) : s.data[i + 1] \in delim \cup {NUL}} \cup {Size(s)}
<1>1. Size(s) \in Nat /\ s.pos \in Nat
  BY DEF Size
<1>2. S \in SUBSET Nat /\ S # {}
  BY <1>1
<1>3. Min(S) \in S /\ \A n \in S : Min(S) <= n
  BY <1>2, LeastOf, Zenon
<1>4. Span(s, delim) = Min(S) - s.pos
  BY DEF Span
<1>5. Min(S) \in s.pos..Size(s) /\ (Min(S) < Size(s) => s.data[Min(S) + 1] \in delim \cup {NUL})
  BY <1>1, <1>3
<1>. HIDE DEF S
<1>. QED
  BY <1>1, <1>4, <1>5

(* A line is what is in front of the delimiter, or the first m bytes of    *)
(* that, without a CR at its end.                                          *)
LEMMA LineEnds ==
  ASSUME NEW s \in [data : Seq(Nat), pos : Nat], s.pos < Size(s), NEW m \in Nat
  PROVE  LET n == IF Span(s, {LF}) > m THEN m ELSE Span(s, {LF})
             text == LineText(s, m, {LF}) IN
         /\ n \in 0..(Size(s) - s.pos)
         /\ ReadLine(s, m, {LF}) = [s EXCEPT !.pos = s.pos + n + 1]
         /\ \/ Len(text) = n
            \/ n > 0 /\ Len(text) = n - 1 /\ s.data[s.pos + n] = CR
<1>. DEFINE n == IF Span(s, {LF}) > m THEN m ELSE Span(s, {LF})
            text == SubSeq(s.data, s.pos + 1, s.pos + n)
<1>0. /\ Span(s, {LF}) \in 0..(Size(s) - s.pos) /\ Size(s) \in Nat /\ s.pos \in Nat
      /\ s.data \in Seq(Nat) /\ Size(s) = Len(s.data)
  BY SpanEnds DEF Size
<1>1. /\ n \in 0..(Size(s) - s.pos) /\ Size(s) \in Nat /\ s.pos \in Nat
      /\ s.data \in Seq(Nat) /\ Size(s) = Len(s.data)
  BY <1>0
<1>2. LineCount(s, m, {LF}) = n
  <2>1. PICK p \in Nat : p = Span(s, {LF})
    BY <1>0
  <2>2. Min({p, m}) = IF p > m THEN m ELSE p
    <3>. HIDE DEF n, text
    <3>1. p \in Int /\ m \in Int
      OBVIOUS
    <3>2. Min({p, m}) = IF p <= m THEN p ELSE m
      BY ONLY <3>1, SmallerOf
    <3>. QED
      BY <3>2
  <2>. QED
    BY <2>1, <2>2 DEF LineCount, n
<1>. HIDE DEF n
<1>3. ReadLine(s, m, {LF}) = [s EXCEPT !.pos = s.pos + n + 1]
  BY <1>2 DEF ReadLine, AfterLine
<1>4. text \in Seq(Nat) /\ Len(text) = n /\ (n > 0 => text[n] = s.data[s.pos + n])
  <2>. DEFINE a == s.pos + 1
              b == s.pos + n
  <2>1. a \in Int /\ b \in Int /\ b - a + 1 = n /\ \A k \in a..b : s.data[k] \in Nat
    <3>1. a \in Nat /\ b \in Nat /\ b - a + 1 = n /\ a >= 1 /\ b <= Len(s.data)
      <4>1. s.pos \in Nat /\ n \in Nat /\ s.pos + n <= Len(s.data)
        BY <1>1
      <4>2. s.pos + n - (s.pos + 1) + 1 = n
        BY <4>1
      <4>. QED
        BY <4>1, <4>2
    <3>. HIDE DEF a, b
    <3>. QED
      BY <1>1, <3>1
  <2>2. a <= b <=> n > 0
    BY <1>1
  <2>3. n > 0 => n \in 1..n /\ a + n - 1 = b
    BY <1>1
  <2>4. n \in Nat
    BY <1>1
  <2>. HIDE DEF a, b
  <2>5. /\ SubSeq(s.data, a, b) \in Seq(Nat)
        /\ Len(SubSeq(s.data, a, b)) = IF a <= b THEN n ELSE 0
        /\ \A k \in 1..n : SubSeq(s.data, a, b)[k] = s.data[a + k - 1]
    BY <2>1, SubSeqProperties
  <2>6. Len(SubSeq(s.data, a, b)) = n
    BY <2>2, <2>4, <2>5
  <2>7. n > 0 => SubSeq(s.data, a, b)[n] = s.data[b]
    BY <2>3, <2>5
  <2>. QED
    BY <2>5, <2>6, <2>7 DEF a, b
<1>5. LineText(s, m, {LF}) = IF text # <<>> /\ Last(text) = CR THEN Front(text) ELSE text
  BY <1>2 DEF LineText
<1>. HIDE DEF text
<1>6. CASE text # <<>> /\ Last(text) = CR
  <2>1. n > 0 /\ text[n] = CR
    BY <1>4, <1>6 DEF Last
  <2>2. Front(text) = SubSeq(text, 1, n - 1) /\ Len(SubSeq(text, 1, n - 1)) = n - 1
    BY <1>1, <1>4, <2>1 DEF Front
  <2>. QED
    BY <1>1, <1>3, <1>4, <1>5, <1>6, <2>1, <2>2 DEF n
<1>. QED
  BY <1>1, <1>3, <1>4, <1>5, <1>6 DEF n

(* Bytes are numbers.                                                      *)
LEMMA BytesAreNumbers ==
  ASSUME NEW t \in Seq(0..255)
  PROVE  t \in Seq(Nat) /\ \A i \in 1..Len(t) : t[i] \in 0..255
<1>1. \A i \in 1..Len(t) : t[i] \in 0..255
  <2>1. \A B : t \in Seq(B) => \A i \in 1..Len(t) : t[i] \in B
    OBVIOUS
  <2>. QED
    BY <2>1, Zenon
<1>2. \A i \in 1..Len(t) : t[i] \in Nat
  <2>1. \A b \in 0..255 : b \in Nat
    OBVIOUS
  <2>. QED
    BY <1>1, <2>1, Zenon
<1>3. \A B : t \in Seq(B) => t = [i \in 1..Len(t) |-> t[i]] /\ Len(t) \in Nat
  OBVIOUS
<1>4. t = [i \in 1..Len(t) |-> t[i]] /\ Len(t) \in Nat
  BY <1>3, Zenon
<1>. QED
  BY <1>1, <1>2, <1>4

(* A reader has read nothing at first.                                     *)
LEMMA ReaderInit == StreamInit => ReaderInv
<1>. SUFFICES ASSUME StreamInit PROVE ReaderInv
  OBVIOUS
<1>0. \A t \in Texts : t \in Seq(Nat)
  BY TextsAssumption, BytesAreNumbers
<1>1. stream \in [data : Seq(Nat), pos : {0}] /\ from = 0 /\ delivered = {} /\ cuts = {}
  BY <1>0 DEF StreamInit, MemoryDataStream
<1>2. Size(stream) \in Nat
  BY <1>1 DEF Size
<1>3. Min({stream.pos, Size(stream)}) = 0
  BY <1>1, <1>2, SmallerOf
<1>. QED
  BY <1>1, <1>2, <1>3 DEF ReaderInv, NoByteLost, Tell

(* A move of the cursor begins anew.                                       *)
LEMMA MoveInv ==
  ASSUME ReaderInv, NEW n \in Int, n <= Size(stream) + 1,
         NEW s, s = [stream EXCEPT !.pos = n], MoveTo(s)
  PROVE  ReaderInv'
<1>1. /\ stream' \in [data : Seq(Nat), pos : Nat] /\ stream'.pos = n /\ n >= 0
      /\ stream'.data = stream.data /\ from' = n /\ delivered' = {}
  BY DEF MoveTo, Tell, ReaderInv
<1>2. Size(stream)' = Size(stream) /\ Size(stream) \in Nat
  BY <1>1 DEF Size, ReaderInv
<1>3. Min({n, Size(stream)}) <= n
  BY <1>2, SmallerOf
<1>4. Min({n, Size(stream)}) \in Int
  BY <1>2, SmallerOf
<1>. QED
  BY <1>1, <1>2, <1>3, <1>4 DEF ReaderInv, NoByteLost, Tell

(* The reader reads on: what is new is delivered, or is the end of a line. *)
LEMMA ReadOnInv ==
  ASSUME ReaderInv, NEW n \in Nat, NEW k \in 0..n,
         stream.pos + n <= Size(stream) + 1,
         stream' = [stream EXCEPT !.pos = stream.pos + n],
         delivered' = delivered \cup (stream.pos..(stream.pos + k - 1)), from' = from,
         cuts \subseteq cuts',
         \A i \in (stream.pos + k)..(stream.pos + n - 1) :
           i < Size(stream) => EndsLine(stream.data, i, cuts')
  PROVE  ReaderInv'
<1>. DEFINE p == stream.pos
            size == Size(stream)
<1>1. stream \in [data : Seq(Nat), pos : Nat] /\ p \in Nat /\ from \in Nat /\ from <= p
  BY DEF ReaderInv
<1>2. /\ stream' \in [data : Seq(Nat), pos : Nat] /\ stream'.pos = p + n
      /\ stream'.data = stream.data
  BY <1>1
<1>3. Size(stream)' = size /\ size \in Nat /\ size = Len(stream.data)
  BY <1>1, <1>2 DEF Size
<1>4. /\ delivered \subseteq from..(p - 1)
      /\ \A i \in from..(Min({p, size}) - 1) : i \notin delivered => EndsLine(stream.data, i, cuts)
  BY <1>3 DEF ReaderInv, NoByteLost, Tell, EndsLine
<1>0. \A i : EndsLine(stream.data, i, cuts) => EndsLine(stream.data, i, cuts')
  BY DEF EndsLine
<1>. HIDE DEF p, size
<1>5. delivered' \subseteq from..(p + n - 1)
  BY <1>1, <1>4 DEF p
<1>6. ASSUME NEW i \in from..(Min({p + n, size}) - 1), i \notin delivered'
      PROVE  EndsLine(stream.data, i, cuts')
  <2>1. Min({p + n, size}) = IF p + n <= size THEN p + n ELSE size
    <3>1. p + n \in Int /\ size \in Int
      BY <1>1, <1>3
    <3>. QED
      BY <3>1, SmallerOf
  <2>2. Min({p, size}) = IF p <= size THEN p ELSE size
    BY <1>1, <1>3, SmallerOf
  <2>3. i \in Int /\ i < p + n /\ i < size /\ from <= i
    BY <1>1, <1>3, <2>1
  <2>4. CASE i < p
    <3>1. i \in from..(Min({p, size}) - 1)
      BY <1>1, <1>3, <2>2, <2>3, <2>4
    <3>2. i \notin delivered
      BY <1>6
    <3>. QED
      BY <1>0, <1>4, <3>1, <3>2
  <2>5. CASE i >= p
    <3>1. i \notin p..(p + k - 1)
      BY <1>6 DEF p
    <3>2. i \in (p + k)..(p + n - 1)
      BY <1>1, <2>3, <2>5, <3>1
    <3>. QED
      BY <2>3, <3>2 DEF p, size
  <2>. QED
    BY <1>1, <2>3, <2>4, <2>5
<1>7. /\ stream' \in [data : Seq(Nat), pos : Nat] /\ from' \in Nat /\ from' <= stream'.pos
      /\ stream'.pos \in 0..(size + 1)
  BY <1>1, <1>2, <1>3 DEF p, size
<1>8. NoByteLost'
  <2>1. Min({Tell(stream), Size(stream)})' = Min({p + n, size}) /\ Tell(stream)' = p + n
    BY <1>2, <1>3 DEF Tell
  <2>2. \A i \in (from..(Min({Tell(stream), Size(stream)}) - 1))' : i \notin delivered' =>
          EndsLine(stream.data, i, cuts')
    BY <1>6, <1>2, <2>1
  <2>3. delivered' \subseteq from'..(Tell(stream)' - 1)
    <3>1. from' = from /\ stream'.pos = p + n
      BY <1>2
    <3>2. delivered' \subseteq from'..(stream'.pos - 1)
      BY <1>1, <1>5, <3>1
    <3>. QED
      BY <3>2 DEF Tell
  <2>4. Tell(stream)' \in 0..(Size(stream)' + 1)
    BY <1>3, <1>7 DEF Tell
  <2>. QED
    BY <1>2, <1>3, <2>2, <2>3, <2>4 DEF NoByteLost, EndsLine
<1>. QED
  BY <1>7, <1>8 DEF ReaderInv

(* A line, or the first m bytes of it.                                     *)
LEMMA LineInv ==
  ASSUME ReaderInv, NEW m \in Nat, ~Eof(stream), stream' = ReadLine(stream, m, {LF}),
         Deliver(Len(LineText(stream, m, {LF}))), from' = from, cuts \subseteq cuts',
         Span(stream, {LF}) > m => stream.pos + m \in cuts'
  PROVE  ReaderInv'
<1>. DEFINE span == Span(stream, {LF})
            n == IF span > m THEN m ELSE span
            text == LineText(stream, m, {LF})
<1>1. stream \in [data : Seq(Nat), pos : Nat] /\ Size(stream) \in Nat /\ stream.pos < Size(stream)
  BY DEF ReaderInv, Eof, Size
<1>a. /\ span \in 0..(Size(stream) - stream.pos)
      /\ stream.pos + span < Size(stream) => stream.data[stream.pos + span + 1] \in {LF, NUL}
  BY <1>1, SpanEnds
<1>3. /\ n \in 0..(Size(stream) - stream.pos)
      /\ ReadLine(stream, m, {LF}) = [stream EXCEPT !.pos = stream.pos + n + 1]
      /\ \/ Len(text) = n
         \/ n > 0 /\ Len(text) = n - 1 /\ stream.data[stream.pos + n] = CR
  BY <1>1, LineEnds
<1>2. /\ n \in 0..(Size(stream) - stream.pos)
      /\ \/ stream.pos + n \in cuts'
         \/ stream.pos + n < Size(stream) => stream.data[stream.pos + n + 1] \in {LF, NUL}
  BY <1>a, <1>3
<1>4. /\ stream' = ReadLine(stream, m, {LF})
      /\ delivered' = delivered \cup (stream.pos..(stream.pos + Len(text) - 1)) /\ from' = from
  BY DEF Deliver, Tell
<1>. HIDE DEF n, text
<1>5. Len(text) \in 0..(n + 1) /\ n + 1 \in Nat /\ Size(stream) = Len(stream.data)
  BY <1>2, <1>3 DEF Size
<1>6. ASSUME NEW i \in (stream.pos + Len(text))..(stream.pos + n), i < Size(stream)
      PROVE  EndsLine(stream.data, i, cuts')
  <2>0. stream.pos \in Nat /\ n \in Nat /\ i \in Int
    BY <1>1, <1>2, <1>5
  <2>1. CASE i = stream.pos + n
    BY <1>2, <1>6, <2>1 DEF EndsLine
  <2>2. CASE i # stream.pos + n
    <3>1. i = stream.pos + n - 1 /\ i + 1 = stream.pos + n /\ stream.data[stream.pos + n] = CR
      <4>1. i < stream.pos + n /\ i >= stream.pos + Len(text)
        BY <1>5, <2>0, <2>2
      <4>2. n > 0 /\ Len(text) = n - 1 /\ stream.data[stream.pos + n] = CR
        <5>1. ASSUME Len(text) = n PROVE FALSE
          <6>1. i >= stream.pos + n
            BY <4>1, <5>1
          <6>. QED
            BY <2>0, <4>1, <6>1
        <5>. QED
          BY <1>3, <5>1
      <4>3. PICK e \in Nat : e = stream.pos + n
        BY <2>0
      <4>4. i < e /\ i >= e - 1
        <5>1. stream.pos + (n - 1) = e - 1
          BY <2>0, <4>3
        <5>. QED
          BY <4>1, <4>2, <4>3, <5>1
      <4>5. i = e - 1 /\ i + 1 = e
        BY <2>0, <4>4
      <4>6. i = stream.pos + n - 1 /\ i + 1 = stream.pos + n
        BY ONLY <2>0, <4>3, <4>5
      <4>. QED
        BY <4>2, <4>6
    <3>2. i + 1 = Size(stream) \/ stream.pos + n < Size(stream)
      BY <1>1, <1>6, <2>0, <3>1
    <3>3. i + 2 = stream.pos + n + 1
      BY <2>0, <3>1
    <3>. QED
      BY <1>2, <1>5, <3>1, <3>2, <3>3 DEF EndsLine
  <2>. QED
    BY <2>1, <2>2
<1>7. \A i \in (stream.pos + Len(text))..(stream.pos + (n + 1) - 1) :
        i < Size(stream) => EndsLine(stream.data, i, cuts')
  BY <1>1, <1>2, <1>6
<1>8. stream.pos + (n + 1) <= Size(stream) + 1 /\ stream.pos + n + 1 = stream.pos + (n + 1)
  BY <1>1, <1>2
<1>. QED
  BY <1>3, <1>4, <1>5, <1>7, <1>8, ReadOnInv

(* GetLine, unless it writes behind s_TmpArea, and ReadLine.               *)
LEMMA GetLineInv == ASSUME ReaderInv, NEW trimAfter, GetLine(trimAfter) PROVE ReaderInv'
<1>1. stream \in [data : Seq(Nat), pos : Nat] /\ Size(stream) \in Nat
  BY DEF ReaderInv, Size
<1> DEFINE text == LineText(stream, Size(stream), {LF})
<1>2. CASE Len(text) >= TmpSize
  <2>1. UNCHANGED <<stream, from, delivered, cuts>>
    BY <1>2 DEF GetLine
  <2>. HIDE DEF text
  <2>. QED
    BY <2>1 DEF ReaderInv, NoByteLost, Tell, Size
<1>3. CASE ~(Len(text) >= TmpSize)
  <2>2. /\ ~Eof(stream) /\ stream' = ReadLine(stream, Size(stream), {LF})
        /\ Deliver(Len(text)) /\ UNCHANGED <<from, cuts>>
    BY <1>3 DEF GetLine
  <2>1. ~(Span(stream, {LF}) > Size(stream))
    <3>1. stream.pos < Size(stream)
      BY <1>1 DEF GetLine, Eof
    <3>. QED
      BY <1>1, <3>1, SpanEnds
  <2>. QED
    BY <1>1, <2>1, <2>2, LineInv
<1>. QED
  BY <1>2, <1>3

LEMMA ReadSomeInv == ASSUME ReaderInv, NEW count \in 1..MaxCount, ReadSome(count) PROVE ReaderInv'
<1>1. count \in Nat
  BY MaxCountAssumption
<1>2. Span(stream, {LF}) > count => stream.pos + count \in cuts'
  BY DEF ReadSome, Tell
<1>3. cuts \subseteq cuts'
  BY DEF ReadSome
<1>. QED
  BY <1>1, <1>2, <1>3, LineInv DEF ReadSome

(* Some bytes.                                                             *)
LEMMA ReadBytesInv == ASSUME ReaderInv, NEW count \in 1..MaxCount, ReadBytes(count) PROVE ReaderInv'
<1>1. stream \in [data : Seq(Nat), pos : Nat] /\ Size(stream) \in Nat /\ count \in Nat
  BY MaxCountAssumption DEF ReaderInv, Size
<1>2. stream.pos + count <= Size(stream) /\ Room(stream, count) = count
  BY <1>1 DEF ReadBytes, Tell, Room
<1>3. /\ stream' = [stream EXCEPT !.pos = stream.pos + count] /\ from' = from
      /\ delivered' = delivered \cup (stream.pos..(stream.pos + count - 1))
  BY <1>2 DEF ReadBytes, Read, Deliver, Tell
<1>4. count \in 0..count /\ (stream.pos + count)..(stream.pos + count - 1) = {}
  BY <1>1
<1>5. \A i \in (stream.pos + count)..(stream.pos + count - 1) :
        i < Size(stream) => EndsLine(stream.data, i, cuts')
  BY <1>4
<1>6. stream.pos + count <= Size(stream) + 1 /\ cuts \subseteq cuts'
  BY <1>1, <1>2 DEF ReadBytes
<1>. QED
  BY <1>1, <1>3, <1>4, <1>5, <1>6, ReadOnInv

(* SkipLine, Skip and Seek.                                                *)
LEMMA RepositionInv == ASSUME ReaderInv, Reposition PROVE ReaderInv'
<1>1. stream \in [data : Seq(Nat), pos : Nat] /\ Size(stream) \in Nat /\ stream.pos \in Nat
  BY DEF ReaderInv, Size
<1>2. CASE ~Eof(stream) /\ MoveTo(SkipLine(stream, {LF}))
  <2>. DEFINE n == stream.pos + Span(stream, {LF}) + 1
  <2>1. n \in Int /\ n <= Size(stream) + 1
    BY <1>1, <1>2, SpanEnds DEF Eof
  <2>2. SkipLine(stream, {LF}) = [stream EXCEPT !.pos = n]
    BY DEF SkipLine, AfterLine
  <2>. HIDE DEF n
  <2>. QED
    BY <1>2, <2>1, <2>2, MoveInv
<1>3. CASE \E count \in (-MaxCount)..MaxCount : ~Eof(stream) /\ MoveTo(Skip(stream, count))
  <2>1. PICK count \in Int : MoveTo(Skip(stream, count))
    BY <1>3, MaxCountAssumption
  <2>. DEFINE n == Min({stream.pos + count, Size(stream)})
  <2>2. n \in Int /\ n <= Size(stream) + 1
    BY <1>1, SmallerOf
  <2>3. Skip(stream, count) = [stream EXCEPT !.pos = n]
    BY DEF Skip
  <2>. HIDE DEF n
  <2>. QED
    BY <2>1, <2>2, <2>3, MoveInv
<1>4. CASE \E pos \in 0..MaxCount, origin \in {"SF_SET", "SF_CUR", "SF_END"} :
             /\ Tell(Seek(stream, pos, origin)) <= Size(stream)
             /\ MoveTo(Seek(stream, pos, origin))
  <2>1. PICK pos \in Int, origin \in {"SF_SET", "SF_CUR", "SF_END"} :
               /\ Tell(Seek(stream, pos, origin)) <= Size(stream)
               /\ MoveTo(Seek(stream, pos, origin))
    BY <1>4, MaxCountAssumption
  <2>2. PICK n \in Int : Seek(stream, pos, origin) = [stream EXCEPT !.pos = n]
    <3>1. CASE origin = "SF_SET"
      BY <3>1 DEF Seek
    <3>2. CASE origin = "SF_CUR"
      <4>1. Seek(stream, pos, origin) = [stream EXCEPT !.pos = stream.pos + pos]
        BY <3>2 DEF Seek
      <4>2. stream.pos + pos \in Int
        BY <1>1
      <4>. QED
        BY <4>1, <4>2, Zenon
    <3>3. CASE origin = "SF_END"
      <4>1. Seek(stream, pos, origin) = [stream EXCEPT !.pos = Size(stream) - pos]
        BY <3>3 DEF Seek
      <4>2. Size(stream) - pos \in Int
        BY <1>1
      <4>. QED
        BY <4>1, <4>2, Zenon
    <3>. QED
      BY <3>1, <3>2, <3>3
  <2>3. n <= Size(stream) + 1
    BY <1>1, <2>1, <2>2 DEF Tell
  <2>. QED
    BY <2>1, <2>2, <2>3, MoveInv
<1>. QED
  BY <1>2, <1>3, <1>4 DEF Reposition

(* No byte of a text is read twice, whatever the text and however GetLine, *)
(* ReadLine, Read, SkipLine, Skip and Seek are mixed, and none is lost but *)
(* the one behind a line that ReadLine cut at maxCount: what the reader is *)
(* not given is that or a delimiter, and a CR before it.  It holds for any *)
(* STREAM_TMP_SIZE, until GetLine meets a line that s_TmpArea has no room  *)
(* for, which is undefined behaviour.                                      *)
THEOREM NoByteOfAStreamIsLost == StreamSpec => []NoByteLost
<1>1. ReaderInv /\ [StreamNext]_streamVars => ReaderInv'
  <2>1. ASSUME ReaderInv, UNCHANGED streamVars PROVE ReaderInv'
    BY <2>1 DEF streamVars, ReaderInv, NoByteLost, Tell, Size
  <2>. QED
    BY <2>1, GetLineInv, ReadSomeInv, ReadBytesInv, RepositionInv DEF StreamNext
<1>2. ReaderInv => NoByteLost
  BY DEF ReaderInv
<1>. QED
  BY <1>1, <1>2, ReaderInit, PTL DEF StreamSpec

-----------------------------------------------------------------------------
(* Numbers and texts.                                                      *)
(* A sequence turned round twice is itself.                                *)
LEMMA ReverseTwice ==
  ASSUME NEW v \in Seq(Nat)
  PROVE  /\ Reverse(v) \in Seq(Nat) /\ Len(Reverse(v)) = Len(v)
         /\ Reverse(Reverse(v)) = v
<1>1. Len(v) \in Nat /\ v = [i \in 1..Len(v) |-> v[i]] /\ \A i \in 1..Len(v) : v[i] \in Nat
  OBVIOUS
<1>2. \A i \in 1..Len(v) : (Len(v) - i) + 1 \in 1..Len(v) /\ (Len(v) - ((Len(v) - i) + 1)) + 1 = i
  BY <1>1
<1>3. Reverse(v) = [i \in 1..Len(v) |-> v[(Len(v) - i) + 1]]
  BY DEF Reverse
<1>4. Reverse(v) \in Seq(Nat) /\ Len(Reverse(v)) = Len(v)
  BY <1>1, <1>2, <1>3
<1>5. Reverse(Reverse(v)) = [i \in 1..Len(v) |-> Reverse(v)[(Len(v) - i) + 1]]
  BY <1>4 DEF Reverse
<1>6. \A i \in 1..Len(v) : Reverse(v)[(Len(v) - i) + 1] = v[i]
  BY <1>2, <1>3
<1>. QED
  BY <1>1, <1>4, <1>5, <1>6

(* What is written to the start of a stream is read from there.            *)
LEMMA WrittenIsRead ==
  ASSUME NEW w \in Seq(Nat), NEW k \in Nat, Len(w) <= k
  PROVE  LET start == Seek(Write(EmptyStream(k), w), 0, "SF_SET") IN Taken(start, Len(w)) = w
<1>. DEFINE e == EmptyStream(k)
            s == Seek(Write(e, w), 0, "SF_SET")
<1>0. Len(w) \in Nat /\ w = [i \in 1..Len(w) |-> w[i]]
  OBVIOUS
<1>1. e.pos = 0 /\ e.data = [i \in 1..k |-> NUL] /\ DOMAIN e.data = 1..k /\ Size(e) = k
  BY DEF EmptyStream, MemoryDataStream, Size
<1>2. Room(e, Len(w)) = Len(w)
  BY <1>0, <1>1 DEF Room
<1>3. /\ Write(e, w).data = [i \in 1..k |-> IF i \in 1..Len(w) THEN w[i] ELSE e.data[i]]
  BY <1>0, <1>1, <1>2 DEF Write
<1>4. s.pos = 0 /\ s.data = Write(e, w).data
  BY DEF Seek, Write
<1>5. Size(s) = k
  BY <1>3, <1>4 DEF Size
<1>6. Room(s, Len(w)) = Len(w)
  BY <1>0, <1>4, <1>5 DEF Room
<1>7. Taken(s, Len(w)) = [i \in 1..Len(w) |-> s.data[i]]
  BY <1>0, <1>4, <1>6 DEF Taken
<1>8. \A i \in 1..Len(w) : s.data[i] = w[i]
  BY <1>0, <1>3, <1>4
<1>. QED
  BY <1>0, <1>7, <1>8

(* ByteOrderWrite and ByteOrderRead: a number of any size, written and     *)
(* read in the same byte order, is itself, and turned round if read in the *)
(* other one.                                                              *)
THEOREM NumbersSurviveAnyOrder ==
  ASSUME NEW v \in Seq(Nat)
  PROVE  NumbersAgree(v)
<1>. SUFFICES ASSUME NEW native \in BOOLEAN
              PROVE LET start == Seek(ByteOrderWrite(EmptyStream(Len(v)), v, native), 0, "SF_SET")
                    IN /\ ByteOrderValue(start, Len(v), native) = v
                       /\ ByteOrderValue(start, Len(v), ~native) = Reverse(v)
  BY DEF NumbersAgree
<1>. DEFINE w == IF native THEN v ELSE Reverse(v)
            start == Seek(ByteOrderWrite(EmptyStream(Len(v)), v, native), 0, "SF_SET")
<1>1. w \in Seq(Nat) /\ Len(w) = Len(v)
  BY ReverseTwice
<1>2. Taken(start, Len(v)) = w
  <2>. HIDE DEF w
  <2>1. Taken(Seek(Write(EmptyStream(Len(w)), w), 0, "SF_SET"), Len(w)) = w
    BY <1>1, WrittenIsRead
  <2>. QED
    BY <1>1, <2>1 DEF ByteOrderWrite, w
<1>. QED
  BY <1>2, ReverseTwice DEF ByteOrderValue

-----------------------------------------------------------------------------
(* Messages in a stream.                                                   *)
(* The bytes buf from position p of data.                                  *)
At(data, p, buf) ==
  p + Len(buf) <= Len(data) /\ \A i \in 1..Len(buf) : data[p + i] = buf[i]

StreamAt(data, p) == [data |-> data, pos |-> p]

(* Bytes that are found in one place are found where they are copied to.   *)
LEMMA AtMoved ==
  ASSUME NEW data \in Seq(Nat), NEW p \in Nat, NEW buf \in Seq(Nat), At(data, p, buf),
         NEW other \in Seq(Nat), NEW r \in Nat, r + Len(buf) <= Len(other),
         \A i \in 1..Len(buf) : other[r + i] = data[p + i]
  PROVE  At(other, r, buf)
BY DEF At

(* Two texts, one behind the other.                                        *)
LEMMA AtParts ==
  ASSUME NEW data \in Seq(Nat), NEW p \in Nat, NEW a \in Seq(Nat), NEW b \in Seq(Nat),
         At(data, p, a \o b)
  PROVE  At(data, p, a) /\ At(data, p + Len(a), b)
<1>1. Len(a) \in Nat /\ Len(b) \in Nat /\ Len(a \o b) = Len(a) + Len(b)
  OBVIOUS
<1>2. \A i \in 1..Len(a) : i \in 1..Len(a \o b) /\ (a \o b)[i] = a[i]
  BY <1>1
<1>3. \A i \in 1..Len(b) : Len(a) + i \in 1..Len(a \o b) /\ (a \o b)[Len(a) + i] = b[i]
  BY <1>1
<1>4. ASSUME NEW i \in 1..Len(b) PROVE data[(p + Len(a)) + i] = b[i]
  <2>1. PICK k \in 1..Len(a \o b) : k = Len(a) + i /\ (a \o b)[k] = b[i]
    BY <1>3
  <2>2. data[p + k] = b[i]
    BY <2>1 DEF At
  <2>3. p + k = (p + Len(a)) + i
    BY <1>1, <2>1
  <2>. QED
    BY <2>2, <2>3
<1>5. At(data, p, a)
  BY <1>1, <1>2 DEF At
<1>6. At(data, p + Len(a), b)
  BY <1>1, <1>4 DEF At
<1>. QED
  BY <1>5, <1>6

(* What fits is read.                                                      *)
LEMMA TakenFits ==
  ASSUME NEW data \in Seq(Nat), NEW p \in Nat, NEW buf \in Seq(Nat), At(data, p, buf)
  PROVE  /\ Taken(StreamAt(data, p), Len(buf)) = buf
         /\ Read(StreamAt(data, p), Len(buf)) = StreamAt(data, p + Len(buf))
<1>1. Len(buf) \in Nat /\ Len(data) \in Nat /\ p + Len(buf) <= Len(data)
  BY DEF At
<1>2. Room(StreamAt(data, p), Len(buf)) = Len(buf)
  BY <1>1 DEF Room, Size, StreamAt
<1>3. SubSeq(data, p + 1, p + Len(buf)) = buf
  <2>1. SubSeq(data, p + 1, p + Len(buf)) = [i \in 1..Len(buf) |-> data[p + i]]
    BY <1>1
  <2>2. buf = [i \in 1..Len(buf) |-> buf[i]]
    OBVIOUS
  <2>. QED
    BY <2>1, <2>2 DEF At
<1>. QED
  BY <1>1, <1>2, <1>3 DEF Taken, Read, StreamAt

(* What is in front of a position stays.                                   *)
Keeps(d, data, p) == Len(d) = Len(data) /\ \A i \in 1..p : d[i] = data[i]

(* What is written where there is room for it is there, and what is in     *)
(* front of it stays.                                                      *)
LEMMA WriteFits ==
  ASSUME NEW data \in Seq(Nat), NEW p \in Nat, NEW buf \in Seq(Nat), p + Len(buf) <= Len(data)
  PROVE  \E d \in Seq(Nat) :
           /\ Write(StreamAt(data, p), buf) = StreamAt(d, p + Len(buf))
           /\ At(d, p, buf) /\ Keeps(d, data, p)
<1>1. Len(buf) \in Nat /\ Len(data) \in Nat /\ DOMAIN data = 1..Len(data)
  OBVIOUS
<1>2. Room(StreamAt(data, p), Len(buf)) = Len(buf)
  <2>1. StreamAt(data, p).pos = p /\ StreamAt(data, p).data = data
    BY DEF StreamAt
  <2>2. Room(StreamAt(data, p), Len(buf)) =
          IF p + Len(buf) > Len(data) THEN Len(data) - p ELSE Len(buf)
    BY <2>1, Zenon DEF Room, Size
  <2>3. ~(p + Len(buf) > Len(data))
    BY <1>1
  <2>. QED
    BY <2>2, <2>3
<1>. DEFINE d == [i \in 1..Len(data) |-> IF i - p \in 1..Len(buf) THEN buf[i - p] ELSE data[i]]
<1>3. Write(StreamAt(data, p), buf) = StreamAt(d, p + Len(buf))
  BY <1>1, <1>2 DEF Write, StreamAt
<1>4. d \in Seq(Nat) /\ Len(d) = Len(data)
  <2>1. \A i \in 1..Len(data) : data[i] \in Nat
    OBVIOUS
  <2>2. \A i \in 1..Len(buf) : buf[i] \in Nat
    OBVIOUS
  <2>3. d \in [1..Len(data) -> Nat]
    BY <2>1, <2>2
  <2>. QED
    BY <1>1, <2>3
<1>5. \A i \in 1..Len(buf) : p + i \in 1..Len(data) /\ (p + i) - p = i
  BY <1>1
<1>6. \A i \in 1..Len(buf) : d[p + i] = buf[i]
  BY <1>5
<1>7. \A i \in 1..p : i \in 1..Len(data) /\ ~(i - p \in 1..Len(buf))
  BY <1>1
<1>8. \A i \in 1..p : d[i] = data[i]
  BY <1>7
<1>. HIDE DEF d
<1>. QED
  BY <1>3, <1>4, <1>6, <1>8 DEF At, Keeps

-----------------------------------------------------------------------------
(* The numbers of four bytes.                                              *)
Words == {n \in Nat : Above(Above(Above(n))) < 256}

(* A number of four bytes is the number of its bytes.                      *)
LEMMA NumberOfBytes ==
  ASSUME NEW n \in Words
  PROVE  UInt32(n) \in Seq(Nat) /\ Len(UInt32(n)) = 4 /\ Number(UInt32(n)) = n
<1>1. n \in Nat
  BY DEF Words
<1>2. ASSUME NEW m \in Nat
      PROVE  Above(m) \in Nat /\ m % 256 \in Nat /\ m = (m % 256) + 256 * Above(m)
  BY DEF Above
<1>3. PICK x \in Nat, y \in Nat, z \in Nat : x = Above(n) /\ y = Above(x) /\ z = Above(y)
  <2>1. PICK x \in Nat : x = Above(n)
    BY <1>1, <1>2
  <2>2. PICK y \in Nat : y = Above(x)
    BY <1>2
  <2>3. PICK z \in Nat : z = Above(y)
    BY <1>2
  <2>. QED
    BY <2>1, <2>2, <2>3
<1>4. PICK a \in Nat, b \in Nat, c \in Nat, e \in Nat :
        a = n % 256 /\ b = x % 256 /\ c = y % 256 /\ e = z % 256
  BY <1>1, <1>2
<1>5. n = a + 256 * x /\ x = b + 256 * y /\ y = c + 256 * z
  BY <1>1, <1>2, <1>3, <1>4
<1>6. e = z
  <2>1. z < 256
    BY <1>3 DEF Words
  <2>. QED
    BY <1>4, <2>1
<1>7. UInt32(n) = <<a, b, c, e>>
  <2>1. Above(n) = x /\ Above(Above(n)) = y /\ Above(Above(Above(n))) = z
    BY <1>3
  <2>2. UInt32(n) = <<n % 256, x % 256, y % 256, z % 256>>
    BY <2>1, Zenon DEF UInt32
  <2>. QED
    BY <1>4, <2>2, Zenon
<1>8. Number(<<a, b, c, e>>) = a + 256 * (b + 256 * (c + 256 * e))
  BY DEF Number
<1>9. a + 256 * (b + 256 * (c + 256 * e)) = n
  BY <1>5, <1>6
<1>. QED
  BY <1>7, <1>8, <1>9

(* Bytes other than NUL, and texts of them whose length has 32 bits.       *)
NonNul == 1..255
Strings == {str \in Seq(NonNul) : Len(str) \in Words}

LEMMA StringIsText ==
  ASSUME NEW str \in Strings
  PROVE  /\ str \in Seq(Nat) /\ Len(str) \in Nat /\ UpToNul(str) = str
         /\ Counted(str) \in Seq(Nat) /\ Len(Counted(str)) = 4 + Len(str)
<1>1. str \in Seq(NonNul) /\ Len(str) \in Words /\ str \in Seq(Nat) /\ Len(str) \in Nat
  <2>1. str \in Seq(NonNul) /\ Len(str) \in Words
    BY DEF Strings
  <2>2. Len(str) \in Nat /\ \A i \in 1..Len(str) : str[i] \in Nat
    <3>1. Len(str) \in Nat /\ \A i \in 1..Len(str) : str[i] \in NonNul
      BY <2>1
    <3>2. \A b \in NonNul : b \in Nat
      BY DEF NonNul
    <3>. QED
      BY <3>1, <3>2
  <2>3. str = [i \in 1..Len(str) |-> str[i]]
    BY <2>1
  <2>4. [i \in 1..Len(str) |-> str[i]] \in Seq(Nat)
    BY <2>2
  <2>. QED
    BY <2>1, <2>2, <2>3, <2>4
<1>2. Counted(str) \in Seq(Nat) /\ Len(Counted(str)) = 4 + Len(str)
  <2>1. PICK u \in Seq(Nat) : u = UInt32(Len(str)) /\ Len(u) = 4
    BY <1>1, NumberOfBytes
  <2>2. PICK t \in Seq(Nat) : t = str
    BY <1>1
  <2>3. u \o t \in Seq(Nat) /\ Len(u \o t) = Len(u) + Len(t)
    OBVIOUS
  <2>. QED
    BY <2>1, <2>2, <2>3 DEF Counted
<1>3. {i \in DOMAIN str : str[i] = NUL} = {}
  <2>1. \A i \in DOMAIN str : str[i] \in NonNul
    BY <1>1
  <2>. QED
    BY <2>1 DEF NonNul, NUL
<1>4. Min({Len(str) + 1}) = Len(str) + 1
  <2>1. {Len(str) + 1} \in SUBSET Nat /\ {Len(str) + 1} # {}
    BY <1>1
  <2>2. Min({Len(str) + 1}) \in {Len(str) + 1}
    BY <2>1, LeastOf
  <2>. QED
    BY <2>2
<1>5. UpToNul(str) = SubSeq(str, 1, (Len(str) + 1) - 1)
  BY <1>3, <1>4 DEF UpToNul
<1>6. SubSeq(str, 1, (Len(str) + 1) - 1) = str
  BY <1>1
<1>. QED
  BY <1>1, <1>2, <1>5, <1>6

(* A counted string is read.                                               *)
LEMMA StringRead ==
  ASSUME NEW data \in Seq(Nat), NEW p \in Nat, NEW str \in Strings, At(data, p, Counted(str))
  PROVE  /\ Str(StreamAt(data, p)) = str
         /\ AfterStr(StreamAt(data, p)) = StreamAt(data, p + 4 + Len(str))
<1>. DEFINE u == UInt32(Len(str))
<1>1. str \in Seq(Nat) /\ Len(str) \in Nat /\ UpToNul(str) = str /\ Len(str) \in Words
  BY StringIsText DEF Strings
<1>2. u \in Seq(Nat) /\ Len(u) = 4 /\ Number(u) = Len(str)
  BY <1>1, NumberOfBytes
<1>. HIDE DEF u
<1>3. At(data, p, u) /\ At(data, p + 4, str)
  <2>1. At(data, p, u \o str)
    BY DEF Counted, u
  <2>. QED
    BY <1>1, <1>2, <2>1, AtParts
<1>4. Taken(StreamAt(data, p), 4) = u /\ Read(StreamAt(data, p), 4) = StreamAt(data, p + 4)
  <2>1. Taken(StreamAt(data, p), Len(u)) = u /\ Read(StreamAt(data, p), Len(u)) = StreamAt(data, p + Len(u))
    BY <1>2, <1>3, TakenFits
  <2>. QED
    BY <1>2, <2>1
<1>5. /\ Taken(StreamAt(data, p + 4), Len(str)) = str
      /\ Read(StreamAt(data, p + 4), Len(str)) = StreamAt(data, p + 4 + Len(str))
  <2>1. p + 4 \in Nat
    OBVIOUS
  <2>. QED
    BY <1>1, <1>3, <2>1, TakenFits
<1>. QED
  BY <1>1, <1>2, <1>4, <1>5 DEF Str, AfterStr
-----------------------------------------------------------------------------
(* A message without NUL: finitely many pairs of strings, their number and *)
(* their lengths of 32 bits.                                               *)
Message(pairs) ==
  /\ IsFiniteSet(DOMAIN pairs) /\ Cardinality(DOMAIN pairs) \in Words
  /\ DOMAIN pairs \subseteq Strings
  /\ pairs \in [DOMAIN pairs -> Strings]

(* The bytes of a pair.                                                    *)
PairSize(pairs, key) == 8 + Len(key) + Len(pairs[key])

(* q is the order in which the pairs are written, and o the bytes in front *)
(* of each.                                                                *)
InOrder(pairs, q, o) ==
  /\ q \in Seq(DOMAIN pairs) /\ Len(q) \in Words
  /\ q = SetToSeq(DOMAIN pairs) /\ Len(q) = Cardinality(DOMAIN pairs)
  /\ DOMAIN pairs = {q[i] : i \in 1..Len(q)}
  /\ o \in [0..Len(q) -> Nat] /\ o[0] = 0
  /\ \A j \in 1..Len(q) : o[j] = o[j - 1] + PairSize(pairs, q[j])
  /\ \A j \in 0..Len(q) : \A i \in 0..j : o[i] <= o[j]
  /\ MsgSize(pairs) = 20 + o[Len(q)]

LEMMA PairOfMessage ==
  ASSUME NEW pairs, Message(pairs), NEW key \in DOMAIN pairs
  PROVE  key \in Strings /\ pairs[key] \in Strings /\ PairSize(pairs, key) \in Nat
<1>1. key \in Strings /\ pairs[key] \in Strings
  BY DEF Message
<1>2. Len(key) \in Nat /\ Len(pairs[key]) \in Nat
  BY <1>1, StringIsText
<1>. QED
  BY <1>1, <1>2 DEF PairSize

(* SetToSeq counts the elements of a finite set.                           *)
LEMMA SequenceOfSet ==
  ASSUME NEW S, IsFiniteSet(S)
  PROVE  \E q \in Seq(S) :
           /\ q = SetToSeq(S) /\ Len(q) = Cardinality(S) /\ S = {q[i] : i \in 1..Len(q)}
           /\ \A i, j \in 1..Len(q) : q[i] = q[j] => i = j
<1>1. PICK n \in Nat : n = Cardinality(S) /\ ExistsBijection(1..n, S)
  BY FS_CardinalityType
<1>2. PICK b \in Bijection(1..n, S) : TRUE
  BY <1>1 DEF ExistsBijection
<1>3. b \in [1..n -> S] /\ IsInjective(b)
  BY DEF Bijection, Injection
<1>. DEFINE q == SetToSeq(S)
<1>4. q \in [1..n -> S] /\ IsInjective(q)
  BY <1>1, <1>3 DEF SetToSeq
<1>. HIDE DEF q
<1>5. q \in Seq(S) /\ Len(q) = n
  BY <1>4
<1>6. \A i, j \in 1..n : q[i] = q[j] => i = j
  BY <1>4 DEF IsInjective
<1>7. q \in Injection(1..n, S)
  BY <1>4, <1>6, Fun_IsInj
<1>8. q \in Surjection(1..n, S)
  <2>1. IsFiniteSet(1..n) /\ Cardinality(1..n) = n
    BY FS_Interval
  <2>. QED
    BY <1>1, <1>7, <2>1, FS_Injection
<1>9. S = {q[i] : i \in 1..n}
  BY <1>4, <1>8 DEF Surjection
<1>. QED
  BY <1>1, <1>5, <1>6, <1>9 DEF q

(* So the pairs are in an order.                                           *)
LEMMA OrderOfPairs ==
  ASSUME NEW pairs, Message(pairs)
  PROVE  \E q, o : InOrder(pairs, q, o)
<1>. DEFINE D == DOMAIN pairs
            f == [key \in D |-> 8 + Len(key) + Len(pairs[key])]
<1>1. IsFiniteSet(D) /\ Cardinality(D) \in Words
  BY DEF Message
<1>2. PICK q \in Seq(D) :
        /\ q = SetToSeq(D) /\ Len(q) = Cardinality(D) /\ D = {q[i] : i \in 1..Len(q)}
        /\ \A i, j \in 1..Len(q) : q[i] = q[j] => i = j
  BY <1>1, SequenceOfSet
<1>3. PICK n \in Nat : n = Len(q)
  OBVIOUS
<1>4. ASSUME NEW key \in D PROVE f[key] = PairSize(pairs, key) /\ f[key] \in Nat
  BY PairOfMessage DEF PairSize
<1>. DEFINE K(j) == {q[i] : i \in 1..j}
            o == [j \in 0..n |-> SumFunctionOnSet(f, K(j))]
<1>. HIDE DEF f, D
<1>5. \A i \in 1..n : q[i] \in D
  BY <1>3
<1>6. o[0] = 0
  <2>1. K(0) = {} /\ 0 \in 0..n
    OBVIOUS
  <2>2. o[0] = SumFunctionOnSet(f, K(0))
    BY <2>1
  <2>. HIDE DEF K, o
  <2>. QED
    BY <2>1, <2>2, SumOfNone
<1>7. ASSUME NEW j \in 1..n
      PROVE  o[j] \in Int /\ o[j - 1] \in Int /\ o[j] = o[j - 1] + f[q[j]]
  <2>1. K(j) \subseteq D /\ q[j] \in K(j)
    BY <1>5
  <2>2. IsFiniteSet(K(j)) /\ \A x \in K(j) : f[x] \in Int
    BY <1>1, <1>4, <2>1, FS_Subset
  <2>3. K(j) \ {q[j]} = K(j - 1)
    <3>1. ASSUME NEW i \in 1..j, i # j PROVE i \in 1..(j - 1) /\ q[i] # q[j]
      <4>1. i \in 1..Len(q) /\ j \in 1..Len(q) /\ i \in 1..(j - 1)
        BY <1>3, <3>1
      <4>. QED
        BY <1>2, <3>1, <4>1
    <3>2. \A i \in 1..(j - 1) : i \in 1..j /\ i # j
      OBVIOUS
    <3>. QED
      BY <3>1, <3>2
  <2>4. j \in 0..n /\ j - 1 \in 0..n
    OBVIOUS
  <2>5. o[j] = SumFunctionOnSet(f, K(j)) /\ o[j - 1] = SumFunctionOnSet(f, K(j) \ {q[j]})
    BY <2>3, <2>4
  <2>. HIDE DEF K, o
  <2>. QED
    BY <2>1, <2>2, <2>5, SumOfMore
<1>8. o = [j \in 0..n |-> o[j]]
  OBVIOUS
<1>9. MsgSize(pairs) = 20 + o[n]
  <2>1. n \in 0..n
    OBVIOUS
  <2>2. o[n] = SumFunctionOnSet(f, K(n))
    BY <2>1
  <2>3. K(n) = D
    BY <1>2, <1>3, Zenon
  <2>. HIDE DEF K, o
  <2>. QED
    BY <2>2, <2>3 DEF MsgSize, f, D
<1>. HIDE DEF o, K
<1>. DEFINE Bad == {j \in 0..n : ~(o[j] \in Nat /\ \A i \in 0..j : o[i] \in Nat /\ o[i] <= o[j])}
<1>10. Bad = {}
  <2>. SUFFICES ASSUME Bad # {} PROVE FALSE
    OBVIOUS
  <2>1. Bad \in SUBSET Nat
    OBVIOUS
  <2>2. PICK k \in Bad : \A j \in Bad : k <= j
    <3>. HIDE DEF Bad
    <3>. QED
      BY <2>1, SmallestOf
  <2>3. k # 0
    BY <1>6
  <2>4. k \in 1..n /\ k - 1 \in 0..n /\ k - 1 \notin Bad
    BY <2>2, <2>3
  <2>5. o[k - 1] \in Nat /\ \A i \in 0..(k - 1) : o[i] \in Nat /\ o[i] <= o[k - 1]
    BY <2>4
  <2>6. o[k] \in Int /\ o[k] = o[k - 1] + f[q[k]] /\ f[q[k]] \in Nat
    BY <1>4, <1>5, <1>7, <2>4
  <2>7. \A i \in 0..k : i = k \/ i \in 0..(k - 1)
    BY <2>4
  <2>8. o[k] \in Nat /\ \A i \in 0..k : o[i] \in Nat /\ o[i] <= o[k]
    BY <2>5, <2>6, <2>7
  <2>. QED
    BY <2>8
<1>11. \A j \in 0..n : o[j] \in Nat /\ \A i \in 0..j : o[i] <= o[j]
  BY <1>10
<1>12. \A j \in 1..n : o[j] = o[j - 1] + PairSize(pairs, q[j])
  BY <1>4, <1>5, <1>7
<1>. HIDE DEF Bad
<1>13. o \in [0..n -> Nat]
  BY <1>8, <1>11
<1>14. InOrder(pairs, q, o)
  BY <1>1, <1>2, <1>3, <1>6, <1>9, <1>11, <1>12, <1>13 DEF InOrder, D
<1>. QED
  BY <1>14
-----------------------------------------------------------------------------
Streams == [data : Seq(Nat), pos : Nat]

(* A stream stays a stream, also if there is no room.                      *)
LEMMA WriteType ==
  ASSUME NEW s \in Streams, NEW buf \in Seq(Nat)
  PROVE  Write(s, buf) \in Streams
<1>1. PICK data \in Seq(Nat), p \in Nat : s = StreamAt(data, p)
  BY DEF Streams, StreamAt
<1>2. PICK n \in Nat, k \in Nat : n = Len(data) /\ k = Len(buf)
  OBVIOUS
<1>3. PICK r \in Int : r = Room(s, k) /\ p + r \in Nat /\ r <= k
  <2>1. s.pos = p /\ s.data = data
    BY <1>1 DEF StreamAt
  <2>2. Room(s, k) = IF p + k > n THEN n - p ELSE k
    BY <1>2, <2>1, Zenon DEF Room, Size
  <2>3. CASE p + k > n
    BY <2>2, <2>3
  <2>4. CASE ~(p + k > n)
    BY <2>2, <2>4
  <2>. QED
    BY <2>3, <2>4
<1>. DEFINE d == [i \in 1..n |-> IF i - p \in 1..r THEN buf[i - p] ELSE data[i]]
<1>4. Write(s, buf) = StreamAt(d, p + r)
  <2>1. s.pos = p /\ s.data = data /\ DOMAIN data = 1..n
    BY <1>1, <1>2 DEF StreamAt
  <2>. QED
    BY <1>2, <1>3, <2>1, Zenon DEF Write, StreamAt
<1>5. d \in Seq(Nat)
  <2>1. \A i \in 1..n : data[i] \in Nat
    BY <1>2
  <2>2. ASSUME NEW i \in 1..n, i - p \in 1..r PROVE buf[i - p] \in Nat
    <3>1. i - p \in 1..Len(buf)
      BY <1>2, <1>3, <2>2
    <3>. QED
      BY <3>1
  <2>3. d \in [1..n -> Nat]
    BY <2>1, <2>2
  <2>. QED
    BY <2>3
<1>. QED
  BY <1>3, <1>4, <1>5 DEF Streams, StreamAt

(* The stream behind a pair.                                               *)
PairWritten(pairs, w, key) == Write(Write(w, Counted(key)), Counted(pairs[key]))

(* g writes the pairs one by one.                                          *)
WritesPairs(g, pairs, q) ==
  \A U \in SUBSET (1..Len(q)) : U # {} =>
    g[U] = PairWritten(pairs, g[U \ {Max(U)}], q[Max(U)])

(* So does ToStream.                                                       *)
LEMMA ToStreamSteps ==
  ASSUME NEW pairs, Message(pairs), NEW s \in Streams, NEW q, NEW o, InOrder(pairs, q, o)
  PROVE  \E g : /\ ToStream(pairs, s) = g[1..Len(q)]
                /\ g[{}] = Write(s, UInt32(Len(q))) /\ WritesPairs(g, pairs, q)
<1>. DEFINE D == 1..Len(q)
            base == Write(s, UInt32(Len(q)))
            pick == [U \in SUBSET D |-> Max(U)]
            step == [a \in D \X Streams |-> PairWritten(pairs, a[2], q[a[1]])]
<1>1. Len(q) \in Nat /\ DOMAIN q = D /\ \A i \in D : q[i] \in DOMAIN pairs
  <2>1. q \in Seq(DOMAIN pairs)
    BY DEF InOrder
  <2>. QED
    BY <2>1
<1>2. IsFiniteSet(D)
  BY <1>1, FS_Interval
<1>3. \A U \in SUBSET D : U # {} => pick[U] \in U
  BY <1>1, GreatestOf
<1>4. \A x \in D, v \in Streams : step[<<x, v>>] = PairWritten(pairs, v, q[x])
  OBVIOUS
<1>. HIDE DEF step
<1>5. ASSUME NEW x \in D, NEW v \in Streams PROVE step[<<x, v>>] \in Streams
  <2>1. q[x] \in Strings /\ pairs[q[x]] \in Strings
    BY <1>1, PairOfMessage
  <2>2. Counted(q[x]) \in Seq(Nat) /\ Counted(pairs[q[x]]) \in Seq(Nat)
    BY <2>1, StringIsText
  <2>. QED
    BY <1>4, <2>2, WriteType DEF PairWritten
<1>6. base \in Streams
  <2>1. UInt32(Len(q)) \in Seq(Nat)
    BY NumberOfBytes DEF InOrder
  <2>. QED
    BY <2>1, WriteType
<1>. HIDE DEF pick, base
<1>7. PICK g \in [SUBSET D -> Streams] : IsFold(g, base, pick, step, D)
  <2>. HIDE DEF D
  <2>. QED
    BY <1>2, <1>3, <1>5, <1>6, FoldExists
<1>8. ASSUME NEW U \in SUBSET D
      PROVE  g[U] = IF U = {} THEN base ELSE PairWritten(pairs, g[U \ {Max(U)}], q[Max(U)])
  <2>. HIDE DEF D
  <2>1. CASE U = {}
    BY <1>7, <2>1 DEF IsFold
  <2>2. CASE U # {}
    <3>1. pick[U] = Max(U) /\ pick[U] \in D /\ g[U \ {pick[U]}] \in Streams
      BY <1>3, <2>2 DEF pick
    <3>2. g[U] = step[<<pick[U], g[U \ {pick[U]}]>>]
      BY <1>7, <2>2 DEF IsFold
    <3>. QED
      BY <1>4, <2>2, <3>1, <3>2
  <2>. QED
    BY <2>1, <2>2
<1>9. g = [U \in SUBSET D |->
             IF U = {} THEN base ELSE PairWritten(pairs, g[U \ {Max(U)}], q[Max(U)])]
  <2>1. g = [U \in SUBSET D |-> g[U]]
    OBVIOUS
  <2>. QED
    BY <1>8, <2>1
<1>. DEFINE h == CHOOSE h : h = [U \in SUBSET DOMAIN q |->
                   IF U = {} THEN base
                   ELSE LET x == Max(U)
                        IN Write(Write(h[U \ {x}], Counted(q[x])), Counted(pairs[q[x]]))]
<1>10. h = [U \in SUBSET D |->
              IF U = {} THEN base ELSE PairWritten(pairs, h[U \ {Max(U)}], q[Max(U)])]
  BY <1>1, <1>9 DEF PairWritten
<1>11. ToStream(pairs, s) = h[DOMAIN q]
  <2>1. q = SetToSeq(DOMAIN pairs) /\ Len(q) = Cardinality(DOMAIN pairs)
    BY DEF InOrder
  <2>. QED
    BY <2>1 DEF ToStream, FoldLeft, MapThenFoldSet, base
<1>. HIDE DEF h
<1>12. h[{}] = base /\ \A U \in SUBSET D : U # {} =>
          h[U] = PairWritten(pairs, h[U \ {Max(U)}], q[Max(U)])
  BY <1>10
<1>. QED
  BY <1>1, <1>11, <1>12 DEF base, WritesPairs
(* The pair of a key from position p.                                      *)
PairAt(data, p, pairs, key) ==
  At(data, p, Counted(key)) /\ At(data, p + 4 + Len(key), Counted(pairs[key]))

LEMMA PairMoved ==
  ASSUME NEW pairs, Message(pairs), NEW key \in DOMAIN pairs,
         NEW data \in Seq(Nat), NEW p \in Nat, PairAt(data, p, pairs, key),
         NEW other \in Seq(Nat), NEW r \in Nat, r + PairSize(pairs, key) <= Len(other),
         \A i \in 1..PairSize(pairs, key) : other[r + i] = data[p + i]
  PROVE  PairAt(other, r, pairs, key)
<1>1. key \in Strings /\ pairs[key] \in Strings
  BY PairOfMessage
<1>2. PICK a \in Seq(Nat), b \in Seq(Nat) : a = Counted(key) /\ b = Counted(pairs[key])
  BY <1>1, StringIsText
<1>3. PICK m \in Nat, n \in Nat :
        /\ m = Len(key) /\ n = Len(pairs[key]) /\ PairSize(pairs, key) = 8 + m + n
        /\ Len(a) = 4 + m /\ Len(b) = 4 + n
  BY <1>1, <1>2, StringIsText DEF PairSize
<1>4. At(data, p, a) /\ At(data, p + 4 + m, b)
  BY <1>2, <1>3 DEF PairAt
<1>5. At(other, r, a)
  <2>1. \A i \in 1..Len(a) : i \in 1..PairSize(pairs, key)
    BY <1>3
  <2>2. r + Len(a) <= Len(other)
    BY <1>3
  <2>. QED
    BY <1>4, <2>1, <2>2, AtMoved
<1>6. At(other, r + 4 + m, b)
  <2>1. ASSUME NEW i \in 1..Len(b) PROVE other[(r + 4 + m) + i] = data[(p + 4 + m) + i]
    <3>1. PICK k \in 1..PairSize(pairs, key) : k = 4 + m + i
      <4>1. i \in 1..(4 + n)
        BY <1>3
      <4>2. 4 + m + i \in 1..(8 + m + n)
        BY <4>1
      <4>. QED
        BY <1>3, <4>2
    <3>2. r + k = (r + 4 + m) + i /\ p + k = (p + 4 + m) + i
      BY <3>1
    <3>3. other[r + k] = data[p + k]
      OBVIOUS
    <3>. QED
      BY <3>2, <3>3
  <2>2. (r + 4 + m) + Len(b) <= Len(other) /\ r + 4 + m \in Nat /\ p + 4 + m \in Nat
    <3>1. (r + 4 + m) + (4 + n) = r + (8 + m + n) /\ r + 4 + m \in Nat /\ p + 4 + m \in Nat
      OBVIOUS
    <3>. QED
      BY <1>3, <3>1
  <2>. QED
    BY <1>4, <2>1, <2>2, AtMoved
<1>. QED
  BY <1>2, <1>3, <1>5, <1>6 DEF PairAt

LEMMA PairIsWritten ==
  ASSUME NEW pairs, Message(pairs), NEW key \in DOMAIN pairs,
         NEW data \in Seq(Nat), NEW p \in Nat, p + PairSize(pairs, key) <= Len(data)
  PROVE  \E d \in Seq(Nat) :
           /\ PairWritten(pairs, StreamAt(data, p), key) = StreamAt(d, p + PairSize(pairs, key))
           /\ PairAt(d, p, pairs, key) /\ Keeps(d, data, p)
<1>1. key \in Strings /\ pairs[key] \in Strings
  BY PairOfMessage
<1>2. PICK a \in Seq(Nat), b \in Seq(Nat) : a = Counted(key) /\ b = Counted(pairs[key])
  BY <1>1, StringIsText
<1>3. PICK m \in Nat, n \in Nat :
        /\ m = Len(key) /\ n = Len(pairs[key]) /\ PairSize(pairs, key) = 8 + m + n
        /\ Len(a) = 4 + m /\ Len(b) = 4 + n
  BY <1>1, <1>2, StringIsText DEF PairSize
<1>4. PICK r \in Nat : r = p + Len(a) /\ r = p + 4 + m /\ r + Len(b) = p + PairSize(pairs, key)
  <2>1. p + 4 + m \in Nat /\ p + 4 + m = p + (4 + m) /\ (p + 4 + m) + (4 + n) = p + (8 + m + n)
    OBVIOUS
  <2>. QED
    BY <1>3, <2>1
<1>5. PICK c \in Seq(Nat) :
        /\ Write(StreamAt(data, p), a) = StreamAt(c, r)
        /\ At(c, p, a) /\ Keeps(c, data, p)
  <2>1. p + Len(a) <= Len(data)
    BY <1>3
  <2>. QED
    BY <1>4, <2>1, WriteFits
<1>6. PICK d \in Seq(Nat) :
        /\ Write(StreamAt(c, r), b) = StreamAt(d, r + Len(b))
        /\ At(d, r, b) /\ Keeps(d, c, r)
  <2>1. r + Len(b) <= Len(c)
    BY <1>4, <1>5 DEF Keeps
  <2>. QED
    BY <2>1, WriteFits
<1>7. At(d, p, a)
  <2>1. \A i \in 1..Len(a) : p + i \in 1..r
    BY <1>3, <1>4
  <2>2. \A i \in 1..Len(a) : d[p + i] = c[p + i]
    BY <1>6, <2>1 DEF Keeps
  <2>3. p + Len(a) <= Len(d)
    BY <1>3, <1>5, <1>6 DEF Keeps
  <2>. QED
    BY <1>5, <2>2, <2>3, AtMoved
<1>8. PairWritten(pairs, StreamAt(data, p), key) = StreamAt(d, p + PairSize(pairs, key))
  BY <1>2, <1>4, <1>5, <1>6 DEF PairWritten
<1>9. PairAt(d, p, pairs, key)
  BY <1>2, <1>3, <1>4, <1>6, <1>7 DEF PairAt
<1>10. Keeps(d, data, p)
  <2>1. \A i \in 1..p : i \in 1..r
    BY <1>4
  <2>. QED
    BY <1>5, <1>6, <2>1 DEF Keeps
<1>. QED
  BY <1>8, <1>9, <1>10
-----------------------------------------------------------------------------
(* A message from position p, and its pairs.                               *)
PairsAt(data, p, pairs, q, o, n) ==
  /\ At(data, p, UInt32(Len(q)))
  /\ \A j \in 1..n : PairAt(data, p + 4 + o[j - 1], pairs, q[j])

MessageAt(data, p, id, pairs, q, o) ==
  /\ p + MsgSize(pairs) <= Len(data)
  /\ At(data, p, ClassID(id)) /\ PairsAt(data, p + 16, pairs, q, o, Len(q))

LEMMA OrderTypes ==
  ASSUME NEW pairs, Message(pairs), NEW q, NEW o, InOrder(pairs, q, o)
  PROVE  /\ q \in Seq(DOMAIN pairs) /\ Len(q) \in Nat /\ o[Len(q)] \in Nat
         /\ MsgSize(pairs) \in Nat /\ MsgSize(pairs) = 20 + o[Len(q)]
         /\ UInt32(Len(q)) \in Seq(Nat) /\ Len(UInt32(Len(q))) = 4
<1>1. q \in Seq(DOMAIN pairs) /\ UInt32(Len(q)) \in Seq(Nat) /\ Len(UInt32(Len(q))) = 4
  BY NumberOfBytes DEF InOrder
<1>2. PICK n \in Nat : n = Len(q)
  BY <1>1
<1>3. o \in [0..n -> Nat] /\ MsgSize(pairs) = 20 + o[n]
  BY <1>2 DEF InOrder
<1>4. o[n] \in Nat /\ 20 + o[n] \in Nat
  BY <1>3
<1>. QED
  BY <1>1, <1>2, <1>3, <1>4

(* Between the offsets of a pair and of the next is the pair.              *)
LEMMA OffsetTypes ==
  ASSUME NEW pairs, Message(pairs), NEW q, NEW o, InOrder(pairs, q, o), NEW j \in 1..Len(q)
  PROVE  \E a \in Nat, b \in Nat, m \in Nat :
           /\ a = o[j - 1] /\ b = o[j] /\ m = PairSize(pairs, q[j])
           /\ b = a + m /\ b <= o[Len(q)] /\ q[j] \in DOMAIN pairs
<1>1. PICK n \in Nat : n = Len(q)
  BY OrderTypes
<1>2. o \in [0..n -> Nat] /\ (\A k \in 0..n : \A i \in 0..k : o[i] <= o[k])
      /\ o[j] = o[j - 1] + PairSize(pairs, q[j])
  BY <1>1 DEF InOrder
<1>3. n \in 0..n /\ j \in 0..n /\ j - 1 \in 0..n
  BY <1>1
<1>4. o[j] \in Nat /\ o[j - 1] \in Nat /\ o[j] <= o[n]
  BY <1>2, <1>3
<1>5. q[j] \in DOMAIN pairs
  BY OrderTypes
<1>6. PairSize(pairs, q[j]) \in Nat
  BY <1>5, PairOfMessage
<1>. QED
  BY <1>1, <1>2, <1>4, <1>5, <1>6

(* One pair more behind those that are written.                            *)
LEMMA OnePairMore ==
  ASSUME NEW pairs, Message(pairs), NEW q, NEW o, InOrder(pairs, q, o),
         NEW p \in Nat, NEW c \in Seq(Nat), p + 4 + o[Len(q)] <= Len(c),
         NEW j \in 1..Len(q), PairsAt(c, p, pairs, q, o, j - 1)
  PROVE  \E d \in Seq(Nat) :
           /\ PairWritten(pairs, StreamAt(c, p + 4 + o[j - 1]), q[j]) = StreamAt(d, p + 4 + o[j])
           /\ PairsAt(d, p, pairs, q, o, j) /\ Keeps(d, c, p)
<1>. DEFINE u == UInt32(Len(q))
<1>1. PICK a \in Nat, b \in Nat, m \in Nat :
        /\ a = o[j - 1] /\ b = o[j] /\ m = PairSize(pairs, q[j])
        /\ b = a + m /\ b <= o[Len(q)] /\ q[j] \in DOMAIN pairs
  BY OffsetTypes
<1>2. o[Len(q)] \in Nat /\ u \in Seq(Nat) /\ Len(u) = 4 /\ Len(c) \in Nat /\ Len(q) \in Nat
  BY OrderTypes
<1>3. PICK x \in Nat : x = p + 4 + a /\ x + m = p + 4 + b /\ x + m <= Len(c)
  <2>1. PICK l \in Nat : l = o[Len(q)] /\ b <= l /\ b = a + m
    BY <1>1, <1>2
  <2>2. p + 4 + a \in Nat /\ (p + 4 + a) + m = p + 4 + b /\ (p + 4 + a) + m <= p + 4 + l
    BY <2>1
  <2>3. (p + 4 + a) + m <= Len(c)
    BY <1>2, <2>1, <2>2
  <2>. QED
    BY <2>2, <2>3
<1>4. PICK d \in Seq(Nat) :
        /\ PairWritten(pairs, StreamAt(c, x), q[j]) = StreamAt(d, x + m)
        /\ PairAt(d, x, pairs, q[j]) /\ Keeps(d, c, x)
  BY <1>1, <1>3, PairIsWritten
<1>. HIDE DEF u
<1>9. ASSUME NEW i \in 1..Len(q)
      PROVE  \E e \in Nat, f \in Nat, w \in Nat :
               /\ e = o[i - 1] /\ f = o[i] /\ w = PairSize(pairs, q[i])
               /\ f = e + w /\ q[i] \in DOMAIN pairs
  <2>1. PICK e \in Nat, f \in Nat, w \in Nat :
               /\ e = o[i - 1] /\ f = o[i] /\ w = PairSize(pairs, q[i])
               /\ f = e + w /\ f <= o[Len(q)] /\ q[i] \in DOMAIN pairs
    BY OffsetTypes
  <2>. QED
    BY <2>1
<1>5. At(d, p, u)
  <2>1. \A i \in 1..4 : p + i \in 1..x
    BY <1>3
  <2>2. \A i \in 1..Len(u) : d[p + i] = c[p + i]
    BY <1>2, <1>4, <2>1 DEF Keeps
  <2>3. At(c, p, u)
    BY DEF PairsAt, u
  <2>4. p + Len(u) <= Len(d)
    BY <1>4, <2>3 DEF At, Keeps
  <2>. QED
    BY <1>2, <2>2, <2>3, <2>4, AtMoved
<1>6. ASSUME NEW i \in 1..j PROVE PairAt(d, p + 4 + o[i - 1], pairs, q[i])
  <2>1. CASE i = j
    BY <1>1, <1>3, <1>4, <2>1
  <2>2. CASE i # j
    <3>1. i \in 1..(j - 1) /\ i \in 1..Len(q) /\ i \in 0..(j - 1) /\ j - 1 \in 0..Len(q)
      BY <1>2, <2>2
    <3>2. PICK e \in Nat, f \in Nat, w \in Nat :
            /\ e = o[i - 1] /\ f = o[i] /\ w = PairSize(pairs, q[i]) /\ f = e + w
            /\ q[i] \in DOMAIN pairs
      BY <1>9, <3>1
    <3>3. f <= a
      BY <1>1, <3>1, <3>2 DEF InOrder
    <3>4. PICK y \in Nat : y = p + 4 + e /\ y + w <= x
      <4>1. p + 4 + e \in Nat /\ (p + 4 + e) + w <= p + 4 + a
        <5>1. e + w <= a
          BY <3>2, <3>3
        <5>. QED
          BY <5>1
      <4>. QED
        BY <1>3, <4>1
    <3>5. \A k \in 1..w : y + k \in 1..x
      BY <3>4
    <3>6. \A k \in 1..w : d[y + k] = c[y + k]
      BY <1>4, <3>5 DEF Keeps
    <3>7. y + w <= Len(d)
      BY <1>2, <1>3, <1>4, <3>4 DEF Keeps
    <3>8. PairAt(c, y, pairs, q[i])
      BY <3>1, <3>2, <3>4 DEF PairsAt
    <3>9. PairAt(d, y, pairs, q[i])
      BY <3>2, <3>6, <3>7, <3>8, PairMoved
    <3>. QED
      BY <3>2, <3>4, <3>9
  <2>. QED
    BY <2>1, <2>2
<1>7. Keeps(d, c, p)
  <2>1. \A i \in 1..p : i \in 1..x
    BY <1>3
  <2>. QED
    BY <1>4, <2>1 DEF Keeps
<1>8. PairsAt(d, p, pairs, q, o, j)
  BY <1>5, <1>6 DEF PairsAt, u
<1>. QED
  BY <1>1, <1>3, <1>4, <1>7, <1>8

(* Pairs are where ToStream puts them.                                     *)
LEMMA PairsAreWritten ==
  ASSUME NEW pairs, Message(pairs), NEW q, NEW o, InOrder(pairs, q, o),
         NEW data \in Seq(Nat), NEW p \in Nat, p + 4 + o[Len(q)] <= Len(data)
  PROVE  \E d \in Seq(Nat) :
           /\ ToStream(pairs, StreamAt(data, p)) = StreamAt(d, p + 4 + o[Len(q)])
           /\ PairsAt(d, p, pairs, q, o, Len(q)) /\ Keeps(d, data, p)
<1>1. PICK n \in Nat, u \in Seq(Nat) :
        n = Len(q) /\ u = UInt32(n) /\ o[n] \in Nat /\ Len(u) = 4
  BY OrderTypes
<1>2. PICK s \in Streams : s = StreamAt(data, p)
  BY DEF StreamAt, Streams
<1>3. PICK g : /\ ToStream(pairs, s) = g[1..Len(q)] /\ g[{}] = Write(s, UInt32(Len(q)))
               /\ WritesPairs(g, pairs, q)
  BY ToStreamSteps
<1>. DEFINE Done(j, d) == /\ g[1..j] = StreamAt(d, p + 4 + o[j])
                          /\ PairsAt(d, p, pairs, q, o, j) /\ Keeps(d, data, p)
            T == {j \in 0..n : \E d \in Seq(Nat) : Done(j, d)}
<1>4. 0 \in T
  <2>1. p + Len(u) <= Len(data)
    BY <1>1
  <2>2. PICK d \in Seq(Nat) : /\ Write(StreamAt(data, p), u) = StreamAt(d, p + Len(u))
                              /\ At(d, p, u) /\ Keeps(d, data, p)
    BY <1>1, <2>1, WriteFits
  <2>3. o[0] = 0 /\ p + 4 + 0 = p + 4 /\ 1..0 = {}
    BY DEF InOrder
  <2>4. PairsAt(d, p, pairs, q, o, 0)
    BY <1>1, <2>2, <2>3 DEF PairsAt
  <2>5. g[1..0] = StreamAt(d, p + 4 + o[0])
    BY <1>1, <1>2, <1>3, <2>2, <2>3
  <2>6. Done(0, d)
    BY <2>2, <2>4, <2>5
  <2>. HIDE DEF Done
  <2>. QED
    BY <1>1, <2>6
<1>5. ASSUME NEW k \in 1..n, k - 1 \in T PROVE k \in T
  <2>1. PICK c \in Seq(Nat) : Done(k - 1, c)
    BY <1>5
  <2>. HIDE DEF T
  <2>2. PICK d \in Seq(Nat) :
          /\ PairWritten(pairs, StreamAt(c, p + 4 + o[k - 1]), q[k]) = StreamAt(d, p + 4 + o[k])
          /\ PairsAt(d, p, pairs, q, o, k) /\ Keeps(d, c, p)
    <3>1. k \in 1..Len(q) /\ p + 4 + o[Len(q)] <= Len(c)
      BY <1>1, <2>1 DEF Keeps
    <3>. QED
      BY <2>1, <3>1, OnePairMore
  <2>3. g[1..k] = PairWritten(pairs, g[1..(k - 1)], q[k])
    <3>1. k \in Nat \ {0} /\ 1..k \in SUBSET (1..Len(q))
      BY <1>1
    <3>. QED
      BY <1>3, <3>1, LastOfInterval DEF WritesPairs
  <2>4. Done(k, d)
    BY <2>1, <2>2, <2>3 DEF Keeps
  <2>. HIDE DEF Done
  <2>. QED
    BY <2>4 DEF T
<1>6. PICK d \in Seq(Nat) : Done(n, d)
  <2>1. n \in T
    <3>1. n \in 0..n
      BY <1>1
    <3>. HIDE DEF T
    <3>. QED
      BY <1>1, <1>4, <1>5, <3>1, UpTo
  <2>. QED
    BY <2>1
<1>. QED
  BY <1>1, <1>2, <1>3, <1>6
-----------------------------------------------------------------------------
(* FromStream of one pair more, and the first m pairs.                     *)
PairRead(v) ==
  [rest |-> AfterStr(AfterStr(v.rest)),
   pairs |-> Inserted(v.pairs, Str(v.rest), Str(AfterStr(v.rest)))]

FirstPairs(pairs, q, m) == [key \in {q[i] : i \in 1..m} |-> pairs[key]]

ReadAt(data, p, pairs, q, o, m) ==
  [rest |-> StreamAt(data, p + 4 + o[m]), pairs |-> FirstPairs(pairs, q, m)]

LEMMA PairIsRead ==
  ASSUME NEW pairs, Message(pairs), NEW q, NEW o, InOrder(pairs, q, o),
         NEW p \in Nat, NEW data \in Seq(Nat), PairsAt(data, p, pairs, q, o, Len(q)),
         NEW m \in 1..Len(q)
  PROVE  ReadAt(data, p, pairs, q, o, m) = PairRead(ReadAt(data, p, pairs, q, o, m - 1))
<1>1. PICK a \in Nat, b \in Nat, w \in Nat :
        /\ a = o[m - 1] /\ b = o[m] /\ w = PairSize(pairs, q[m])
        /\ b = a + w /\ b <= o[Len(q)] /\ q[m] \in DOMAIN pairs
  BY OffsetTypes
<1>2. PICK key \in Strings, value \in Strings :
        key = q[m] /\ value = pairs[key] /\ w = 8 + Len(key) + Len(value)
  BY <1>1, PairOfMessage DEF PairSize
<1>3. PICK k \in Nat, l \in Nat : k = Len(key) /\ l = Len(value) /\ w = 8 + k + l
  BY <1>2, StringIsText
<1>4. PICK x \in Nat, y \in Nat :
        x = p + 4 + a /\ y = x + 4 + k /\ y + 4 + l = p + 4 + b
  <2>1. p + 4 + a \in Nat /\ (p + 4 + a) + 4 + k \in Nat
    OBVIOUS
  <2>2. b = a + (8 + k + l)
    BY <1>1, <1>3
  <2>3. ((p + 4 + a) + 4 + k) + 4 + l = p + 4 + b
    BY <2>2
  <2>. QED
    BY <2>1, <2>3
<1>5. PairAt(data, x, pairs, key)
  BY <1>1, <1>2, <1>4 DEF PairsAt
<1>6. Str(StreamAt(data, x)) = key /\ AfterStr(StreamAt(data, x)) = StreamAt(data, y)
  BY <1>3, <1>4, <1>5, StringRead DEF PairAt
<1>7. Str(StreamAt(data, y)) = value /\ AfterStr(StreamAt(data, y)) = StreamAt(data, p + 4 + b)
  <2>1. At(data, y, Counted(value))
    BY <1>2, <1>3, <1>4, <1>5 DEF PairAt
  <2>2. /\ Str(StreamAt(data, y)) = value
        /\ AfterStr(StreamAt(data, y)) = StreamAt(data, y + 4 + Len(value))
    BY <2>1, StringRead
  <2>. QED
    BY <1>3, <1>4, <2>2
<1>8. FirstPairs(pairs, q, m) = Inserted(FirstPairs(pairs, q, m - 1), key, value)
  <2>. DEFINE f == FirstPairs(pairs, q, m - 1)
  <2>1. {q[i] : i \in 1..m} = {q[i] : i \in 1..(m - 1)} \cup {key}
    <3>1. \A i : i \in 1..m <=> i \in 1..(m - 1) \/ i = m
      <4>1. m \in Nat \ {0}
        BY OrderTypes
      <4>. QED
        BY <4>1
    <3>. QED
      BY <1>2, <3>1
  <2>2. DOMAIN f = {q[i] : i \in 1..(m - 1)} /\ \A j \in DOMAIN f : f[j] = pairs[j]
    BY DEF FirstPairs
  <2>. HIDE DEF f
  <2>3. Inserted(f, key, value) = [j \in DOMAIN f \cup {key} |-> pairs[j]]
    BY <1>2, <2>2 DEF Inserted
  <2>. QED
    BY <2>1, <2>2, <2>3 DEF FirstPairs, f
<1>9. ReadAt(data, p, pairs, q, o, m - 1).rest = StreamAt(data, x)
      /\ ReadAt(data, p, pairs, q, o, m - 1).pairs = FirstPairs(pairs, q, m - 1)
  BY <1>1, <1>4 DEF ReadAt
<1>. QED
  BY <1>1, <1>6, <1>7, <1>8, <1>9 DEF ReadAt, PairRead

(* FromStream reads what is there.                                         *)
LEMMA PairsAreRead ==
  ASSUME NEW pairs, Message(pairs), NEW q, NEW o, InOrder(pairs, q, o),
         NEW p \in Nat, NEW data \in Seq(Nat), PairsAt(data, p, pairs, q, o, Len(q))
  PROVE  FromStream(StreamAt(data, p)) =
           [rest |-> StreamAt(data, p + 4 + o[Len(q)]), pairs |-> pairs]
<1>1. PICK n \in Nat, u \in Seq(Nat) :
        n = Len(q) /\ u = UInt32(n) /\ o[n] \in Nat /\ Len(u) = 4 /\ Number(u) = n
  <2>1. Len(q) \in Words
    BY DEF InOrder
  <2>2. Number(UInt32(Len(q))) = Len(q)
    BY <2>1, NumberOfBytes
  <2>. QED
    BY <2>2, OrderTypes
<1>2. PICK s : s = StreamAt(data, p)
  OBVIOUS
<1>3. Taken(s, 4) = u /\ Read(s, 4) = StreamAt(data, p + 4)
  <2>1. Taken(s, Len(u)) = u /\ Read(s, Len(u)) = StreamAt(data, p + Len(u))
    BY <1>1, <1>2, TakenFits DEF PairsAt
  <2>. QED
    BY <1>1, <2>1
<1>4. PICK first : first = [rest |-> Read(s, 4), pairs |-> <<>>]
  OBVIOUS
<1>5. ReadAt(data, p, pairs, q, o, 0) = first
  <2>1. {q[i] : i \in 1..0} = {} /\ o[0] = 0 /\ p + 4 + 0 = p + 4
    BY DEF InOrder
  <2>2. FirstPairs(pairs, q, 0) = <<>>
    BY <2>1 DEF FirstPairs
  <2>. QED
    BY <1>3, <1>4, <2>1, <2>2 DEF ReadAt
<1>. DEFINE sol == [m \in 0..n |-> ReadAt(data, p, pairs, q, o, m)]
<1>6. sol = [m \in 0..n |-> IF m = 0 THEN first ELSE PairRead(sol[m - 1])]
  <2>1. ASSUME NEW m \in 0..n
        PROVE  ReadAt(data, p, pairs, q, o, m) = IF m = 0 THEN first ELSE PairRead(sol[m - 1])
    <3>1. CASE m = 0
      BY <1>5, <3>1
    <3>2. CASE m # 0
      <4>1. m \in 1..Len(q) /\ m - 1 \in 0..n
        BY <1>1, <3>2
      <4>2. sol[m - 1] = ReadAt(data, p, pairs, q, o, m - 1)
        BY <4>1
      <4>. QED
        BY <3>2, <4>1, <4>2, PairIsRead
    <3>. QED
      BY <3>1, <3>2
  <2>. QED
    BY <2>1, Zenon
<1>. DEFINE after == CHOOSE f : f = [m \in 0..n |->
                       IF m = 0 THEN [rest |-> Read(s, 4), pairs |-> <<>>]
                       ELSE LET key == f[m - 1].rest
                                value == AfterStr(key)
                            IN [rest |-> AfterStr(value),
                                pairs |-> Inserted(f[m - 1].pairs, Str(key), Str(value))]]
<1>7. FromStream(s) = after[n]
  BY <1>1, <1>3, Zenon DEF FromStream
<1>8. after = [m \in 0..n |-> IF m = 0 THEN first ELSE PairRead(after[m - 1])]
  <2>. DEFINE Is(f) == f = [m \in 0..n |-> IF m = 0 THEN first ELSE PairRead(f[m - 1])]
  <2>1. after = CHOOSE f : Is(f)
    BY <1>4, Zenon DEF PairRead
  <2>2. Is(sol)
    BY <1>6
  <2>. HIDE DEF Is, after, sol
  <2>3. Is(after)
    BY <2>1, <2>2, Zenon
  <2>. QED
    BY <2>3 DEF Is
<1>. HIDE DEF after, sol
<1>. DEFINE T == {m \in 0..n : after[m] = sol[m]}
<1>9. 0 \in T
  <2>1. 0 \in 0..n
    BY <1>1
  <2>. QED
    BY <1>6, <1>8, <2>1
<1>10. ASSUME NEW m \in 1..n, m - 1 \in T PROVE m \in T
  <2>1. m \in 0..n /\ m # 0
    BY <1>1
  <2>. QED
    BY <1>6, <1>8, <1>10, <2>1
<1>11. after[n] = sol[n]
  <2>1. n \in 0..n
    BY <1>1
  <2>. HIDE DEF T
  <2>2. n \in T
    BY <1>9, <1>10, <2>1, UpTo
  <2>. QED
    BY <2>2 DEF T
<1>12. sol[n] = ReadAt(data, p, pairs, q, o, n)
  <2>1. n \in 0..n
    BY <1>1
  <2>. QED
    BY <2>1 DEF sol
<1>13. FirstPairs(pairs, q, n) = pairs
  <2>1. DOMAIN pairs = {q[i] : i \in 1..n} /\ pairs = [key \in DOMAIN pairs |-> pairs[key]]
    BY <1>1 DEF InOrder, Message
  <2>. QED
    BY <2>1 DEF FirstPairs
<1>. QED
  BY <1>1, <1>2, <1>7, <1>11, <1>12, <1>13 DEF ReadAt
-----------------------------------------------------------------------------
LEMMA ClassIDType ==
  ASSUME NEW id \in Nat
  PROVE  ClassID(id) \in Seq(Nat) /\ Len(ClassID(id)) = 16
BY DEF ClassID

(* A whole message, with its class ID.                                     *)
LEMMA MessageIsWritten ==
  ASSUME NEW pairs, Message(pairs), NEW q, NEW o, InOrder(pairs, q, o), NEW id \in Nat,
         NEW data \in Seq(Nat), NEW p \in Nat, p + MsgSize(pairs) <= Len(data)
  PROVE  \E d \in Seq(Nat) :
           /\ MsgToStream(id, pairs, StreamAt(data, p)) = StreamAt(d, p + MsgSize(pairs))
           /\ MessageAt(d, p, id, pairs, q, o) /\ Keeps(d, data, p)
<1>1. PICK n \in Nat, l \in Nat : n = MsgSize(pairs) /\ l = o[Len(q)] /\ n = 20 + l
  <2>1. MsgSize(pairs) \in Nat /\ o[Len(q)] \in Nat /\ MsgSize(pairs) = 20 + o[Len(q)]
    BY OrderTypes
  <2>. QED
    BY <2>1
<1>10. n = 20 + l
  BY <1>1
<1>2. PICK u \in Seq(Nat) : u = ClassID(id) /\ Len(u) = 16
  BY ClassIDType
<1>3. PICK r \in Nat : r = p + 16 /\ r + 4 + l = p + n /\ r <= p + n /\ r + 4 + l <= Len(data)
  <2>1. p + 16 \in Nat /\ (p + 16) + 4 + l = p + n /\ p + 16 <= p + n
    BY <1>10
  <2>. QED
    BY <1>1, <2>1
<1>4. PICK c \in Seq(Nat) :
        /\ Write(StreamAt(data, p), u) = StreamAt(c, r) /\ At(c, p, u) /\ Keeps(c, data, p)
  <2>1. p + Len(u) <= Len(data) /\ p + Len(u) = r
    BY <1>1, <1>2, <1>3
  <2>. QED
    BY <2>1, WriteFits
<1>5. PICK d \in Seq(Nat) :
        /\ ToStream(pairs, StreamAt(c, r)) = StreamAt(d, r + 4 + o[Len(q)])
        /\ PairsAt(d, r, pairs, q, o, Len(q)) /\ Keeps(d, c, r)
  <2>1. r + 4 + o[Len(q)] <= Len(c)
    BY <1>1, <1>3, <1>4 DEF Keeps
  <2>. QED
    BY <2>1, PairsAreWritten
<1>6. Keeps(d, data, p)
  <2>1. \A i \in 1..p : i \in 1..r
    BY <1>3
  <2>. QED
    BY <1>4, <1>5, <2>1 DEF Keeps
<1>7. At(d, p, u)
  <2>1. \A i \in 1..16 : p + i \in 1..r
    BY <1>3
  <2>2. \A i \in 1..Len(u) : d[p + i] = c[p + i]
    BY <1>2, <1>5, <2>1 DEF Keeps
  <2>3. p + Len(u) <= Len(d)
    BY <1>4, <1>5 DEF Keeps, At
  <2>. QED
    BY <1>4, <2>2, <2>3, AtMoved
<1>8. MessageAt(d, p, id, pairs, q, o)
  <2>1. Len(d) = Len(data)
    BY <1>6 DEF Keeps
  <2>. QED
    BY <1>2, <1>3, <1>5, <1>7, <2>1 DEF MessageAt
<1>9. MsgToStream(id, pairs, StreamAt(data, p)) = StreamAt(d, p + MsgSize(pairs))
  BY <1>1, <1>2, <1>3, <1>4, <1>5 DEF MsgToStream
<1>. QED
  BY <1>6, <1>8, <1>9

(* The bytes of a message are a message wherever they are.                 *)
LEMMA MessageMoved ==
  ASSUME NEW pairs, Message(pairs), NEW q, NEW o, InOrder(pairs, q, o), NEW id \in Nat,
         NEW data \in Seq(Nat), NEW p \in Nat, MessageAt(data, p, id, pairs, q, o),
         NEW other \in Seq(Nat), NEW r \in Nat, r + MsgSize(pairs) <= Len(other),
         \A i \in 1..MsgSize(pairs) : other[r + i] = data[p + i]
  PROVE  MessageAt(other, r, id, pairs, q, o)
<1>1. PICK n \in Nat, l \in Nat : n = MsgSize(pairs) /\ l = o[Len(q)] /\ n = 20 + l
  <2>1. MsgSize(pairs) \in Nat /\ o[Len(q)] \in Nat /\ MsgSize(pairs) = 20 + o[Len(q)]
    BY OrderTypes
  <2>. QED
    BY <2>1
<1>10. n = 20 + l
  BY <1>1
<1>2. PICK c \in Seq(Nat), u \in Seq(Nat) :
        c = ClassID(id) /\ Len(c) = 16 /\ u = UInt32(Len(q)) /\ Len(u) = 4
  BY ClassIDType, OrderTypes
<1>3. \A i \in 1..n : other[r + i] = data[p + i]
  BY <1>1
<1>4. ASSUME NEW a \in Nat, NEW m \in Nat, a + m <= n
      PROVE  /\ r + a \in Nat /\ p + a \in Nat /\ (r + a) + m <= Len(other)
             /\ \A i \in 1..m : other[(r + a) + i] = data[(p + a) + i]
  <2>1. r + a \in Nat /\ p + a \in Nat /\ (r + a) + m <= r + n
    BY <1>4
  <2>2. (r + a) + m <= Len(other)
    <3>1. PICK k \in Nat : k = Len(other) /\ r + n <= k
      BY <1>1
    <3>2. (r + a) + m <= k
      BY <2>1, <3>1
    <3>. QED
      BY <3>1, <3>2
  <2>3. ASSUME NEW i \in 1..m PROVE other[(r + a) + i] = data[(p + a) + i]
    <3>1. PICK k \in 1..n : k = a + i
      BY <1>4
    <3>2. r + k = (r + a) + i /\ p + k = (p + a) + i
      BY <3>1
    <3>. QED
      BY <1>3, <3>1, <3>2
  <2>. QED
    BY <2>1, <2>2, <2>3
<1>5. At(other, r, c)
  <2>1. At(data, p, c) /\ 0 + 16 <= n /\ r + 0 = r /\ p + 0 = p
    BY <1>1, <1>2 DEF MessageAt
  <2>2. (r + 0) + 16 <= Len(other) /\ \A i \in 1..16 : other[(r + 0) + i] = data[(p + 0) + i]
    BY <1>4, <2>1
  <2>3. r + Len(c) <= Len(other) /\ \A i \in 1..Len(c) : other[r + i] = data[p + i]
    BY <1>2, <2>1, <2>2
  <2>. QED
    BY <2>1, <2>3, AtMoved
<1>6. At(other, r + 16, u)
  <2>1. At(data, p + 16, u) /\ 16 + 4 <= n
    BY <1>1, <1>2 DEF MessageAt, PairsAt
  <2>2. /\ r + 16 \in Nat /\ p + 16 \in Nat /\ (r + 16) + 4 <= Len(other)
        /\ \A i \in 1..4 : other[(r + 16) + i] = data[(p + 16) + i]
    BY <1>4, <2>1
  <2>3. /\ (r + 16) + Len(u) <= Len(other)
        /\ \A i \in 1..Len(u) : other[(r + 16) + i] = data[(p + 16) + i]
    BY <1>2, <2>2
  <2>. QED
    BY <2>1, <2>2, <2>3, AtMoved
<1>7. ASSUME NEW j \in 1..Len(q) PROVE PairAt(other, (r + 16) + 4 + o[j - 1], pairs, q[j])
  <2>1. PICK a \in Nat, b \in Nat, m \in Nat :
          /\ a = o[j - 1] /\ b = o[j] /\ m = PairSize(pairs, q[j])
          /\ b = a + m /\ b <= o[Len(q)] /\ q[j] \in DOMAIN pairs
    BY OffsetTypes
  <2>2. PICK e \in Nat : e = 20 + a /\ e + m <= n
    <3>1. b = a + m /\ b <= l
      BY <1>1, <2>1
    <3>2. a + m <= l
      BY <3>1
    <3>3. 20 + a \in Nat /\ (20 + a) + m <= 20 + l
      BY <3>2
    <3>. QED
      BY <1>10, <3>3
  <2>3. /\ r + e \in Nat /\ p + e \in Nat /\ (r + e) + m <= Len(other)
        /\ \A i \in 1..m : other[(r + e) + i] = data[(p + e) + i]
    BY <1>4, <2>2
  <2>4. (p + 16) + 4 + a = p + e /\ (r + 16) + 4 + a = r + e
    BY <2>2
  <2>5. PairAt(data, p + e, pairs, q[j])
    BY <2>1, <2>4 DEF MessageAt, PairsAt
  <2>6. PairAt(other, r + e, pairs, q[j])
    BY <2>1, <2>3, <2>5, PairMoved
  <2>. QED
    BY <2>1, <2>4, <2>6
<1>. QED
  BY <1>2, <1>5, <1>6, <1>7 DEF MessageAt, PairsAt

(* A message is read by a creator of its class, and only its ID is read    *)
(* without one.                                                            *)
LEMMA MessageIsRead ==
  ASSUME NEW pairs, Message(pairs), NEW q, NEW o, InOrder(pairs, q, o), NEW id \in Nat,
         NEW data \in Seq(Nat), NEW p \in Nat, MessageAt(data, p, id, pairs, q, o),
         NEW creators \in SUBSET Nat
  PROVE  /\ id \in creators =>
              StreamToMsg(creators, StreamAt(data, p)) =
                [rest |-> StreamAt(data, p + MsgSize(pairs)), pairs |-> pairs]
         /\ id \notin creators =>
              StreamToMsg(creators, StreamAt(data, p)) = [rest |-> StreamAt(data, p + 16), pairs |-> 0]
<1>1. PICK n \in Nat, l \in Nat : n = MsgSize(pairs) /\ l = o[Len(q)] /\ n = 20 + l
  <2>1. MsgSize(pairs) \in Nat /\ o[Len(q)] \in Nat /\ MsgSize(pairs) = 20 + o[Len(q)]
    BY OrderTypes
  <2>. QED
    BY <2>1
<1>10. n = 20 + l
  BY <1>1
<1>2. PICK c \in Seq(Nat) : c = ClassID(id) /\ Len(c) = 16
  BY ClassIDType
<1>3. Taken(StreamAt(data, p), 16) = c /\ Read(StreamAt(data, p), 16) = StreamAt(data, p + 16)
  <2>1. Taken(StreamAt(data, p), Len(c)) = c /\ Read(StreamAt(data, p), Len(c)) = StreamAt(data, p + Len(c))
    BY <1>2, TakenFits DEF MessageAt
  <2>. QED
    BY <1>2, <2>1
<1>4. \A k \in creators : c = ClassID(k) <=> k = id
  <2>1. \A k \in Nat : ClassID(k)[1] = k
    BY DEF ClassID
  <2>. QED
    BY <1>2, <2>1
<1>5. FromStream(StreamAt(data, p + 16)) =
        [rest |-> StreamAt(data, p + MsgSize(pairs)), pairs |-> pairs]
  <2>1. PICK r \in Nat : r = p + 16 /\ r + 4 + l = p + n
    <3>1. p + 16 \in Nat /\ (p + 16) + 4 + l = p + n
      BY <1>10
    <3>. QED
      BY <3>1
  <2>2. PairsAt(data, r, pairs, q, o, Len(q))
    BY <2>1 DEF MessageAt
  <2>3. FromStream(StreamAt(data, r)) = [rest |-> StreamAt(data, r + 4 + o[Len(q)]), pairs |-> pairs]
    BY <2>2, PairsAreRead
  <2>. QED
    BY <1>1, <2>1, <2>3
<1>. QED
  BY <1>3, <1>4, <1>5 DEF StreamToMsg

(* A stream at its start is copied as it is, and is its string.            *)
LEMMA CopiedAtStart ==
  ASSUME NEW data \in Seq(Nat)
  PROVE  CopyOf(StreamAt(data, 0), <<>>) = StreamAt(data, 0) /\ GetAsString(StreamAt(data, 0)) = data
<1>1. At(data, 0, data)
  BY DEF At
<1>2. Taken(StreamAt(data, 0), Size(StreamAt(data, 0))) = data
  BY <1>1, TakenFits DEF Size, StreamAt
<1>3. SubSeq(<<>>, 1, 0) = <<>> /\ [i \in 1..0 |-> NUL] = <<>> /\ data \o <<>> = data
  OBVIOUS
<1>4. StreamAt(data, 0).pos = 0
  BY DEF StreamAt
<1>5. CopyOf(StreamAt(data, 0), <<>>) = MemoryDataStream(data)
  BY <1>2, <1>3, <1>4, Zenon DEF CopyOf
<1>6. GetAsString(StreamAt(data, 0)) = data
  BY <1>2, <1>3, <1>4, Zenon DEF GetAsString
<1>. QED
  BY <1>5, <1>6 DEF MemoryDataStream, StreamAt

(* A copy of a stream begins with what is behind the cursor.               *)
LEMMA CopiedBehind ==
  ASSUME NEW data \in Seq(Nat), NEW p \in Nat, p <= Len(data)
  PROVE  \E d \in Seq(Nat) :
           /\ CopyOf(StreamAt(data, p), data) = StreamAt(d, 0) /\ Len(d) = Len(data)
           /\ \A i \in 1..(Len(data) - p) : d[i] = data[p + i]
<1>1. PICK n \in Nat : n = Len(data) - p /\ Len(data) = p + n
  <2>1. PICK l \in Nat : l = Len(data) /\ p <= l
    OBVIOUS
  <2>2. l - p \in Nat /\ l = p + (l - p)
    BY <2>1
  <2>. QED
    BY <2>1, <2>2
<1>2. Taken(StreamAt(data, p), Size(StreamAt(data, p))) = SubSeq(data, p + 1, p + n)
  <2>1. StreamAt(data, p).pos = p /\ StreamAt(data, p).data = data /\ Size(StreamAt(data, p)) = p + n
    BY <1>1 DEF StreamAt, Size
  <2>2. (IF p + (p + n) > p + n THEN (p + n) - p ELSE p + n) = n
    OBVIOUS
  <2>3. Room(StreamAt(data, p), p + n) = n
    BY <2>1, <2>2, Zenon DEF Room
  <2>. QED
    BY <2>1, <2>3, Zenon DEF Taken
<1>3. PICK a \in Seq(Nat) : a = SubSeq(data, p + 1, p + n) /\ Len(a) = n /\ \A i \in 1..n : a[i] = data[p + i]
  <2>1. p + n = Len(data)
    BY <1>1
  <2>2. p + 1 \in 1..(Len(data) + 1) /\ p + n \in p..Len(data)
    BY <1>1
  <2>3. SubSeq(data, p + 1, p + n) \in Seq(Nat)
    BY <2>1, SubSeqProperties
  <2>4. Len(SubSeq(data, p + 1, p + n)) = n
    <3>1. (p + n) - (p + 1) + 1 = n
      OBVIOUS
    <3>. QED
      BY <3>1, <2>1, SubSeqProperties
  <2>5. \A i \in 1..n : SubSeq(data, p + 1, p + n)[i] = data[p + i]
    <3>1. \A i \in 1..n : (p + 1) + i - 1 = p + i
      OBVIOUS
    <3>. QED
      BY <3>1, <2>1
  <2>. QED
    BY <2>3, <2>4, <2>5
<1>4. PICK b \in Seq(Nat) : b = SubSeq(data, 1, p) /\ Len(b) = p
  <2>1. \A i \in 1..p : i \in 1..Len(data) /\ data[i] \in Nat
    OBVIOUS
  <2>2. SubSeq(data, 1, p) = [i \in 1..p |-> data[i]]
    OBVIOUS
  <2>3. SubSeq(data, 1, p) \in Seq(Nat) /\ Len(SubSeq(data, 1, p)) = p
    BY <2>1, <2>2
  <2>. QED
    BY <2>3
<1>5. a \o b \in Seq(Nat) /\ Len(a \o b) = p + n /\ \A i \in 1..n : (a \o b)[i] = a[i]
  BY <1>3, <1>4
<1>6. CopyOf(StreamAt(data, p), data) = StreamAt(a \o b, 0)
  <2>1. StreamAt(data, p).pos = p
    BY DEF StreamAt
  <2>. QED
    BY <1>2, <1>3, <1>4, <2>1, Zenon DEF CopyOf, MemoryDataStream, StreamAt
<1>. QED
  BY <1>1, <1>3, <1>5, <1>6

(* However many pairs two messages have, and in whatever order the map     *)
(* keeps them, they are read back from the stream that they were written   *)
(* to, one after the other.                                                *)
THEOREM AnyMessagesAgree ==
  ASSUME NEW first, NEW second, Message(first), Message(second), NEW left \in Nat
  PROVE  MessagesAgree(first, second, left)
<1>1. PICK q1, o1 : InOrder(first, q1, o1)
  BY OrderOfPairs
<1>2. PICK q2, o2 : InOrder(second, q2, o2)
  BY OrderOfPairs
<1>3. PICK n \in Nat, m \in Nat : n = MsgSize(first) /\ m = MsgSize(second)
  BY <1>1, <1>2, OrderTypes
<1>4. PICK z \in Seq(Nat) : EmptyStream((n + m) + left) = StreamAt(z, 0) /\ Len(z) = (n + m) + left
  <2>1. (n + m) + left \in Nat
    OBVIOUS
  <2>2. PICK z : z = [i \in 1..((n + m) + left) |-> 0]
    OBVIOUS
  <2>3. z \in Seq(Nat) /\ Len(z) = (n + m) + left
    BY <2>1, <2>2
  <2>. QED
    BY <2>2, <2>3 DEF EmptyStream, MemoryDataStream, StreamAt, NUL
<1>5. PICK d1 \in Seq(Nat) :
        /\ MsgToStream(1, first, StreamAt(z, 0)) = StreamAt(d1, n)
        /\ MessageAt(d1, 0, 1, first, q1, o1) /\ Keeps(d1, z, 0)
  <2>1. 0 + n <= Len(z) /\ 0 + n = n
    BY <1>4
  <2>. QED
    BY <1>1, <1>3, <2>1, MessageIsWritten
<1>6. Len(d1) = (n + m) + left
  BY <1>4, <1>5 DEF Keeps
<1>7. PICK d \in Seq(Nat) :
        /\ MsgToStream(2, second, StreamAt(d1, n)) = StreamAt(d, n + m)
        /\ MessageAt(d, n, 2, second, q2, o2) /\ Keeps(d, d1, n)
  <2>1. n + m <= Len(d1)
    BY <1>6
  <2>. QED
    BY <1>2, <1>3, <2>1, MessageIsWritten
<1>8. Len(d) = (n + m) + left
  BY <1>6, <1>7 DEF Keeps
<1>9. MessageAt(d, 0, 1, first, q1, o1)
  <2>1. \A i \in 1..n : d[i] = d1[i] /\ 0 + i = i
    BY <1>7 DEF Keeps
  <2>2. 0 + n <= Len(d)
    BY <1>8
  <2>3. \A i \in 1..n : d[0 + i] = d1[0 + i]
    BY <2>1
  <2>. QED
    BY <1>1, <1>3, <1>5, <2>2, <2>3, MessageMoved
<1>10. \A p \in Nat : Seek(StreamAt(d, p), 0, "SF_SET") = StreamAt(d, 0)
  BY DEF Seek, StreamAt
<1>11. StreamToMsg({1, 2}, StreamAt(d, 0)) = [rest |-> StreamAt(d, n), pairs |-> first]
  <2>1. 0 + n = n /\ 1 \in Nat /\ 1 \in {1, 2} /\ {1, 2} \in SUBSET Nat
    OBVIOUS
  <2>. QED
    BY <1>1, <1>3, <1>9, <2>1, MessageIsRead
<1>12. StreamToMsg({1, 2}, StreamAt(d, n)) = [rest |-> StreamAt(d, n + m), pairs |-> second]
  <2>1. 2 \in Nat /\ 2 \in {1, 2} /\ {1, 2} \in SUBSET Nat
    OBVIOUS
  <2>2. \A id \in Nat, C \in SUBSET Nat :
          MessageAt(d, n, id, second, q2, o2) /\ id \in C =>
            StreamToMsg(C, StreamAt(d, n)) = [rest |-> StreamAt(d, n + MsgSize(second)), pairs |-> second]
    BY <1>2, MessageIsRead
  <2>. QED
    BY <1>3, <1>7, <2>1, <2>2, Zenon
<1>13. StreamToMsg({1}, StreamAt(d, n)) = [rest |-> StreamAt(d, n + 16), pairs |-> 0]
  <2>1. 2 \in Nat /\ 2 \notin {1} /\ {1} \in SUBSET Nat
    OBVIOUS
  <2>2. \A id \in Nat, C \in SUBSET Nat :
          MessageAt(d, n, id, second, q2, o2) /\ id \notin C =>
            StreamToMsg(C, StreamAt(d, n)) = [rest |-> StreamAt(d, n + 16), pairs |-> 0]
    BY <1>2, MessageIsRead
  <2>. QED
    BY <1>7, <2>1, <2>2, Zenon
<1>14. PICK e \in Seq(Nat) :
         /\ CopyOf(StreamAt(d, n), d) = StreamAt(e, 0) /\ Len(e) = Len(d)
         /\ \A i \in 1..(Len(d) - n) : e[i] = d[n + i]
  <2>1. n <= Len(d)
    BY <1>8
  <2>. QED
    BY <2>1, CopiedBehind
<1>15. MessageAt(e, 0, 2, second, q2, o2)
  <2>1. Len(e) = (n + m) + left /\ Len(d) - n = m + left
    BY <1>8, <1>14
  <2>2. 0 + m <= Len(e)
    BY <2>1
  <2>3. \A i \in 1..m : i \in 1..(m + left) /\ 0 + i = i
    OBVIOUS
  <2>4. \A i \in 1..m : e[0 + i] = d[n + i]
    BY <1>14, <2>1, <2>3
  <2>. QED
    BY <1>2, <1>3, <1>7, <2>2, <2>4, MessageMoved
<1>16. StreamToMsg({1, 2}, StreamAt(e, 0)).pairs = second
  <2>1. 2 \in Nat /\ 2 \in {1, 2} /\ {1, 2} \in SUBSET Nat
    OBVIOUS
  <2>2. StreamToMsg({1, 2}, StreamAt(e, 0)) = [rest |-> StreamAt(e, 0 + MsgSize(second)), pairs |-> second]
    <3>1. \A id \in Nat, C \in SUBSET Nat :
            MessageAt(e, 0, id, second, q2, o2) /\ id \in C =>
              StreamToMsg(C, StreamAt(e, 0)) = [rest |-> StreamAt(e, 0 + MsgSize(second)), pairs |-> second]
      BY <1>2, MessageIsRead
    <3>. QED
      BY <1>15, <2>1, <3>1, Zenon
  <2>. QED
    BY <2>2
<1>17. PICK both, one, two, unknown :
         /\ both = StreamAt(d, n + m)
         /\ one = [rest |-> StreamAt(d, n), pairs |-> first]
         /\ two = [rest |-> StreamAt(d, n + m), pairs |-> second]
         /\ unknown = [rest |-> StreamAt(d, n + 16), pairs |-> 0]
  OBVIOUS
<1>18. /\ one.pairs = first /\ one.rest = StreamAt(d, n) /\ two.pairs = second
       /\ two.rest = both /\ unknown.pairs = 0 /\ both.data = d
       /\ Tell(one.rest) = n /\ Tell(both) = n + m /\ Tell(unknown.rest) = n + 16
  BY <1>17 DEF Tell, StreamAt
<1>19. Size(StreamAt(e, 0)) = Size(both)
  BY <1>14, <1>17 DEF Size, StreamAt
<1>20. both = MsgToStream(2, second, MsgToStream(1, first, EmptyStream((n + m) + left)))
  BY <1>4, <1>5, <1>7, <1>17
<1>21. n + m \in Nat /\ Seek(both, 0, "SF_SET") = StreamAt(d, 0) /\ Seek(one.rest, 0, "SF_SET") = StreamAt(d, 0)
  BY <1>10, <1>17, <1>18
<1>22. CopyOf(StreamAt(d, 0), <<>>) = StreamAt(d, 0) /\ GetAsString(StreamAt(d, 0)) = d
  BY CopiedAtStart
<1>23. one = StreamToMsg({1, 2}, StreamAt(d, 0)) /\ two = StreamToMsg({1, 2}, one.rest)
  BY <1>11, <1>12, <1>17, <1>18
<1>24. unknown = StreamToMsg({1}, one.rest) /\ CopyOf(one.rest, d) = StreamAt(e, 0)
  BY <1>13, <1>14, <1>17, <1>18
<1>25. /\ one.pairs = first /\ Tell(one.rest) = n
       /\ two.pairs = second /\ Tell(two.rest) = n + m /\ Tell(both) = n + m
       /\ unknown.pairs = 0 /\ Tell(unknown.rest) = Tell(one.rest) + 16
       /\ StreamToMsg({1, 2}, CopyOf(Seek(one.rest, 0, "SF_SET"), <<>>)) = one
       /\ StreamToMsg({1, 2}, CopyOf(one.rest, both.data)).pairs = second
       /\ Size(CopyOf(one.rest, both.data)) = Size(both)
       /\ GetAsString(CopyOf(Seek(one.rest, 0, "SF_SET"), <<>>)) = both.data
  <2>1. CopyOf(Seek(one.rest, 0, "SF_SET"), <<>>) = StreamAt(d, 0)
    BY <1>21, <1>22
  <2>2. CopyOf(one.rest, both.data) = StreamAt(e, 0)
    BY <1>18, <1>24
  <2>. QED
    BY <2>1, <2>2, <1>16, <1>18, <1>19, <1>22, <1>23
<1>. QED
  <2>1. /\ both = MsgToStream(2, second, MsgToStream(1, first, EmptyStream((MsgSize(first) + MsgSize(second)) + left)))
        /\ one = StreamToMsg({1, 2}, Seek(both, 0, "SF_SET"))
        /\ two = StreamToMsg({1, 2}, one.rest) /\ unknown = StreamToMsg({1}, one.rest)
    BY <1>3, <1>20, <1>21, <1>23, <1>24
  <2>. QED
    BY <1>3, <1>25, <2>1, Zenon DEF MessagesAgree

(* Smaller numbers have no more bytes.                                     *)
LEMMA SmallerWords ==
  ASSUME NEW n \in Words, NEW m \in Nat, m <= n
  PROVE  m \in Words
<1>1. ASSUME NEW a \in Nat, NEW b \in Nat, a <= b
      PROVE  Above(a) \in Nat /\ Above(b) \in Nat /\ Above(a) <= Above(b)
  <2>1. PICK q \in Nat, r \in Nat : q = a \div 256 /\ r = b \div 256
    OBVIOUS
  <2>2. 256 * q <= a /\ b < 256 * r + 256
    BY <2>1
  <2>3. q <= r
    BY <1>1, <2>2
  <2>. QED
    BY <2>1, <2>3 DEF Above
<1>2. PICK x \in Nat, y \in Nat : x = Above(m) /\ y = Above(n) /\ x <= y
  BY <1>1 DEF Words
<1>3. PICK x1 \in Nat, y1 \in Nat : x1 = Above(x) /\ y1 = Above(y) /\ x1 <= y1
  BY <1>1, <1>2
<1>4. PICK x2 \in Nat, y2 \in Nat : x2 = Above(x1) /\ y2 = Above(y1) /\ x2 <= y2
  BY <1>1, <1>3
<1>5. y2 < 256
  BY <1>2, <1>3, <1>4 DEF Words
<1>6. x2 < 256
  BY <1>4, <1>5
<1>. QED
  BY <1>2, <1>3, <1>4, <1>6 DEF Words

(* A text up to its first NUL is a string without NUL.                     *)
LEMMA StringOfText ==
  ASSUME NEW text \in Seq(0..255), Len(text) \in Words
  PROVE  UpToNul(text) \in Strings
<1>. DEFINE S == {i \in DOMAIN text : text[i] = NUL} \cup {Len(text) + 1}
<1>1. PICK l \in Nat : l = Len(text) /\ l \in Words /\ DOMAIN text = 1..l
  OBVIOUS
<1>2. S \in SUBSET Nat /\ S # {}
  BY <1>1
<1>. HIDE DEF S
<1>3. PICK m \in S : m = Min(S) /\ \A n \in S : m <= n
  BY <1>2, LeastOf
<1>4. m \in 1..(l + 1)
  BY <1>1, <1>3 DEF S
<1>5. PICK k \in Nat : k = m - 1 /\ k <= l
  BY <1>4
<1>6. \A i \in 1..k : i \in 1..l /\ i \notin S
  <2>1. \A i \in 1..k : i \in 1..l /\ ~(m <= i)
    BY <1>4, <1>5
  <2>. QED
    BY <1>3, <2>1
<1>7. \A i \in 1..k : text[i] \in NonNul
  <2>1. \A i \in 1..k : text[i] # NUL
    BY <1>1, <1>6 DEF S
  <2>2. \A i \in 1..k : text[i] \in 0..255
    BY <1>1, <1>6, BytesAreNumbers
  <2>. QED
    BY <2>1, <2>2 DEF NUL, NonNul
<1>8. UpToNul(text) = [i \in 1..k |-> text[i]]
  <2>1. UpToNul(text) = SubSeq(text, 1, k)
    BY <1>3, <1>5 DEF UpToNul, S
  <2>2. SubSeq(text, 1, k) = [i \in 1..k |-> text[i]]
    BY <1>5
  <2>. QED
    BY <2>1, <2>2
<1>9. UpToNul(text) \in Seq(NonNul) /\ Len(UpToNul(text)) = k
  BY <1>7, <1>8
<1>10. k \in Words
  BY <1>1, <1>5, SmallerWords
<1>. QED
  BY <1>9, <1>10 DEF Strings

(* The cursor of a reader cuts its text in two.                            *)
LEMMA TextIsCut ==
  ASSUME NEW B \in SUBSET Nat, ReaderInv, stream.data \in Seq(B)
  PROVE  /\ Cut \in Nat /\ Before \in Seq(B) /\ Behind \in Seq(B)
         /\ Len(Before) <= Len(stream.data) /\ Len(Behind) <= Len(stream.data)
<1>1. PICK p \in Nat, l \in Nat : p = Tell(stream) /\ l = Size(stream) /\ l = Len(stream.data)
  BY DEF ReaderInv, Tell, Size
<1>2. PICK c \in Nat : c = Cut /\ c <= l
  BY <1>1, SmallerOf DEF Cut
<1>3. \A i \in 1..l : stream.data[i] \in B
  BY <1>1
<1>4. Before = [i \in 1..c |-> stream.data[i]]
  BY <1>1, <1>2 DEF Before
<1>5. \A i \in 1..c : i \in 1..l
  BY <1>2
<1>6. Before \in Seq(B) /\ Len(Before) = c
  BY <1>3, <1>4, <1>5
<1>7. Behind = [i \in 1..(l - c) |-> stream.data[c + i]]
  <2>1. \A i \in 1..(l - c) : (c + 1) + i - 1 = c + i
    OBVIOUS
  <2>2. l - (c + 1) + 1 = l - c
    OBVIOUS
  <2>. QED
    BY <1>1, <1>2, <2>1, <2>2 DEF Behind
<1>8. \A i \in 1..(l - c) : c + i \in 1..l
  BY <1>2
<1>9. Behind \in Seq(B) /\ Len(Behind) = l - c
  BY <1>2, <1>3, <1>7, <1>8
<1>. QED
  BY <1>1, <1>2, <1>6, <1>9

LEMMA OneElementMore ==
  ASSUME NEW T, IsFiniteSet(T), NEW n \in Nat, Cardinality(T) \in 0..n, NEW x
  PROVE  IsFiniteSet(T \cup {x}) /\ Cardinality(T \cup {x}) \in 0..(n + 1)
<1>1. PICK c \in 0..n : c = Cardinality(T)
  OBVIOUS
<1>2. IsFiniteSet(T \cup {x}) /\ Cardinality(T \cup {x}) \in {c, c + 1}
  BY <1>1, FS_AddElement
<1>. QED
  BY <1>2

(* A message of one pair, and one of up to three.                          *)
LEMMA SomeMessages ==
  ASSUME NEW D \in SUBSET Strings, IsFiniteSet(D), Cardinality(D) \in 0..3,
         NEW pairs \in [D -> Strings]
  PROVE  Message(pairs)
<1>1. Above(0) = 0 /\ Above(1) = 0 /\ Above(2) = 0 /\ Above(3) = 0
  BY DEF Above
<1>2. Cardinality(D) \in Words
  BY <1>1 DEF Words
<1>. QED
  BY <1>2 DEF Message

(* The reader of a run, and what it reads.                                 *)
TextReader == utility = "DataStream" => ReaderInv /\ stream.data \in Texts

THEOREM TextReaderInvariant == MCSpec => []TextReader
<1>1. MCInit => TextReader
  <2>1. StreamInit => stream.data \in Texts
    BY DEF StreamInit, MemoryDataStream
  <2>. QED
    BY <2>1, ReaderInit DEF MCInit, TextReader
<1>2. TextReader /\ [MCNext]_<<utility, vars, trackVars, streamVars>> => TextReader'
  <2>1. ASSUME TextReader, UNCHANGED <<utility, streamVars>> PROVE TextReader'
    BY <2>1 DEF TextReader, streamVars, ReaderInv, NoByteLost, Tell, Size
  <2>2. ASSUME TextReader, utility = "DataStream", StreamNext, UNCHANGED utility
        PROVE  TextReader'
    <3>1. ReaderInv /\ stream.data \in Texts /\ stream \in [data : Seq(Nat), pos : Nat]
      BY <2>2 DEF TextReader, ReaderInv
    <3>2. ReaderInv'
      BY <2>2, <3>1, GetLineInv, ReadSomeInv, ReadBytesInv, RepositionInv DEF StreamNext
    <3>3. stream'.data = stream.data
      BY <2>2, <3>1 DEF StreamNext, GetLine, ReadSome, ReadBytes, Reposition, MoveTo, ReadLine, AfterLine, Read,
                        SkipLine, Skip, Seek
    <3>. QED
      BY <3>1, <3>2, <3>3 DEF TextReader
  <2>3. ASSUME utility # "DataStream", UNCHANGED utility PROVE TextReader'
    BY <2>3 DEF TextReader
  <2>. QED
    BY <2>1, <2>2, <2>3 DEF MCNext
<1>. QED
  BY <1>1, <1>2, PTL DEF MCSpec

(* Whatever text a stream has and wherever its reader's cursor is, messages*)
(* of the parts of the text, up to their NUL, survive their stream, if     *)
(* their sizes are numbers of 32 bits, as the code writes them.            *)
THEOREM MessagesOfTextsSurvive ==
  ASSUME \A t \in Texts : Len(t) \in Words
  PROVE  MCSpec => []MessagesSurvive
<1>1. ASSUME TextReader PROVE MessagesSurvive
  <2>. SUFFICES ASSUME utility = "DataStream"
                PROVE  LET k == UpToNul(Before)
                           v == UpToNul(Behind)
                       IN /\ MessagesAgree([key \in {k} |-> v],
                                           [key \in {v, <<LF>>, <<>>} |-> IF key \in {v, <<>>} THEN k ELSE v],
                                           Tell(stream))
                          /\ MessagesAgree(<<>>, [key \in {v} |-> v], 0)
                          /\ Behind # <<>> => NumbersAgree(Behind)
    BY DEF MessagesSurvive
  <2>1. /\ stream.data \in Seq(0..255) /\ Len(stream.data) \in Words
        /\ Tell(stream) \in Nat /\ ReaderInv
    BY <1>1, TextsAssumption DEF TextReader, ReaderInv, Tell
  <2>2. /\ Before \in Seq(0..255) /\ Behind \in Seq(0..255)
        /\ Len(Before) <= Len(stream.data) /\ Len(Behind) <= Len(stream.data)
    <3>1. 0..255 \in SUBSET Nat
      OBVIOUS
    <3>. QED
      BY <2>1, <3>1, TextIsCut
  <2>3. Len(Before) \in Words /\ Len(Behind) \in Words
    <3>1. Len(Before) \in Nat /\ Len(Behind) \in Nat
      BY <2>2
    <3>. QED
      BY <2>1, <2>2, <3>1, SmallerWords
  <2>4. PICK k \in Strings, v \in Strings : k = UpToNul(Before) /\ v = UpToNul(Behind)
    BY <2>2, <2>3, StringOfText
  <2>5. <<LF>> \in Strings /\ <<>> \in Strings
    <3>1. 0 \in Words /\ 1 \in Words
      BY DEF Words, Above
    <3>2. <<LF>> \in Seq(NonNul) /\ <<>> \in Seq(NonNul) /\ Len(<<LF>>) = 1 /\ Len(<<>>) = 0
      BY DEF LF, NonNul
    <3>. QED
      BY <3>1, <3>2, Zenon DEF Strings
  <2>6. Message([key \in {k} |-> v]) /\ Message([key \in {v} |-> v])
    <3>1. \A x \in Strings : IsFiniteSet({x}) /\ Cardinality({x}) \in 0..3
      <4>1. \A x \in Strings : IsFiniteSet({x}) /\ Cardinality({x}) = 1
        BY FS_Singleton
      <4>. QED
        BY <4>1
    <3>. QED
      BY <3>1, SomeMessages
  <2>7. Message([key \in {v, <<LF>>, <<>>} |-> IF key \in {v, <<>>} THEN k ELSE v])
    <3>1. IsFiniteSet({<<>>}) /\ Cardinality({<<>>}) = 1
      BY FS_Singleton
    <3>2. PICK S, lf : S = {<<>>} /\ lf = <<LF>>
      OBVIOUS
    <3>3. IsFiniteSet(S) /\ Cardinality(S) \in 0..1
      <4>1. IsFiniteSet(S) /\ Cardinality(S) = 1
        BY <3>1, <3>2, Zenon
      <4>. QED
        BY <4>1
    <3>4. IsFiniteSet(S \cup {lf}) /\ Cardinality(S \cup {lf}) \in 0..2
      <4>1. Cardinality(S \cup {lf}) \in 0..(1 + 1) /\ IsFiniteSet(S \cup {lf})
        BY <3>3, OneElementMore
      <4>. QED
        BY <4>1
    <3>5. IsFiniteSet((S \cup {lf}) \cup {v}) /\ Cardinality((S \cup {lf}) \cup {v}) \in 0..3
      <4>1. PICK T : T = S \cup {lf} /\ IsFiniteSet(T) /\ Cardinality(T) \in 0..2
        BY <3>4
      <4>2. Cardinality(T \cup {v}) \in 0..(2 + 1) /\ IsFiniteSet(T \cup {v})
        BY <4>1, OneElementMore
      <4>. QED
        BY <4>1, <4>2
    <3>6. (S \cup {lf}) \cup {v} = {v, <<LF>>, <<>>}
      BY <3>2
    <3>7. {v, <<LF>>, <<>>} \in SUBSET Strings
      BY <2>5
    <3>. QED
      BY <3>5, <3>6, <3>7, SomeMessages
  <2>8. Message(<<>>)
    <3>1. IsFiniteSet({}) /\ Cardinality({}) \in 0..3 /\ {} \in SUBSET Strings
      BY FS_EmptySet
    <3>2. <<>> \in [{} -> Strings]
      OBVIOUS
    <3>. QED
      BY <3>1, <3>2, SomeMessages
  <2>9. Behind \in Seq(Nat)
    BY <2>2, BytesAreNumbers
  <2>. QED
    BY <2>1, <2>4, <2>6, <2>7, <2>8, <2>9, AnyMessagesAgree, NumbersSurviveAnyOrder
<1>. QED
  BY <1>1, TextReaderInvariant, PTL

-----------------------------------------------------------------------------
(* The text that stands for bytes, and the ID made of them.                *)
LEMMA BytesAsText ==
  ASSUME NEW B, NEW bytes \in Seq(B), NEW a, NEW b, NEW c, NEW d
  PROVE  In(bytes, a, b, c, d) \in Seq({a, b, c, d})
<1>1. PICK n \in Nat : DOMAIN bytes = 1..n
  OBVIOUS
<1>. DEFINE text == [i \in 1..n |-> CASE bytes[i] = LF -> b [] bytes[i] = CR -> c
                                      [] bytes[i] = NUL -> d [] OTHER -> a]
<1>2. In(bytes, a, b, c, d) = text
  BY <1>1 DEF In
<1>3. text \in [1..n -> {a, b, c, d}]
  OBVIOUS
<1>4. \A Q : text \in [1..n -> Q] => text \in Seq(Q)
  <2>. HIDE DEF text
  <2>. QED
    OBVIOUS
<1>. QED
  BY <1>2, <1>3, <1>4

GuidOf(bytes) ==
  [i \in 1..16 |-> IF bytes = <<>> THEN 16 * i - 1 ELSE bytes[(i % Len(bytes)) + 1]]

LEMMA BytesAsGuid ==
  ASSUME NEW bytes \in Seq(0..255)
  PROVE  GuidOf(bytes) \in [1..16 -> 0..255]
<1>1. CASE bytes = <<>>
  <2>1. \A i \in 1..16 : 16 * i - 1 \in 0..255
    OBVIOUS
  <2>. QED
    BY <1>1, <2>1 DEF GuidOf
<1>2. CASE bytes # <<>>
  <2>1. PICK n \in Nat : n = Len(bytes) /\ n > 0
    BY <1>2
  <2>2. \A i \in 1..16 : (i % n) + 1 \in 1..n
    BY <2>1
  <2>3. PICK O : O = 0..255
    OBVIOUS
  <2>4. \A k \in 1..n : bytes[k] \in O
    BY <2>1, <2>3
  <2>5. \A i \in 1..16 : bytes[(i % n) + 1] \in O
    BY <2>2, <2>4
  <2>6. GuidOf(bytes) = [i \in 1..16 |-> bytes[(i % n) + 1]]
    BY <1>2, <2>1 DEF GuidOf
  <2>. QED
    BY <2>3, <2>5, <2>6
<1>. QED
  BY <1>1, <1>2

LEMMA CheckedPatterns ==
  (UNION {[1..k -> Util!Tokens({"a", "c"})] : k \in 0..2})
    \cup [1..3 -> {<<"*">>, <<"?">>, <<"one", "a">>, <<"list", "a", "B">>}]
      \in SUBSET Seq(Util!Tokens(Plain))
<1>1. Util!Tokens({"a", "c"}) \in SUBSET Util!Tokens(Plain)
  <2>1. {"a", "c"} \in SUBSET Plain
    BY DEF Plain
  <2>2. \A X \in SUBSET Plain : Util!Tokens(X) \in SUBSET Util!Tokens(Plain)
    BY DEF Util!Tokens
  <2>. QED
    BY <2>1, <2>2
<1>2. {<<"*">>, <<"?">>, <<"one", "a">>, <<"list", "a", "B">>} \in SUBSET Util!Tokens(Plain)
  <2>1. "a" \in Plain /\ "B" \in Plain
    BY DEF Plain
  <2>. QED
    BY <2>1 DEF Util!Tokens
<1>3. \A T : \A X \in SUBSET T : \A k \in Nat : [1..k -> X] \in SUBSET Seq(T)
  OBVIOUS
<1>4. \A k \in 0..2 : [1..k -> Util!Tokens({"a", "c"})] \in SUBSET Seq(Util!Tokens(Plain))
  BY <1>1, <1>3
<1>5. [1..3 -> {<<"*">>, <<"?">>, <<"one", "a">>, <<"list", "a", "B">>}]
        \in SUBSET Seq(Util!Tokens(Plain))
  <2>1. PICK X : X = {<<"*">>, <<"?">>, <<"one", "a">>, <<"list", "a", "B">>}
    OBVIOUS
  <2>2. X \in SUBSET Util!Tokens(Plain)
    BY <1>2, <2>1
  <2>3. [1..3 -> X] \in SUBSET Seq(Util!Tokens(Plain))
    BY <1>3, <2>2
  <2>. QED
    BY <2>1, <2>3
<1>. QED
  BY <1>4, <1>5, Zenon

(* Base64, StringTool and UniqueID agree with their definitions on the     *)
(* texts of every run (HelpersAgree): they do on all arguments, and these  *)
(* are the right ones.                                                     *)
THEOREM HelpersAlwaysAgree == MCSpec => []HelpersAgree
<1>1. ASSUME TextReader, utility = "DataStream" PROVE HelpersAgree
  <2>1. Before \in Seq(0..255) /\ Behind \in Seq(0..255)
    <3>1. 0..255 \in SUBSET Nat
      OBVIOUS
    <3>2. stream.data \in Seq(0..255) /\ ReaderInv
      BY <1>1, TextsAssumption DEF TextReader
    <3>. QED
      BY <3>1, <3>2, TextIsCut
  <2>2. Code!ChunksAgree(Before, Behind) /\ Util!ConversionsAgree(Behind)
    BY <2>1, AnyChunksAgree, ConversionsKeepBytes DEF Octets
  <2>3. Util!MatchAgrees(
          (UNION {[1..k -> Util!Tokens({"a", "c"})] : k \in 0..2})
            \cup [1..3 -> {<<"*">>, <<"?">>, <<"one", "a">>, <<"list", "a", "B">>}],
          In(Behind, "a", "b", "A", "c"))
    <3>1. PICK text : text = In(Behind, "a", "b", "A", "c") /\ text \in Seq({"a", "b", "A", "c"})
      BY <2>1, BytesAsText
    <3>. QED
      BY <3>1, CheckedPatterns, AnyMatchAgrees
  <2>4. Util!PathsAgree(In(Before, "a", "/", ".", "\\"), In(Behind, "a", "/", ".", "\\"))
    <3>1. /\ In(Before, "a", "/", ".", "\\") \in Seq({"a", "/", ".", "\\"})
          /\ In(Behind, "a", "/", ".", "\\") \in Seq({"a", "/", ".", "\\"})
      BY <2>1, BytesAsText
    <3>. QED
      BY <3>1, AnyPathsAgree
  <2>5. Util!SplitAgrees({" ", ","}, In(Behind, "a", " ", "\r", ","))
    <3>1. In(Behind, "a", " ", "\r", ",") \in Seq({"a", " ", "\r", ","})
      BY <2>1, BytesAsText
    <3>. QED
      BY <3>1, AnySplitAgrees
  <2>6. Util!IdsAgree(GuidOf(Before), GuidOf(Behind))
    BY <2>1, BytesAsGuid, AnyIdsAgree
  <2>. QED
    BY <2>2, <2>3, <2>4, <2>5, <2>6, Zenon DEF HelpersAgree, GuidOf
<1>2. ASSUME utility # "DataStream" PROVE HelpersAgree
  BY <1>2 DEF HelpersAgree
<1>3. TextReader => HelpersAgree
  BY <1>1, <1>2
<1>. QED
  BY <1>3, TextReaderInvariant, PTL
=============================================================================
