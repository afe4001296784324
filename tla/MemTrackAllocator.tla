------------------------- MODULE MemTrackAllocator -------------------------
(***************************************************************************)
(* The memory tracker (Core/DebugHelper): MemoryMgr hands out memory by    *)
(* the default allocator or by a MemTrackAllocator around it, which keeps  *)
(* an AllocateInfo record of every block in a hash table of doubly linked  *)
(* lists and recycles records through a free list.                         *)
(*                                                                         *)
(* What m_HTMutex or m_TrackMutex protects is one step.  Insert's check of *)
(* a bucket takes no lock and is a step per record.  The file, function    *)
(* and line of a record, the peak counters and MemoryMgr's plain forwards  *)
(* of getters are left out.                                                *)
(***************************************************************************)
EXTENDS Integers, FiniteSets, Functions

CONSTANTS
  Threads,
  Addrs,     \* addresses the tracked allocator can return
  Infos,     \* addresses malloc can return for an AllocateInfo
  Sizes,     \* sizes that are asked for
  TableSize, \* m_AllocHT.m_Size: 1 << 12 in the code
  Null

ASSUME TrackAssumption ==
  /\ Null \notin Infos /\ IsFiniteSet(Infos) /\ IsFiniteSet(Threads)
  /\ Addrs \subseteq Nat /\ Sizes \subseteq Nat
  /\ TableSize \in Nat \ {0}

VARIABLES
  live,      \* blocks the tracked allocator has out
  blocks,    \* blocks callers hold
  tracking,  \* s_UserAllocator: m_Allocator is a MemTrackAllocator
  info,      \* the contents of every AllocateInfo
  bucket,    \* m_AllocHT.m_AllocInfo
  freeInfo,  \* m_FreeInfo
  unused,    \* AllocateInfo not taken from malloc
  allocatedSize, allocatedCount,
  at,        \* where a thread is inside Allocate or DeAllocate
  ptr,       \* its allocatedAddr or p
  rec,       \* its newInfo or freeInfo
  walk,      \* the local head of Insert's check
  asserted,  \* history: XLN_ASSERT(head->m_Addr != allocInfo->m_Addr) failed
  untracked, \* history: the tracker has met memory it has no record of
  cleared    \* history: ShutDown has freed the records

tableVars == <<info, bucket, freeInfo, unused>>
threadVars == <<at, ptr, rec, walk>>
historyVars == <<asserted, untracked, cleared>>
counters == <<allocatedSize, allocatedCount>>
trackVars == <<live, blocks, tracking, tableVars, counters, threadVars, historyVars>>

Pointers == Infos \cup {Null}
Buckets == 0..(TableSize - 1)

Blank == [addr |-> 0, size |-> 0, next |-> Null, prev |-> Null]

TrackInit ==
  /\ live = {} /\ blocks = {} /\ tracking = FALSE
  /\ info = [i \in Infos |-> Blank]
  /\ bucket = [b \in Buckets |-> Null]
  /\ freeInfo = Null
  /\ unused = Infos
  /\ allocatedSize = 0 /\ allocatedCount = 0
  /\ at = [t \in Threads |-> "out"]
  /\ ptr = [t \in Threads |-> 0]
  /\ rec = [t \in Threads |-> Null]
  /\ walk = [t \in Threads |-> Null]
  /\ asserted = FALSE /\ untracked = FALSE /\ cleared = FALSE

GetHash(addr) == (addr \div 16) % TableSize

Step(t, from, to) == at[t] = from /\ at' = [at EXCEPT ![t] = to]

Quiet == \A t \in Threads : at[t] = "out"

-----------------------------------------------------------------------------
(* MemoryMgr::SetAllocator.  It takes no lock and destroys the allocator    *)
(* it replaces: its users call it while nobody allocates.  Destroying the   *)
(* tracker frees the table, and leaks the records that are in it.           *)
SetAllocator ==
  /\ Quiet
  /\ tracking' = ~tracking
  /\ untracked' = (untracked \/ (~tracking /\ live # {}))
  /\ bucket' = [b \in Buckets |-> Null]
  /\ freeInfo' = Null
  /\ allocatedSize' = 0 /\ allocatedCount' = 0
  /\ cleared' = FALSE
  /\ info' = [i \in Infos |-> Blank]
  /\ UNCHANGED <<live, blocks, unused, threadVars, asserted>>

(* ExternalMemAllocator: operator new returns a block nobody has, and       *)
(* operator delete takes it back.                                           *)
Obtain(a) == a \notin live /\ live' = live \cup {a}
GiveBack(a) == live' = live \ {a}

(* MemoryMgr::Allocate: the default allocator keeps no record.              *)
Allocate(t, a) ==
  /\ Obtain(a)
  /\ \/ /\ tracking
        /\ Step(t, "out", "info")
        /\ ptr' = [ptr EXCEPT ![t] = a]
        /\ UNCHANGED blocks
     \/ /\ ~tracking
        /\ Step(t, "out", "out")
        /\ blocks' = blocks \cup {a}
        /\ UNCHANGED ptr
  /\ UNCHANGED <<tracking, tableVars, counters, rec, walk, historyVars>>

(* Memory that MemoryMgr frees and the tracker does not record: operator    *)
(* new of MemObj goes past MemoryMgr (its operator delete does not), and    *)
(* the tracker's overload without a file past its table.                    *)
AllocateUntracked(t, a) ==
  /\ at[t] = "out"
  /\ Obtain(a)
  /\ blocks' = blocks \cup {a}
  /\ untracked' = (untracked \/ tracking)
  /\ UNCHANGED <<tracking, tableVars, counters, threadVars, asserted, cleared>>

(* The records of the list that starts at i: the smallest set that holds i  *)
(* and the next of each of its records.                                     *)
Chain(i) ==
  LET closed == {S \in SUBSET Infos : /\ i \in S \cup {Null}
                                     /\ \A j \in S : info[j].next \in S \cup {Null}}
  IN {j \in Infos : \A S \in closed : j \in S}

(* GetNextFreeInfo, then malloc: nothing but a record is missing when both  *)
(* have none.                                                               *)
GetNextFreeInfo(t) ==
  /\ at[t] = "info"
  /\ \/ /\ freeInfo # Null
        /\ rec' = [rec EXCEPT ![t] = freeInfo]
        /\ freeInfo' = info[freeInfo].next
        /\ UNCHANGED <<unused, blocks, untracked, ptr>> /\ Step(t, "info", "count")
     \/ /\ freeInfo = Null
        /\ \E i \in unused :
             /\ rec' = [rec EXCEPT ![t] = i]
             /\ unused' = unused \ {i}
        /\ UNCHANGED <<freeInfo, blocks, untracked, ptr>> /\ Step(t, "info", "count")
     \/ /\ freeInfo = Null /\ unused = {}
        /\ blocks' = blocks \cup {ptr[t]}
        /\ untracked' = TRUE
        /\ ptr' = [ptr EXCEPT ![t] = 0]
        /\ UNCHANGED <<freeInfo, unused, rec>> /\ Step(t, "info", "out")
  /\ UNCHANGED <<live, tracking, info, bucket, counters, walk, asserted, cleared>>

(* The record is filled in and counted; the check starts at its bucket.     *)
FillInfo(t, size) ==
  /\ Step(t, "count", "check")
  /\ info' = [info EXCEPT ![rec[t]] =
                [addr |-> ptr[t], size |-> size, next |-> Null, prev |-> Null]]
  /\ allocatedSize' = allocatedSize + size
  /\ allocatedCount' = allocatedCount + 1
  /\ walk' = [walk EXCEPT ![t] = bucket[GetHash(ptr[t])]]
  /\ UNCHANGED <<live, blocks, tracking, bucket, freeInfo, unused, ptr, rec, historyVars>>

(* Insert's check of the bucket, without the lock.                          *)
CheckValid(t) ==
  /\ at[t] = "check" /\ walk[t] # Null
  /\ asserted' = (asserted \/ info[walk[t]].addr = ptr[t])
  /\ walk' = [walk EXCEPT ![t] = info[walk[t]].next]
  /\ UNCHANGED <<live, blocks, tracking, tableVars, counters, at, ptr, rec, untracked, cleared>>

(* Fault: the old head does not learn of its new neighbour.                 *)
LinkedOneWay(i, head) == [info EXCEPT ![i].next = head]

(* The record i in front of the list that starts at head.                   *)
Linked(i, head) ==
  IF head = Null THEN [info EXCEPT ![i].next = Null]
  ELSE [info EXCEPT ![i].next = head, ![head].prev = i]

(* Insert, under m_HTMutex; Allocate returns.                               *)
Insert(t) ==
  LET b == GetHash(ptr[t])
  IN /\ walk[t] = Null
     /\ Step(t, "check", "out")
     /\ info' = Linked(rec[t], bucket[b])
     /\ bucket' = [bucket EXCEPT ![b] = rec[t]]
     /\ rec' = [rec EXCEPT ![t] = Null]
     /\ blocks' = blocks \cup {ptr[t]}
     /\ ptr' = [ptr EXCEPT ![t] = 0]
     /\ UNCHANGED <<live, tracking, freeInfo, unused, counters, walk, historyVars>>

(* DeAllocate frees the memory before it looks for the record.              *)
DeAllocate(t, a) ==
  /\ a \in blocks
  /\ IF tracking THEN Step(t, "out", "remove") /\ ptr' = [ptr EXCEPT ![t] = a]
     ELSE Step(t, "out", "out") /\ UNCHANGED ptr
  /\ blocks' = blocks \ {a}
  /\ GiveBack(a)
  /\ UNCHANGED <<tracking, tableVars, counters, rec, walk, historyVars>>

(* The list without its record i, which is not the head.                    *)
Relinked(i) ==
  LET before == info[i].prev
      after == info[i].next
      forward == IF before = Null THEN info ELSE [info EXCEPT ![before].next = after]
  IN IF after = Null THEN forward ELSE [forward EXCEPT ![after].prev = before]

(* Fault: only the head is looked at.                                       *)
FirstIfHead(head, a) == IF head # Null /\ info[head].addr = a THEN head ELSE Null

(* The first record of a list with the address a, which no other of these   *)
(* leads to: Remove takes the newest.                                       *)
FirstWith(head, a) ==
  LET with == {i \in Chain(head) : info[i].addr = a}
  IN IF with = {} THEN Null
     ELSE CHOOSE i \in with : \A j \in with : i \in Chain(j) => i = j

(* AllocHashTable::Remove, under m_HTMutex.  The head goes without a look   *)
(* at the m_Prev of its successor.                                          *)
RemoveRecord(t) ==
  LET b == GetHash(ptr[t])
      found == FirstWith(bucket[b], ptr[t])
  IN /\ \/ /\ found = Null
           /\ Step(t, "remove", "out")
           /\ UNCHANGED <<info, bucket, rec>>
        \/ /\ found # Null /\ found = bucket[b]
           /\ Step(t, "remove", "recycle")
           /\ bucket' = [bucket EXCEPT ![b] = info[found].next]
           /\ rec' = [rec EXCEPT ![t] = found]
           /\ UNCHANGED info
        \/ /\ found # Null /\ found # bucket[b]
           /\ Step(t, "remove", "recycle")
           /\ info' = Relinked(found)
           /\ rec' = [rec EXCEPT ![t] = found]
           /\ UNCHANGED bucket
     /\ ptr' = [ptr EXCEPT ![t] = 0]
     /\ UNCHANGED <<live, blocks, tracking, freeInfo, unused, counters, walk, historyVars>>

(* The counters are taken back and AddFreeInfo, under m_TrackMutex.  The    *)
(* size of a free record, which nobody reads, is forgotten.                 *)
AddFreeInfo(t) ==
  /\ Step(t, "recycle", "out")
  /\ allocatedSize' = allocatedSize - info[rec[t]].size
  /\ allocatedCount' = allocatedCount - 1
  /\ info' = [info EXCEPT ![rec[t]] =
                [addr |-> info[rec[t]].addr, size |-> 0, next |-> freeInfo, prev |-> Null]]
  /\ freeInfo' = rec[t]
  /\ rec' = [rec EXCEPT ![t] = Null]
  /\ UNCHANGED <<live, blocks, tracking, bucket, unused, ptr, walk, historyVars>>

(* The records of the table: ForAllAllocInfo shows them to a dump.          *)
Recorded == UNION {Chain(bucket[b]) : b \in Buckets}

(* ShutDown: Clear frees the records that are left, and no counter changes. *)
(* Nobody is inside, as for SetAllocator; bound: once in a tracker's life.  *)
ShutDown ==
  /\ Quiet /\ tracking /\ ~cleared
  /\ unused' = unused \cup Recorded
  /\ bucket' = [b \in Buckets |-> Null]
  /\ cleared' = TRUE
  /\ info' = [i \in Infos |-> IF i \in Recorded THEN Blank ELSE info[i]]
  /\ UNCHANGED <<live, blocks, tracking, freeInfo, counters, threadVars,
                 asserted, untracked>>

Track(t) ==
  \/ \E a \in Addrs : Allocate(t, a) \/ AllocateUntracked(t, a)
  \/ GetNextFreeInfo(t)
  \/ \E size \in Sizes : FillInfo(t, size)
  \/ CheckValid(t)
  \/ Insert(t)
  \/ \E a \in Addrs : DeAllocate(t, a)
  \/ RemoveRecord(t)
  \/ AddFreeInfo(t)

TrackNext ==
  \/ \E t \in Threads : Track(t)
  \/ SetAllocator
  \/ ShutDown

TrackSpec == TrackInit /\ [][TrackNext]_trackVars

-----------------------------------------------------------------------------
(* Records that are counted and not in the table: of threads on their way   *)
(* into Insert or out of Remove.                                            *)
InHand == {rec[t] : t \in {u \in Threads : at[u] \in {"check", "recycle"}}}

(* Every record is at one place: in the table, in the hands of one thread,  *)
(* on the free list, or not allocated (a destroyed tracker leaks the rest). *)
(* The lists are linked both ways behind their heads, although removing a   *)
(* head leaves m_Prev of its successor alone, and although DeAllocate of    *)
(* one thread may remove the record of another one's block that has been    *)
(* given the same address.  GetAllocatedCount and GetAllocatedSize are      *)
(* those of the records.                                                    *)
RecordsAreAccounted ==
  LET table == Recorded
      counted == InHand \cup table
  IN /\ \A i \in table : info[i].next # Null => info[info[i].next].prev = i
     /\ \A b, c \in Buckets : b # c => Chain(bucket[b]) \cap Chain(bucket[c]) = {}
     /\ InHand \cap table = {}
     /\ counted \cap (Chain(freeInfo) \cup unused) = {}
     /\ tracking /\ ~cleared =>
          /\ allocatedCount = Cardinality(counted)
          /\ allocatedSize = SumFunctionOnSet([i \in Infos |-> info[i].size], counted)

(* What GetAllocatedCount and a dump show when nobody is inside the         *)
(* tracker: a record for every block that is out, and for nothing else,     *)
(* although blocks change hands between DeAllocate and Remove.  Memory the  *)
(* tracker did not hand out must not be mixed in: its address may have had  *)
(* a record that Remove then takes from somebody else.                      *)
EveryBlockIsRecorded ==
  tracking /\ Quiet /\ ~untracked /\ ~cleared =>
    /\ {info[i].addr : i \in Recorded} = blocks
    /\ Cardinality(Recorded) = Cardinality(blocks)

(* XLN_ASSERT(head->m_Addr != allocInfo->m_Addr): no record of the bucket   *)
(* has the address of a new block.                                          *)
NewBlockIsUnrecorded == ~asserted
=============================================================================
