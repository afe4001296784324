----------------------------- MODULE DataStream -----------------------------
(***************************************************************************)
(* MemoryDataStream (Core/Foundation/DataStream) and the messages that are *)
(* written to it and read from it (Core/Foundation/Message).  Bytes are    *)
(* numbers, positions count from 0 = m_Data, and a stream is a record of   *)
(* its memory and its cursor m_Pos.  The release build is modelled, where  *)
(* assert does nothing.                                                    *)
(*                                                                         *)
(* The actions are a reader of text: it calls while ~Eof(), never rewinds  *)
(* to before the start, and gives ReadLine room for maxCount bytes and a   *)
(* NUL, as GetLine does not: it reads into s_TmpArea however long the line *)
(* is.  A line with no room there is undefined behaviour, and the model    *)
(* stops.                                                                  *)
(***************************************************************************)
EXTENDS Integers, Sequences, SequencesExt, FiniteSetsExt, TLC

CONSTANTS
  Texts,     \* contents of the stream, sequences of bytes
  MaxCount,  \* bound on the count of one Read, ReadLine, Skip or Seek
  TmpSize    \* STREAM_TMP_SIZE, of s_TmpArea; 1024 in the code

ASSUME TextsAssumption == \A t \in Texts : t \in Seq(0..255)
ASSUME MaxCountAssumption == MaxCount \in Nat
ASSUME TmpSizeAssumption == TmpSize \in Nat \ {0}

VARIABLES
  stream,    \* the MemoryDataStream
  line,      \* retString of the reader's last GetLine
  from,      \* history: where the reader last skipped or sought to
  delivered, \* history: the positions read since
  cuts,      \* history: where ReadLine has cut a line at maxCount since
  overflown  \* GetLine has written behind s_TmpArea

streamVars == <<stream, line, from, delivered, cuts, overflown>>

NUL == 0
LF == 10
CR == 13
White == {9, CR, 32}

-----------------------------------------------------------------------------
(* MemoryDataStream(pMem, size).                                           *)
MemoryDataStream(mem) == [data |-> mem, pos |-> 0]

(* MemoryDataStream(size).                                                 *)
EmptyStream(size) == MemoryDataStream([i \in 1..size |-> NUL])

Size(s) == Len(s.data)
Eof(s) == s.pos >= Size(s)
Tell(s) == s.pos

(* What Read and Write make of count at the end of the memory; behind the  *)
(* end m_End - m_Pos is negative, and the bytes copied are not the stream's*)
Room(s, count) == IF s.pos + count > Size(s) THEN Size(s) - s.pos ELSE count

Taken(s, count) == SubSeq(s.data, s.pos + 1, s.pos + Room(s, count))
Read(s, count) == [s EXCEPT !.pos = @ + Room(s, count)]

Write(s, buf) ==
  [data |-> [i \in DOMAIN s.data |->
               IF i - s.pos \in 1..Room(s, Len(buf)) THEN buf[i - s.pos] ELSE s.data[i]],
   pos |-> s.pos + Room(s, Len(buf))]

(* strcspn(m_Pos, delim), cut at m_End; it also stops at a NUL.            *)
Span(s, delim) ==
  Min({i \in s.pos..(Size(s) - 1) : s.data[i + 1] \in delim \cup {NUL}} \cup {Size(s)}) - s.pos

(* Fault: a CR is taken for a byte of its own behind the line.             *)
AfterLineTwo(s, readCount) == [s EXCEPT !.pos = @ + readCount + 2]

(* The cursor behind the line of readCount bytes and its delimiter, or     *)
(* behind the end of the memory.                                           *)
AfterLine(s, readCount) == [s EXCEPT !.pos = @ + readCount + 1]

(* ReadLine: readCount before a CR is taken away, and the bytes left in    *)
(* buf.  An empty line makes the code look at buf[-1] for a CR.            *)
LineCount(s, maxCount, delim) == Min({Span(s, delim), maxCount})
LineText(s, maxCount, delim) ==
  LET text == SubSeq(s.data, s.pos + 1, s.pos + LineCount(s, maxCount, delim))
  IN IF LF \in delim /\ text # <<>> /\ Last(text) = CR THEN Front(text) ELSE text

ReadLine(s, maxCount, delim) == AfterLine(s, LineCount(s, maxCount, delim))
SkipLine(s, delim) == AfterLine(s, Span(s, delim))

(* GetAsString: a string of m_Size bytes, of which the last are NUL if the *)
(* cursor was not at the start.                                            *)
GetAsString(s) == Taken(s, Size(s)) \o [i \in 1..s.pos |-> NUL]

Skip(s, count) == [s EXCEPT !.pos = Min({@ + count, Size(s)})]

(* Seek(pos, origin); Seek(pos) is Seek(pos, SF_SET).                      *)
Seek(s, pos, origin) ==
  [s EXCEPT !.pos = CASE origin = "SF_SET" -> pos
                      [] origin = "SF_CUR" -> @ + pos
                      [] origin = "SF_END" -> Size(s) - pos]

(* MemoryDataStream(sourceStream): m_Size bytes, of which the last are not *)
(* set if the source's cursor was not at the start; it is after that.      *)
CopyOf(s, unset) ==
  MemoryDataStream(Taken(s, Size(s)) \o SubSeq(unset, 1, s.pos))

(* ByteOrderWrite and ByteOrderRead: bytes in memory order, turned round   *)
(* for the other byte order, one Read or Write each.                       *)
ByteOrderWrite(s, v, native) == Write(s, IF native THEN v ELSE Reverse(v))
ByteOrderValue(s, len, native) ==
  IF native THEN Taken(s, len) ELSE Reverse(Taken(s, len))

(* StringUtil::Trim of a line.                                             *)
Trim(text) ==
  LET kept == {i \in DOMAIN text : text[i] \notin White}
  IN IF kept = {} THEN <<>> ELSE SubSeq(text, Min(kept), Max(kept))

-----------------------------------------------------------------------------
(* Messages: a KeyValuePairMessage is a function from keys to values;      *)
(* sizes are the bytes of a 32-bit number, lowest first.                   *)
Above(n) == n \div 256
UInt32(n) == <<n % 256, Above(n) % 256, Above(Above(n)) % 256, Above(Above(Above(n))) % 256>>
Number(bytes) == bytes[1] + 256 * (bytes[2] + 256 * (bytes[3] + 256 * bytes[4]))
Counted(str) == UInt32(Len(str)) \o str

(* KeyValuePairMessage::ToStream; the order of the pairs is the map's.     *)
ToStream(pairs, s) ==
  LET put(w, key) == Write(Write(w, Counted(key)), Counted(pairs[key]))
  IN FoldLeft(put, Write(s, UInt32(Cardinality(DOMAIN pairs))), SetToSeq(DOMAIN pairs))

(* Fault: only the size is read over.                                      *)
AfterStrShort(s) == Read(s, 4)

(* FromStream: a counted string, which String(buf) ends at its first NUL,  *)
(* and the stream behind it.                                               *)
UpToNul(buf) ==
  SubSeq(buf, 1, Min({i \in DOMAIN buf : buf[i] = NUL} \cup {Len(buf) + 1}) - 1)
Str(s) == UpToNul(Taken(Read(s, 4), Number(Taken(s, 4))))
AfterStr(s) == Read(Read(s, 4), Number(Taken(s, 4)))

(* std::map::insert, which keeps the first value of a key.                 *)
Inserted(map, key, value) ==
  [k \in DOMAIN map \cup {key} |-> IF k \in DOMAIN map THEN map[k] ELSE value]

(* KeyValuePairMessage::FromStream of a new message: the pairs, and the    *)
(* stream behind them.                                                     *)
FromStream(s) ==
  LET mapSize == Number(Taken(s, 4))
      after[n \in 0..mapSize] ==
        IF n = 0 THEN [rest |-> Read(s, 4), pairs |-> <<>>]
        ELSE LET key == after[n - 1].rest
                 value == AfterStr(key)
             IN [rest |-> AfterStr(value),
                 pairs |-> Inserted(after[n - 1].pairs, Str(key), Str(value))]
  IN after[mapSize]

(* IMessage::MsgToStream writes the class ID, 16 bytes, before the message.*)
ClassID(n) == [i \in 1..16 |-> n]
MsgToStream(id, pairs, s) == ToStream(pairs, Write(s, ClassID(id)))

(* IMessage::StreamToMsg: the creator registered for the class ID makes    *)
(* the message; without one there is no message, and the cursor is behind  *)
(* the ID.                                                                 *)
StreamToMsg(creators, s) ==
  IF \E id \in creators : Taken(s, 16) = ClassID(id)
  THEN FromStream(Read(s, 16))
  ELSE [rest |-> Read(s, 16), pairs |-> 0]

-----------------------------------------------------------------------------
StreamInit ==
  /\ \E t \in Texts : stream = MemoryDataStream(t)
  /\ line = <<>>
  /\ from = 0
  /\ delivered = {} /\ cuts = {}
  /\ overflown = FALSE

Deliver(count) == delivered' = delivered \cup (Tell(stream)..(Tell(stream) + count - 1))

(* GetLine(retString, trimAfter): ReadLine(s_TmpArea, m_Size); retString   *)
(* keeps its text if the line is empty.                                    *)
GetLine(trimAfter) ==
  LET text == LineText(stream, Size(stream), {LF})
      ret == IF text = <<>> THEN line ELSE text
  IN /\ ~Eof(stream)
     /\ IF Len(text) >= TmpSize
        THEN overflown' = TRUE /\ UNCHANGED <<stream, line, delivered>>
        ELSE /\ stream' = ReadLine(stream, Size(stream), {LF})
             /\ line' = IF trimAfter THEN Trim(ret) ELSE ret
             /\ Deliver(Len(text))
             /\ UNCHANGED overflown
     /\ UNCHANGED <<from, cuts>>

(* ReadLine(buf, maxCount) of a buffer of the reader's: a longer line is   *)
(* cut, and the byte behind it passed over like a delimiter.               *)
ReadSome(maxCount) ==
  /\ ~Eof(stream)
  /\ stream' = ReadLine(stream, maxCount, {LF})
  /\ Deliver(Len(LineText(stream, maxCount, {LF})))
  /\ cuts' = cuts \cup {i \in {Tell(stream) + maxCount} : Span(stream, {LF}) > maxCount}
  /\ UNCHANGED <<line, from, overflown>>

(* The reader reads count bytes; the assert asks for no more than are left.*)
ReadBytes(count) ==
  /\ Tell(stream) + count <= Size(stream)
  /\ stream' = Read(stream, count)
  /\ Deliver(count)
  /\ UNCHANGED <<line, from, cuts, overflown>>

MoveTo(s) ==
  /\ Tell(s) >= 0
  /\ stream' = s
  /\ from' = Tell(s)
  /\ delivered' = {} /\ cuts' = {}
  /\ UNCHANGED <<line, overflown>>

Reposition ==
  \/ ~Eof(stream) /\ MoveTo(SkipLine(stream, {LF}))
  \/ \E count \in (-MaxCount)..MaxCount : ~Eof(stream) /\ MoveTo(Skip(stream, count))
  \/ \E pos \in 0..MaxCount, origin \in {"SF_SET", "SF_CUR", "SF_END"} :
       /\ Tell(Seek(stream, pos, origin)) <= Size(stream)
       /\ MoveTo(Seek(stream, pos, origin))

StreamNext ==
  /\ ~overflown
  /\ \/ \E trimAfter \in BOOLEAN : GetLine(trimAfter)
     \/ \E count \in 1..MaxCount : ReadBytes(count) \/ ReadSome(count)
     \/ Reposition

StreamSpec == StreamInit /\ [][StreamNext]_streamVars

-----------------------------------------------------------------------------
(* However lines and counted reads are mixed between two moves of the      *)
(* cursor, no byte is read twice, and none is lost but the one behind a    *)
(* line that ReadLine cut at maxCount: what a line leaves out is that or   *)
(* its delimiter, and a CR before it, and the cursor is at most one byte   *)
(* behind the end.  This lasts until GetLine meets a line that s_TmpArea   *)
(* has no room for.                                                        *)
NoByteLost ==
  /\ Tell(stream) \in 0..(Size(stream) + 1)
  /\ delivered \subseteq from..(Tell(stream) - 1)
  /\ \A i \in from..(Min({Tell(stream), Size(stream)}) - 1) : i \notin delivered =>
       \/ stream.data[i + 1] \in {LF, NUL} \/ i \in cuts
       \/ /\ stream.data[i + 1] = CR
          /\ i + 1 = Size(stream) \/ stream.data[i + 2] \in {LF, NUL} \/ i + 1 \in cuts

(* The bytes of a message: its class ID, the number of its pairs, and of   *)
(* each pair two sizes and two texts.                                      *)
MsgSize(pairs) ==
  20 + SumFunctionOnSet([key \in DOMAIN pairs |-> 8 + Len(key) + Len(pairs[key])], DOMAIN pairs)

(* Messages without NUL in their texts, written one after the other to a   *)
(* stream that has room for them (and left bytes more), are read back one  *)
(* after the other, pair by pair, and both cursors end at the same byte,   *)
(* also if no creator is registered for the last; a copy of the stream has *)
(* what is behind the cursor.  A number survives a change of byte order.   *)
MessagesAgree(first, second, left) ==
  LET size == MsgSize(first) + MsgSize(second)
      both == MsgToStream(2, second, MsgToStream(1, first, EmptyStream(size + left)))
      one == StreamToMsg({1, 2}, Seek(both, 0, "SF_SET"))
      two == StreamToMsg({1, 2}, one.rest)
      unknown == StreamToMsg({1}, one.rest)
      copy == CopyOf(Seek(one.rest, 0, "SF_SET"), <<>>)
      late == CopyOf(one.rest, both.data)
  IN /\ one.pairs = first /\ Tell(one.rest) = MsgSize(first)
     /\ two.pairs = second /\ Tell(two.rest) = size /\ Tell(both) = size
     /\ unknown.pairs = 0 /\ Tell(unknown.rest) = Tell(one.rest) + 16
     /\ StreamToMsg({1, 2}, copy) = one
     /\ StreamToMsg({1, 2}, late).pairs = second /\ Size(late) = Size(both)
     /\ GetAsString(copy) = both.data

NumbersAgree(v) ==
  \A native \in BOOLEAN :
    LET start == Seek(ByteOrderWrite(EmptyStream(Len(v)), v, native), 0, "SF_SET")
    IN /\ ByteOrderValue(start, Len(v), native) = v
       /\ ByteOrderValue(start, Len(v), ~native) = Reverse(v)
=============================================================================
