----------------------------- MODULE MCUtilities -----------------------------
(***************************************************************************)
(* The utilities for TLC, one at a time: the pool of Tasks, the memory     *)
(* tracker or the reader of a stream.  The addresses of the pool are       *)
(* interchangeable: it starts with one list of them.                       *)
(*                                                                         *)
(* The pure helpers Base64, StringTool and UniqueID are checked in the     *)
(* states of the stream: its text, cut at its cursor, is their input, with *)
(* a small alphabet in place of its bytes.                                 *)
(***************************************************************************)
EXTENDS TaskPool, MemTrackAllocator, DataStream, Helpers

VARIABLE utility

NoReader ==
  /\ stream = MemoryDataStream(<<>>) /\ line = <<>> /\ from = 0
  /\ delivered = {} /\ cuts = {} /\ overflown = FALSE

MCInit ==
  /\ Init /\ freelist = CHOOSE list \in Grown : TRUE
  /\ TrackInit
  /\ \/ utility \in {"TaskAllocator", "MemTrackAllocator"} /\ NoReader
     \/ utility = "DataStream" /\ StreamInit

MCNext ==
  \/ utility = "TaskAllocator" /\ Next /\ UNCHANGED <<utility, trackVars, streamVars>>
  \/ utility = "MemTrackAllocator" /\ TrackNext /\ UNCHANGED <<utility, vars, streamVars>>
  \/ utility = "DataStream" /\ StreamNext /\ UNCHANGED <<utility, vars, trackVars>>

MCSpec == MCInit /\ [][MCNext]_<<utility, vars, trackVars, streamVars>>

Symmetry == Permutations(Threads) \cup Permutations(Infos)

-----------------------------------------------------------------------------
Letter == 233 \* has high and low bits

MCTexts == UNION {[1..k -> {Letter, LF, CR, NUL}] : k \in 0..4}

Cut == Min({Tell(stream), Size(stream)})
Before == SubSeq(stream.data, 1, Cut)
Behind == SubSeq(stream.data, Cut + 1, Size(stream))

In(bytes, letter, lf, cr, nul) ==
  [i \in DOMAIN bytes |-> CASE bytes[i] = LF -> lf [] bytes[i] = CR -> cr
                            [] bytes[i] = NUL -> nul [] OTHER -> letter]

(* Key-value messages survive their stream (see MessagesAgree), with the   *)
(* texts before and behind the cursor, up to their NUL, as keys and        *)
(* values, and numbers a change of byte order.                             *)
MessagesSurvive ==
  utility = "DataStream" =>
  LET k == UpToNul(Before)
      v == UpToNul(Behind)
  IN /\ MessagesAgree([key \in {k} |-> v],
                      [key \in {v, <<LF>>, <<>>} |-> IF key \in {v, <<>>} THEN k ELSE v],
                      Tell(stream))
     /\ MessagesAgree(<<>>, [key \in {v} |-> v], 0)
     /\ Behind # <<>> => NumbersAgree(Behind)

(* The encoder agrees with RFC 4648 (see ChunksAgree of Base64) on the     *)
(* bytes of the stream, cut in two chunks at the cursor; Match, the path   *)
(* functions, Split and Trim agree with their reference definitions (see   *)
(* StringTool) on its text, with patterns of two tokens of any kind or     *)
(* three of some; IDs agree with their text (see IdsAgree of UniqueID),    *)
(* where an ID repeats the bytes before or behind the cursor.              *)
HelpersAgree ==
  utility = "DataStream" =>
  /\ Code!ChunksAgree(Before, Behind)
  /\ Tell(stream) = 0 /\ Len(Behind) <= 3 =>
       Util!MatchAgrees(
         (UNION {[1..k -> Util!Tokens({"a", "c"})] : k \in 0..2})
           \cup [1..3 -> {<<"*">>, <<"?">>, <<"one", "a">>, <<"list", "a", "B">>}],
         In(Behind, "a", "b", "A", "c"))
  /\ Util!ConversionsAgree(Behind)
  /\ Util!PathsAgree(In(Before, "a", "/", ".", "\\"), In(Behind, "a", "/", ".", "\\"))
  /\ Tell(stream) = 0 => Util!SplitAgrees({" ", ","}, In(Behind, "a", " ", "\r", ","))
  /\ LET guid(bytes) == [i \in 1..16 |->
                          IF bytes = <<>> THEN 16 * i - 1 ELSE bytes[(i % Len(bytes)) + 1]]
     IN Util!IdsAgree(guid(Before), guid(Behind))

(* "Path is standardised as in standardisePath" (StringTool.h, of          *)
(* SplitFilename), for the text of the stream as a file name.              *)
SplitIsStandardised ==
  utility = "DataStream" =>
    Util!PathIsStandardised(In(stream.data, "a", "/", ".", "\\"))
=============================================================================
