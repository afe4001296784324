------------------------------ MODULE UniqueID ------------------------------
(***************************************************************************)
(* UniqueID (Core/Utility/UniqueID): 16 bytes, read from the text of a     *)
(* GUID, written as text, and ordered, as keys of the maps of services and *)
(* message creators.  Strings are as in StringTool.  External: the         *)
(* generators of boost::uuids.                                             *)
(***************************************************************************)
EXTENDS StringTool

Upper == <<"0", "1", "2", "3", "4", "5", "6", "7", "8", "9", "A", "B", "C", "D", "E", "F">>
Lower == <<"0", "1", "2", "3", "4", "5", "6", "7", "8", "9", "a", "b", "c", "d", "e", "f">>

HexDigits ==
  [c \in ToSet(Upper) \cup ToSet(Lower) |->
     CHOOSE d \in 0..15 : c \in {Upper[d + 1], Lower[d + 1]}]

HexValue(ch, otherwise) == IF ch \in DOMAIN HexDigits THEN HexDigits[ch] ELSE otherwise

(* The exchanges at the end of SetUID: byte i comes from digits 2i-1, 2i.  *)
Exchanged == <<4, 3, 2, 1, 6, 5, 8, 7, 9, 10, 11, 12, 13, 14, 15, 16>>

(* SetUID: a text of another length changes nothing.  For a character that *)
(* is no hexadecimal digit the first digit of a byte is not set, the       *)
(* second is 0.                                                            *)
SetUID(uid, str, unset) ==
  LET read(i) == (16 * HexValue(str[2 * i - 1], unset) + HexValue(str[2 * i], 0)) % 256
  IN IF Len(str) # 32 THEN uid ELSE [i \in 1..16 |-> read(Exchanged[i])]

(* UniqueID::ToString: the bytes as decimal numbers, a blank behind each.  *)
Decimal(n) ==
  LET digits == (IF n > 99 THEN <<n \div 100>> ELSE <<>>)
                  \o (IF n > 9 THEN <<(n \div 10) % 10>> ELSE <<>>) \o <<n % 10>>
  IN [i \in DOMAIN digits |-> Upper[digits[i] + 1]]
UIDToString(uid) == FlattenSeq([i \in DOMAIN uid |-> Decimal(uid[i]) \o <<" ">>])

(* operator <, lexicographic.                                              *)
Less(lhs, rhs) ==
  \E i \in DOMAIN lhs : lhs[i] < rhs[i] /\ \A j \in 1..(i - 1) : lhs[j] = rhs[j]

(* GenStrUID(str, caseSensitive): the string that the generator is given;  *)
(* otherwise it reads the lower-case copy after its block has ended, and   *)
(* what is there then is one of the leftovers.  No caller does that.       *)
NameOf(str, caseSensitive, leftovers) ==
  IF caseSensitive THEN {str} ELSE {ToLowerCase(str)} \cup leftovers

-----------------------------------------------------------------------------
(* The memory of a GUID on a little-endian machine: three numbers and      *)
(* eight bytes.  Its text has the highest byte of each number first.       *)
Memory(guid) ==
  Reverse(SubSeq(guid, 1, 4)) \o Reverse(SubSeq(guid, 5, 6))
    \o Reverse(SubSeq(guid, 7, 8)) \o SubSeq(guid, 9, 16)
Text(guid, digits) ==
  FlattenSeq([i \in DOMAIN guid |-> <<digits[guid[i] \div 16 + 1], digits[(guid[i] % 16) + 1]>>])

(* SetUID makes the memory of a GUID from its text, in upper and lower     *)
(* case; the text of one ID is that of no other, and its tokens are its    *)
(* bytes; of two different IDs exactly one is less.                        *)
IdsAgree(g, h) ==
  LET id == Memory(g)
      other == Memory(h) IN
  /\ SetUID(other, Text(g, Upper), 0) = id
  /\ SetUID(other, Text(g, Lower), 255) = id
  /\ SetUID(other, Tail(Text(g, Upper)), 0) = other
  /\ Split(UIDToString(id), {" "}, 0) = [i \in 1..16 |-> Decimal(id[i])]
  /\ UIDToString(id) = UIDToString(other) <=> id = other
  /\ id # other <=> Less(id, other) # Less(other, id)
  /\ ~Less(id, id)
=============================================================================
