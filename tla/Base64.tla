------------------------------- MODULE Base64 -------------------------------
(***************************************************************************)
(* The base64 encoder (Core/Utility/Base64.h).  Octets are numbers below   *)
(* 256, a character of the alphabet is its 6-bit value and "=" is Pad.  An *)
(* encoder is the record of its state<Value> and of the characters written *)
(* to the output iterator.                                                 *)
(***************************************************************************)
EXTENDS Naturals, Sequences, SequencesExt

Pad == 64

(* state(): nothing left over, and no output yet.                          *)
state == [triplet_index |-> 0, last_encoded_value |-> 0, output |-> <<>>]

(* Fault: the bits left over are overwritten, not combined.                *)
combineForgets(rest, current_value, shift) == current_value \div shift

(* encoded_value |= ..., with the upper bits of the next octet.            *)
combine(rest, current_value, shift) ==
  rest.last_encoded_value + current_value \div shift

(* One turn of encode's loop, at its case labels 0, 1 and 2.               *)
octet(rest, current_value) ==
  CASE rest.triplet_index = 0 ->
         [triplet_index |-> 1, last_encoded_value |-> (current_value % 4) * 16,
          output |-> Append(rest.output, current_value \div 4)]
    [] rest.triplet_index = 1 ->
         [triplet_index |-> 2, last_encoded_value |-> (current_value % 16) * 4,
          output |-> Append(rest.output, combine(rest, current_value, 16))]
    [] rest.triplet_index = 2 ->
         [triplet_index |-> 0, last_encoded_value |-> 0,
          output |-> rest.output \o <<combine(rest, current_value, 64), current_value % 64>>]

(* encode(begin, end, output, rest): a chunk; what is left over waits for  *)
(* the next one.                                                           *)
encode(chunk, rest) == FoldLeft(octet, rest, chunk)

(* encode_rest: the last, incomplete value and its padding.                *)
encode_rest(rest) ==
  IF rest.triplet_index = 0 THEN rest
  ELSE [state EXCEPT !.output = rest.output \o <<rest.last_encoded_value, Pad>>
          \o (IF rest.triplet_index < 2 THEN <<Pad>> ELSE <<>>)]

(* encode(begin, end, output), the string of the whole input.              *)
encodeAll(value) == encode_rest(encode(value, state)).output

-----------------------------------------------------------------------------
(* RFC 4648: three octets are 24 bits, cut into four values; the last      *)
(* group is filled with zero bits and the values without input are "=".    *)
Rfc4648(value) ==
  LET at(i) == IF i <= Len(value) THEN value[i] ELSE 0
      bits(g) == at(3 * g + 1) * 65536 + at(3 * g + 2) * 256 + at(3 * g + 3)
      sextet(k) == (bits((k - 1) \div 4) \div (64 ^ (3 - ((k - 1) % 4)))) % 64
  IN [k \in 1..(4 * ((Len(value) + 2) \div 3)) |->
        IF 6 * ((k - 1) % 4) >= 8 * (Len(value) - 3 * ((k - 1) \div 4))
        THEN Pad ELSE sextet(k)]

(* However an input is cut in two chunks, an empty one included, the       *)
(* encoder that carries the rest over writes what RFC 4648 says of the     *)
(* whole, and nothing is left over for the next input.                     *)
ChunksAgree(first, second) ==
  LET done == encode_rest(encode(second, encode(first, state)))
  IN /\ done.output = Rfc4648(first \o second)
     /\ encodeAll(first \o second) = done.output
     /\ [done EXCEPT !.output = <<>>] = state
=============================================================================
