------------------------------- MODULE Checksum -------------------------------
(*****************************************************************************)
(* The Internet checksum: the loop of in_checknum (person/traceroute), and   *)
(* in_cksum (unpv13e/libfree), which send_v4 calls, as the sum it computes.  *)
(* Words are stored low byte first.  A byte has Base values; 256 in the code.*)
(* The sums are far below the width of unsigned long and int there.          *)
(*****************************************************************************)
EXTENDS Integers, Sequences

CONSTANTS
  Base,       \* the number of values of a byte
  Bytes,      \* the bytes that occur
  MaxSize     \* bound: bytes behind the checksum field

Word == Base * Base

VARIABLES
  message,  \* the buffer, which starts with a checksum field of 0
  next,     \* how many bytes were added
  cksum,
  answer    \* the result, -1 before the return

vars == <<message, next, cksum, answer>>
-------------------------------------------------------------------------------
(* in_checknum. *)
AddWord ==
  /\ Len(message) - next > 1
  /\ cksum' = cksum + message[next + 1] + Base * message[next + 2]
  /\ next' = next + 2
  /\ UNCHANGED <<message, answer>>

AddByte ==
  /\ Len(message) - next = 1
  /\ cksum' = cksum + message[next + 1]
  /\ next' = next + 1
  /\ UNCHANGED <<message, answer>>

Carry == cksum \div Word

(* Mutant: the carry is dropped. *)
Fold_Drop ==
  /\ next = Len(message) /\ Carry > 0
  /\ cksum' = cksum % Word
  /\ UNCHANGED <<message, next, answer>>

Fold ==
  /\ next = Len(message) /\ Carry > 0
  /\ cksum' = Carry + (cksum % Word)
  /\ UNCHANGED <<message, next, answer>>

Return ==
  /\ next = Len(message) /\ Carry = 0 /\ answer = -1
  /\ answer' = Word - 1 - cksum
  /\ UNCHANGED <<message, next, cksum>>

Init ==
  /\ \E n \in 0 .. MaxSize : \E data \in [1 .. n -> Bytes] : message = <<0, 0>> \o data
  /\ next = 0
  /\ cksum = 0
  /\ answer = -1

Next == AddWord \/ AddByte \/ Fold \/ Return

Spec == Init /\ [][Next]_vars
-------------------------------------------------------------------------------
(* in_cksum: all words, the last one with a high byte of 0; two folds. *)
InCksum(m) ==
  LET byte(i) == IF i <= Len(m) THEN m[i] ELSE 0
      total[i \in 0 .. (Len(m) + 1) \div 2] ==
        IF i = 0 THEN 0 ELSE total[i - 1] + byte(2 * i - 1) + Base * byte(2 * i)
      sum  == total[(Len(m) + 1) \div 2]
      once == (sum \div Word) + (sum % Word)
  IN  Word - 1 - ((once + (once \div Word)) % Word)

Filled == [message EXCEPT ![1] = answer % Base, ![2] = answer \div Base]

(* The two functions agree, for odd sizes and for sums that carry twice, and *)
(* the receiver of a message with the checksum in its field computes 0.      *)
ChecksumVerifies == answer # -1 => answer = InCksum(message) /\ InCksum(Filled) = 0
===============================================================================
