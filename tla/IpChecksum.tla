----------------------------- MODULE IpChecksum -----------------------------
(***************************************************************************)
(* calculate_ip_checksum of src/x86_64/drivers/network/hell_network.c as   *)
(* the loop it is: words are read as little-endian uint16 (x86), summed    *)
(* into a uint32, a trailing odd byte is added as the low byte, carries    *)
(* are folded back while sum >> 16 is nonzero, and the result is the      *)
(* uint16 complement.  Each behaviour runs one call on one input from     *)
(* Bytes of length at most MaxLen; pc is the loop the call is in.          *)
(***************************************************************************)
EXTENDS Integers, Sequences

CONSTANTS
    Bytes,    \* byte values the inputs are made of
    MaxLen    \* longest input, in bytes

ASSUME MaxLen * 65535 < 2^30

Inputs == UNION {[1..n -> Bytes] : n \in 0..MaxLen}

VARIABLES data, ptr, length, sum, pc, result

vars == <<data, ptr, length, sum, pc, result>>

\* *ptr for a const uint16_t* on a little-endian machine.
LoadWord(d, i) == d[i] + 256 * d[i + 1]

(* sum += ...: the sum is a uint32, but an input of MaxLen bytes adds at *)
(* most MaxLen/2 words of 0xFFFF, far below 2^32, so it cannot wrap.    *)
AddU32(s, x) == s + x

TrailingWordHigh(b) == b * 256
\* The trailing byte, read through a const uint8_t*.
TrailingWord(b) == b

\* (sum & 0xFFFF) + (sum >> 16)
FoldCarry(s) == (s % 65536) + (s \div 65536)

\* (uint16_t)~sum
Complement16(s) == 65535 - (s % 65536)

Init ==
    /\ data \in Inputs
    /\ ptr = 1
    /\ length = Len(data)
    /\ sum = 0
    /\ pc = "words"
    /\ result = 0

\* while (length > 1) { sum += *ptr++; length -= 2; }
AddWord ==
    /\ pc = "words" /\ length > 1
    /\ sum' = AddU32(sum, LoadWord(data, ptr))
    /\ ptr' = ptr + 2
    /\ length' = length - 2
    /\ UNCHANGED <<data, pc, result>>

\* The loop exits; if (length == 1) sum += *(const uint8_t*)ptr;
AddLastByte ==
    /\ pc = "words" /\ length <= 1
    /\ sum' = IF length = 1 THEN AddU32(sum, TrailingWord(data[ptr])) ELSE sum
    /\ pc' = "fold"
    /\ UNCHANGED <<data, ptr, length, result>>

\* while (sum >> 16) sum = (sum & 0xFFFF) + (sum >> 16);
Fold ==
    /\ pc = "fold" /\ sum \div 65536 # 0
    /\ sum' = FoldCarry(sum)
    /\ UNCHANGED <<data, ptr, length, pc, result>>

\* return (uint16_t)~sum;
Finish ==
    /\ pc = "fold" /\ sum \div 65536 = 0
    /\ result' = Complement16(sum)
    /\ pc' = "done"
    /\ UNCHANGED <<data, ptr, length, sum>>

\* The call has returned; the caller holds the result.
Done ==
    /\ pc = "done"
    /\ UNCHANGED vars

Next == AddWord \/ AddLastByte \/ Fold \/ Finish \/ Done

Spec == Init /\ [][Next]_vars

-----------------------------------------------------------------------------
(***************************************************************************)
(* Reference: the Internet checksum of RFC 1071.  The data are 16-bit     *)
(* words in the machine's byte order, an odd final byte padded with a     *)
(* zero byte; their one's-complement sum is the end-around-carry sum,     *)
(* which is 0 only for an all-zero total and otherwise the total mod      *)
(* 0xFFFF taken in 1..0xFFFF; the checksum is its complement.              *)
(***************************************************************************)
RECURSIVE WordTotal(_, _)
WordTotal(d, i) ==
    IF i > Len(d) THEN 0
    ELSE IF i = Len(d) THEN d[i]
    ELSE d[i] + 256 * d[i + 1] + WordTotal(d, i + 2)

OnesComplementSum(d) ==
    LET t == WordTotal(d, 1) IN IF t = 0 THEN 0 ELSE ((t - 1) % 65535) + 1

RefChecksum(d) == 65535 - OnesComplementSum(d)

(***************************************************************************)
(* When calculate_ip_checksum returns, its result is the RFC 1071         *)
(* checksum of the input: the word loop, the odd-byte case and the carry  *)
(* folding together compute the one's-complement sum.                     *)
(***************************************************************************)
ChecksumMatchesReference ==
    pc = "done" => result = RefChecksum(data)

=============================================================================
