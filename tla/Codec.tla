-------------------------------- MODULE Codec --------------------------------
(***************************************************************************)
(* The varint framing of packages/client/src/codec.ts.  A number is the    *)
(* set of its bits and a byte a group of Group bits with a flag, 7 and 32  *)
(* in the code, so that | is a union and << a shift that drops what leaves *)
(* the word.  The top bit of a word makes it negative.                     *)
(***************************************************************************)
EXTENDS Integers, FiniteSets, Sequences

CONSTANTS Group, Word

CodecAssumption == Group \in Nat \ {0} /\ Word \in Nat /\ Word > Group

Number == SUBSET (0..(Word - 1))
Byte == [bits : SUBSET (0..(Group - 1)), more : BOOLEAN]

\* The groups a word has, 5 in the code.
Groups == (Word + Group - 1) \div Group
MaxShift == Groups * Group   \* 35 in the code

Power[n \in Nat] == IF n = 0 THEN 1 ELSE 2 * Power[n - 1]
BitsOf(n) == {b \in 0..(Word - 1) : (n \div Power[b]) % 2 = 1}

ValueOf[S \in SUBSET (0..(Word - 1))] ==
    IF S = {} THEN 0
    ELSE LET b == CHOOSE x \in S : \A y \in S : y <= x
         IN (IF b = Word - 1 THEN -Power[b] ELSE Power[b]) + ValueOf[S \ {b}]

Value(bits) == ValueOf[bits]

(***************************************************************************)
(* Writing.                                                                *)
(***************************************************************************)
GroupOf(v, i) == {b \in 0..(Group - 1) : b + (i - 1) * Group \in v}

EncodeVarUint(v) ==
    LET last == CHOOSE n \in 1..Groups :
                  /\ \A b \in v : b < n * Group
                  /\ n > 1 => GroupOf(v, n) # {}
    IN [i \in 1..last |-> [bits |-> GroupOf(v, i), more |-> i < last]]

EncodeVarBytes(payload) == EncodeVarUint(BitsOf(Len(payload))) \o payload

EncodeFrame(kinds, payload) ==
    (IF Len(kinds) = 1 THEN EncodeVarUint(BitsOf(kinds[1]))
     ELSE EncodeVarUint(BitsOf(kinds[1])) \o EncodeVarUint(BitsOf(kinds[2])))
    \o EncodeVarBytes(payload)

(***************************************************************************)
(* Reading, from the byte at `at` on.  The loop gives up after the byte    *)
(* with which the shift exceeds MaxShift, one later than a word has groups.*)
(***************************************************************************)
Null == [ok |-> FALSE]

ShiftLeft(bits, shift) == {b + (shift % Word) : b \in bits} \cap (0..(Word - 1))

ReadVarUint(bytes, at) ==
    LET ends == {n \in at..Len(bytes) : ~bytes[n].more /\ \A i \in at..(n - 1) : bytes[i].more}
    IN IF ends = {} \/ \E n \in ends : (n - at) * Group > MaxShift THEN Null
       ELSE LET n == CHOOSE x \in ends : TRUE
            IN [ok |-> TRUE, next |-> n + 1,
                bits |-> UNION {ShiftLeft(bytes[i].bits, (i - at) * Group) : i \in at..n}]

ReadVarBytes(bytes, at) ==
    LET size == ReadVarUint(bytes, at)
    IN IF ~size.ok \/ size.next + Value(size.bits) - 1 > Len(bytes) THEN Null
       ELSE [ok |-> TRUE, next |-> size.next + Value(size.bits),
             payload |-> SubSeq(bytes, size.next, size.next + Value(size.bits) - 1)]

Done(bytes, at) == at = Len(bytes) + 1

\* handleYjsFrame: the numbers in front, the payload, and nothing after it.
ReadFrame(bytes, n) ==
    LET first == ReadVarUint(bytes, 1)
        second == IF n = 1 \/ ~first.ok THEN first ELSE ReadVarUint(bytes, first.next)
        body == IF second.ok THEN ReadVarBytes(bytes, second.next) ELSE Null
    IN IF ~body.ok \/ ~Done(bytes, body.next) THEN Null
       ELSE [ok |-> TRUE, payload |-> body.payload,
             kinds |-> IF n = 1 THEN <<Value(first.bits)>>
                       ELSE <<Value(first.bits), Value(second.bits)>>]
=============================================================================
