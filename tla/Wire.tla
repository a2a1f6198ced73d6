-------------------------------- MODULE Wire --------------------------------
(***************************************************************************)
(* The protobuf runtime, which is not part of the repository: numbers and  *)
(* fields as bytes, and the loop that reads the fields of a message.  The  *)
(* generated code of Messages calls it.  Words are Word bits wide and      *)
(* longs 2 * Word (32 and 64 in the programs); a byte of a varint carries  *)
(* seven bits of a number, the lowest first.                               *)
(***************************************************************************)
EXTENDS Integers, Sequences, SequencesExt

CONSTANT
    Word        \* bits of a uint32

ASSUME WireAssumption == Word \in Nat /\ Word >= 8

Power2[n \in Nat] == IF n = 0 THEN 1 ELSE 2 * Power2[n - 1]

WordRange == Power2[Word]
LongRange == Power2[2 * Word]
Words == 0 .. WordRange - 1
Bytes == 0 .. 255

(* Two's complement: a word read as an int32, an int as the 2^w it is      *)
(* stored in.                                                              *)
Signed(n, range) == IF n >= range \div 2 THEN n - range ELSE n
Unsigned(n, range) == n % range

(* The bytes of a varint of this many bits.                                *)
VarintBytes(bits) == (bits + 6) \div 7

(* As many bytes as the number needs; all but the last are marked.         *)
VarintSize(n) ==
    CHOOSE k \in 1 .. VarintBytes(2 * Word) :
        n < Power2[7 * k] /\ \A j \in 1 .. k - 1 : n >= Power2[7 * j]

Varint(n) ==
    [i \in 1 .. VarintSize(n) |->
        ((n \div Power2[7 * (i - 1)]) % 128) + (IF i < VarintSize(n) THEN 128 ELSE 0)]

(* How many bytes the varint at the front takes; 0 if it does not end, or  *)
(* is longer than a long.                                                  *)
FrontVarint(bytes) ==
    LET ends == {i \in 1 .. Len(bytes) : bytes[i] < 128 /\ i <= VarintBytes(2 * Word)}
    IN  IF ends = {} THEN 0 ELSE CHOOSE i \in ends : \A j \in ends : i <= j

VarintValue(bytes) ==
    FoldLeft(LAMBDA n, byte : 128 * n + (byte % 128), 0, Reverse(bytes))

----------------------------------------------------------------------------
(* A field: a tag, then a varint or a length and that many bytes.  A field *)
(* number below 16 makes a tag of one byte.                                *)

VarintTag(number) == 8 * number
LengthTag(number) == 8 * number + 2

(* A field that has its default value, zero, is not written.               *)
UInt32Field(number, n) ==
    IF n = 0 THEN <<>> ELSE <<VarintTag(number)>> \o Varint(n)
UInt32FieldSize(n) == IF n = 0 THEN 0 ELSE 1 + VarintSize(n)

(* A negative number is written as the long it is extended to.             *)
IntField(number, n) == UInt32Field(number, Unsigned(n, LongRange))
IntFieldSize(n) == UInt32FieldSize(Unsigned(n, LongRange))

BoolField(number, b) == UInt32Field(number, IF b THEN 1 ELSE 0)
BoolFieldSize(b) == IF b THEN 2 ELSE 0

MessageField(number, body) == <<LengthTag(number)>> \o Varint(Len(body)) \o body
MessageFieldSize(size) == 1 + VarintSize(size) + size

----------------------------------------------------------------------------
(* Reading.  A field read: its tag, the number at its front (the length if *)
(* it has one), the bytes behind that, and all of it as it stood.          *)

NoField == [tag |-> 0, number |-> 0, body |-> <<>>, raw |-> <<>>]

FrontField(bytes) ==
    LET t == FrontVarint(bytes)
        tag == VarintValue(SubSeq(bytes, 1, t))
        rest == SubSeq(bytes, t + 1, Len(bytes))
        k == FrontVarint(rest)
        n == VarintValue(SubSeq(rest, 1, k))
        Field(size) ==
            [tag |-> tag, number |-> n, body |-> SubSeq(rest, k + 1, k + size),
             raw |-> SubSeq(bytes, 1, t + k + size)]
    IN  IF t = 0 \/ k = 0 THEN NoField
        ELSE IF tag % 8 = 0 /\ tag # 0 THEN Field(0)
        ELSE IF tag % 8 = 2 /\ k + n <= Len(rest) THEN Field(n)
        ELSE NoField

(* The fields up to the end, or to the first that cannot be read: nobody   *)
(* looks whether a parse succeeded.  Groups and fields of a fixed width    *)
(* are taken for unreadable; no message has one.                           *)
Fields[bytes \in Seq(Bytes)] ==
    LET f == FrontField(bytes)
    IN  IF f = NoField THEN <<>>
        ELSE <<f>> \o Fields[SubSeq(bytes, Len(f.raw) + 1, Len(bytes))]

(* The values of a field read.                                             *)
UInt32Of(f) == f.number % WordRange
Int32Of(f) == Signed(f.number % WordRange, WordRange)
Int64Of(f) == Signed(f.number % LongRange, LongRange)
BoolOf(f) == f.number # 0

(* A field the message does not know is kept as it is.                     *)
KeepUnknown(m, f) == [m EXCEPT !.unknown = @ \o f.raw]
=============================================================================
