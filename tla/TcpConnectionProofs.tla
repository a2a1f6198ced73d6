------------------------- MODULE TcpConnectionProofs -------------------------
(***************************************************************************)
(* What holds of a connection for any sizes of buffers, messages and       *)
(* socket, for any number of requests and for any chunks in which cells    *)
(* arrive and are written.                                                 *)
(***************************************************************************)
EXTENDS TcpConnection, SequenceTheorems, TLAPS

----------------------------------------------------------------------------
(* Facts about buffers.                                                    *)

LEMMA FunctionIsSeq ==
    ASSUME NEW S, NEW n \in Nat, NEW f \in [1 .. n -> S]
    PROVE  f \in Seq(S) /\ Len(f) = n
<1>1. f \in Seq(S)
  BY SeqDef
<1>2. DOMAIN f = 1 .. n /\ DOMAIN f = 1 .. Len(f) /\ Len(f) \in Nat
  BY <1>1, LenProperties
<1> QED  BY <1>1, <1>2

LEMMA ReadableCells ==
    ASSUME NEW C, NEW b, BufferOK(b, C)
    PROVE  /\ Readable(b) \in Seq(C)
           /\ Len(Readable(b)) = ReadableBytes(b) /\ ReadableBytes(b) \in Nat
           /\ \A i \in 1 .. ReadableBytes(b) : Readable(b)[i] = b.cells[b.reader + i]
<1>1. /\ b.reader \in Nat /\ b.writer \in Nat /\ b.reader <= b.writer
      /\ \A i \in b.reader + 1 .. b.writer : b.cells[i] \in C
  BY DEF BufferOK, BufferType
<1>2. /\ Readable(b) \in Seq(C)
      /\ Len(Readable(b)) = IF b.reader + 1 <= b.writer THEN b.writer - (b.reader + 1) + 1 ELSE 0
      /\ \A i \in 1 .. b.writer - (b.reader + 1) + 1 :
            Readable(b)[i] = b.cells[(b.reader + 1) + i - 1]
  BY <1>1, SubSeqProperties DEF Readable
<1>3. \A i \in 1 .. ReadableBytes(b) :
         i \in 1 .. b.writer - (b.reader + 1) + 1 /\ (b.reader + 1) + i - 1 = b.reader + i
  BY <1>1 DEF ReadableBytes
<1> QED  BY <1>1, <1>2, <1>3 DEF ReadableBytes

LEMMA OverwrittenCells ==
    ASSUME NEW S, NEW cells \in Seq(S), NEW data \in Seq(S), NEW index \in Nat
    PROVE  /\ Overwritten(cells, index, data) \in Seq(S)
           /\ Len(Overwritten(cells, index, data)) = Len(cells)
           /\ \A i \in 1 .. Len(cells) : Overwritten(cells, index, data)[i] =
                 IF i \in index + 1 .. index + Len(data) THEN data[i - index] ELSE cells[i]
<1>1. DOMAIN cells = 1 .. Len(cells) /\ Len(cells) \in Nat /\ Len(data) \in Nat
  BY LenProperties
<1>2. ASSUME NEW i \in 1 .. Len(cells)
      PROVE  (IF i \in index + 1 .. index + Len(data) THEN data[i - index] ELSE cells[i]) \in S
  <2>1. CASE i \in index + 1 .. index + Len(data)
    <3>1. i - index \in 1 .. Len(data)
      BY <1>1, <2>1
    <3> QED  BY <2>1, <3>1, ElementOfSeq
  <2> QED  BY <1>2, <2>1, ElementOfSeq
<1>3. Overwritten(cells, index, data) \in [1 .. Len(cells) -> S]
  BY <1>1, <1>2 DEF Overwritten
<1>4. /\ Overwritten(cells, index, data) \in Seq(S)
      /\ Len(Overwritten(cells, index, data)) = Len(cells)
  BY <1>1, <1>3, FunctionIsSeq
<1> QED  BY <1>1, <1>4 DEF Overwritten

(* Two buffers with as many readable cells, pairwise the same.             *)
LEMMA SameReadable ==
    ASSUME NEW C, NEW b, BufferOK(b, C), NEW r, BufferOK(r, C),
           ReadableBytes(r) = ReadableBytes(b),
           \A i \in 1 .. ReadableBytes(b) : r.cells[r.reader + i] = b.cells[b.reader + i]
    PROVE  Readable(r) = Readable(b)
<1>1. /\ Readable(r) \in Seq(C) /\ Readable(b) \in Seq(C)
      /\ Len(Readable(r)) = Len(Readable(b)) /\ Len(Readable(b)) = ReadableBytes(b)
      /\ \A i \in 1 .. ReadableBytes(b) : Readable(r)[i] = Readable(b)[i]
  BY ReadableCells
<1> QED  BY <1>1, SeqEqual

LEMMA MakeSpaceKeeps ==
    ASSUME NEW C, NEW b, BufferOK(b, C), NEW len \in Nat, len > WritableBytes(b)
    PROVE  /\ BufferOK(MakeSpace(b, len), C)
           /\ Readable(MakeSpace(b, len)) = Readable(b)
           /\ WritableBytes(MakeSpace(b, len)) >= len
<1> DEFINE S == C \cup {Blank}
           r == MakeSpace(b, len)
<1>1. /\ b \in [cells : Seq(S), reader : Nat, writer : Nat]
      /\ b.cells \in Seq(S) /\ b.reader \in Nat /\ b.writer \in Nat
      /\ CheapPrepend \in Nat
      /\ CheapPrepend <= b.reader /\ b.reader <= b.writer /\ b.writer <= Len(b.cells)
      /\ \A i \in b.reader + 1 .. b.writer : b.cells[i] \in C
      /\ Len(b.cells) \in Nat /\ DOMAIN b.cells = 1 .. Len(b.cells)
      /\ \A i \in 1 .. Len(b.cells) : b.cells[i] \in S
  BY LenProperties, ElementOfSeq, BufferAssumption DEF BufferOK, BufferType
<1>2. CASE WritableBytes(b) + b.reader < len + CheapPrepend
  <2> DEFINE c == Resized(b.cells, b.writer + len)
  <2>1. c \in [1 .. b.writer + len -> S] /\ b.writer + len \in Nat
    BY <1>1 DEF Resized
  <2>2. c \in Seq(S) /\ Len(c) = b.writer + len
    BY <2>1, FunctionIsSeq
  <2>3. \A i \in 1 .. b.writer : c[i] = b.cells[i]
    BY <1>1 DEF Resized
  <2>4. r = [b EXCEPT !.cells = c]
    BY <1>2 DEF MakeSpace
  <2> HIDE DEF c
  <2>5. r.cells = c /\ r.reader = b.reader /\ r.writer = b.writer
        /\ r \in [cells : Seq(S), reader : Nat, writer : Nat]
    BY <1>1, <2>2, <2>4
  <2> HIDE DEF r
  <2>6. BufferOK(r, C)
    BY <1>1, <2>2, <2>3, <2>5 DEF BufferOK, BufferType
  <2>7. Readable(r) = Readable(b)
    <3>1. ReadableBytes(r) = ReadableBytes(b)
      BY <2>5 DEF ReadableBytes
    <3>2. \A i \in 1 .. ReadableBytes(b) : r.cells[r.reader + i] = b.cells[b.reader + i]
      BY <1>1, <2>3, <2>5 DEF ReadableBytes
    <3> QED  BY <2>6, <3>1, <3>2, SameReadable
  <2>8. WritableBytes(r) >= len
    BY <1>1, <2>2, <2>5 DEF WritableBytes
  <2> QED  BY <2>6, <2>7, <2>8 DEF r
<1>3. CASE ~(WritableBytes(b) + b.reader < len + CheapPrepend)
  <2> DEFINE c == Overwritten(b.cells, CheapPrepend, Readable(b))
  <2>1. /\ Readable(b) \in Seq(S)
        /\ Len(Readable(b)) = ReadableBytes(b) /\ ReadableBytes(b) \in Nat
        /\ \A i \in 1 .. ReadableBytes(b) : Readable(b)[i] = b.cells[b.reader + i]
    BY ReadableCells, SeqMonotonic
  <2>2. /\ c \in Seq(S) /\ Len(c) = Len(b.cells)
        /\ \A i \in 1 .. Len(b.cells) : c[i] =
              IF i \in CheapPrepend + 1 .. CheapPrepend + ReadableBytes(b)
              THEN Readable(b)[i - CheapPrepend] ELSE b.cells[i]
    BY <1>1, <2>1, OverwrittenCells
  <2>3. r = [cells |-> c, reader |-> CheapPrepend, writer |-> CheapPrepend + ReadableBytes(b)]
    BY <1>3 DEF MakeSpace
  <2> HIDE DEF c
  <2>4. /\ r.cells = c /\ r.reader = CheapPrepend
        /\ r.writer = CheapPrepend + ReadableBytes(b)
        /\ r \in [cells : Seq(S), reader : Nat, writer : Nat]
    BY <1>1, <2>1, <2>2, <2>3
  <2> HIDE DEF r
  <2>5. \A i \in 1 .. ReadableBytes(b) : c[CheapPrepend + i] = b.cells[b.reader + i]
    <3> TAKE i \in 1 .. ReadableBytes(b)
    <3>1. CheapPrepend + i \in 1 .. Len(b.cells) /\ (CheapPrepend + i) - CheapPrepend = i
          /\ CheapPrepend + i \in CheapPrepend + 1 .. CheapPrepend + ReadableBytes(b)
      BY <1>1, <2>1 DEF ReadableBytes
    <3> QED  BY <2>1, <2>2, <3>1
  <2>6. BufferOK(r, C)
    <3>1. ASSUME NEW j \in r.reader + 1 .. r.writer PROVE r.cells[j] \in C
      <4>1. j - CheapPrepend \in 1 .. ReadableBytes(b) /\ j = CheapPrepend + (j - CheapPrepend)
            /\ b.reader + (j - CheapPrepend) \in b.reader + 1 .. b.writer
        BY <1>1, <2>1, <2>4, <3>1 DEF ReadableBytes
      <4> QED  BY <1>1, <2>4, <2>5, <4>1
    <3>2. CheapPrepend + ReadableBytes(b) <= Len(c)
      BY <1>1, <2>2 DEF ReadableBytes
    <3> QED  BY <1>1, <2>1, <2>4, <3>1, <3>2 DEF BufferOK, BufferType
  <2>7. Readable(r) = Readable(b)
    <3>1. ReadableBytes(r) = ReadableBytes(b)
      BY <1>1, <2>1, <2>4 DEF ReadableBytes
    <3> QED  BY <2>4, <2>5, <2>6, <3>1, SameReadable
  <2>8. WritableBytes(r) >= len
    BY <1>1, <1>3, <2>1, <2>2, <2>4 DEF WritableBytes, ReadableBytes
  <2> QED  BY <2>6, <2>7, <2>8 DEF r
<1> QED  BY <1>2, <1>3

(* Cells copied behind the readable ones, where there is room for them.    *)
LEMMA PutBehind ==
    ASSUME NEW C, NEW b, BufferOK(b, C), NEW data \in Seq(C),
           Len(data) <= WritableBytes(b)
    PROVE  /\ BufferOK(Copied(b, data), C)
           /\ Readable(Copied(b, data)) = Readable(b) \o data
           /\ WritableBytes(Copied(b, data)) = WritableBytes(b) - Len(data)
<1> DEFINE S == C \cup {Blank}
           r == Copied(b, data)
           c == Overwritten(b.cells, b.writer, data)
           n == ReadableBytes(b)
<1>1. /\ b \in [cells : Seq(S), reader : Nat, writer : Nat]
      /\ b.cells \in Seq(S) /\ b.reader \in Nat /\ b.writer \in Nat
      /\ CheapPrepend <= b.reader /\ b.reader <= b.writer /\ b.writer <= Len(b.cells)
      /\ \A i \in b.reader + 1 .. b.writer : b.cells[i] \in C
      /\ Len(b.cells) \in Nat /\ Len(data) \in Nat /\ data \in Seq(S)
      /\ \A i \in 1 .. Len(data) : data[i] \in C
      /\ CheapPrepend \in Nat
  BY LenProperties, ElementOfSeq, SeqMonotonic, BufferAssumption DEF BufferOK, BufferType
<1>2. /\ c \in Seq(S) /\ Len(c) = Len(b.cells)
      /\ \A i \in 1 .. Len(b.cells) : c[i] =
            IF i \in b.writer + 1 .. b.writer + Len(data) THEN data[i - b.writer] ELSE b.cells[i]
  <2>1. b.cells \in Seq(S) /\ data \in Seq(S) /\ b.writer \in Nat
    BY <1>1
  <2> HIDE DEF S
  <2> QED  BY <2>1, OverwrittenCells
<1>3. /\ Readable(b) \in Seq(C) /\ Len(Readable(b)) = n /\ n \in Nat
      /\ \A i \in 1 .. n : Readable(b)[i] = b.cells[b.reader + i]
  BY ReadableCells
<1>4. r = [b EXCEPT !.cells = c, !.writer = b.writer + Len(data)]
  BY <1>1 DEF Copied
<1> HIDE DEF c, r
<1>5. /\ r.cells = c /\ r.reader = b.reader /\ r.writer = b.writer + Len(data)
      /\ r \in [cells : Seq(S), reader : Nat, writer : Nat]
  <2>1. /\ b \in [cells : Seq(S), reader : Nat, writer : Nat] /\ c \in Seq(S)
        /\ b.writer + Len(data) \in Nat
    BY <1>1, <1>2
  <2> HIDE DEF S
  <2> QED  BY <1>4, <2>1
<1>6. /\ \A i \in b.reader + 1 .. b.writer : c[i] = b.cells[i]
      /\ \A i \in b.writer + 1 .. b.writer + Len(data) : c[i] = data[i - b.writer]
  <2>1. b.writer + Len(data) <= Len(b.cells)
    BY <1>1 DEF WritableBytes
  <2>2. ASSUME NEW i \in b.reader + 1 .. b.writer PROVE c[i] = b.cells[i]
    <3>1. i \in 1 .. Len(b.cells) /\ ~(i \in b.writer + 1 .. b.writer + Len(data))
      BY <1>1, <2>2
    <3> QED  BY <1>2, <3>1
  <2>3. ASSUME NEW i \in b.writer + 1 .. b.writer + Len(data)
        PROVE  c[i] = data[i - b.writer]
    <3>1. i \in 1 .. Len(b.cells)
      BY <1>1, <2>1, <2>3
    <3> QED  BY <1>2, <2>3, <3>1
  <2> QED  BY <2>2, <2>3
<1>7. BufferOK(r, C)
  <2>1. ASSUME NEW j \in b.reader + 1 .. b.writer + Len(data) PROVE c[j] \in C
    <3>1. CASE j <= b.writer
      BY <1>1, <1>6, <2>1, <3>1
    <3>2. CASE ~(j <= b.writer)
      <4>1. j - b.writer \in 1 .. Len(data) /\ j \in b.writer + 1 .. b.writer + Len(data)
        BY <1>1, <2>1, <3>2
      <4> QED  BY <1>1, <1>6, <4>1
    <3> QED  BY <3>1, <3>2
  <2>2. b.writer + Len(data) <= Len(c)
    BY <1>1, <1>2 DEF WritableBytes
  <2> QED  BY <1>1, <1>5, <2>1, <2>2 DEF BufferOK, BufferType
<1>8. ReadableBytes(r) = n + Len(data)
  BY <1>1, <1>5 DEF ReadableBytes
<1>9. /\ Readable(r) \in Seq(C) /\ Len(Readable(r)) = n + Len(data)
      /\ \A i \in 1 .. n + Len(data) : Readable(r)[i] = c[b.reader + i]
  BY <1>5, <1>7, <1>8, ReadableCells
<1>10. /\ Readable(b) \o data \in Seq(C) /\ Len(Readable(b) \o data) = n + Len(data)
       /\ \A i \in 1 .. n + Len(data) : (Readable(b) \o data)[i] =
             IF i <= n THEN Readable(b)[i] ELSE data[i - n]
  <2> HIDE DEF n
  <2>1. Readable(b) \in Seq(C) /\ data \in Seq(C) /\ Len(Readable(b)) = n
    BY <1>3
  <2> QED  BY <2>1, ConcatProperties
<1>11. ASSUME NEW i \in 1 .. n + Len(data)
       PROVE  Readable(r)[i] = (Readable(b) \o data)[i]
  <2>1. CASE i <= n
    <3>1. b.reader + i \in b.reader + 1 .. b.writer /\ i \in 1 .. n
      BY <1>1, <1>3, <1>11, <2>1 DEF ReadableBytes
    <3> QED  BY <1>3, <1>6, <1>9, <1>10, <2>1, <3>1
  <2>2. CASE ~(i <= n)
    <3>1. b.reader + i \in b.writer + 1 .. b.writer + Len(data)
          /\ (b.reader + i) - b.writer = i - n
      BY <1>1, <1>3, <1>11, <2>2 DEF ReadableBytes
    <3> QED  BY <1>6, <1>9, <1>10, <2>2, <3>1
  <2> QED  BY <2>1, <2>2
<1>12. Readable(r) = Readable(b) \o data
  BY <1>9, <1>10, <1>11, SeqEqual
<1>13. WritableBytes(r) = WritableBytes(b) - Len(data)
  BY <1>1, <1>2, <1>5 DEF WritableBytes
<1> QED  BY <1>7, <1>12, <1>13 DEF r

(* append.                                                                 *)
LEMMA AppendAppends ==
    ASSUME NEW C, NEW b, BufferOK(b, C), NEW data \in Seq(C)
    PROVE  /\ BufferOK(AppendCells(b, data), C)
           /\ Readable(AppendCells(b, data)) = Readable(b) \o data
<1> DEFINE roomy == IF Len(data) > WritableBytes(b) THEN MakeSpace(b, Len(data)) ELSE b
<1>1. Len(data) \in Nat /\ WritableBytes(b) \in Nat
  BY LenProperties DEF BufferOK, BufferType, WritableBytes
<1>2. /\ BufferOK(roomy, C) /\ Readable(roomy) = Readable(b)
      /\ Len(data) <= WritableBytes(roomy)
  <2>1. CASE Len(data) > WritableBytes(b)
    <3>1. /\ BufferOK(MakeSpace(b, Len(data)), C)
          /\ Readable(MakeSpace(b, Len(data))) = Readable(b)
          /\ WritableBytes(MakeSpace(b, Len(data))) >= Len(data)
      BY <1>1, <2>1, MakeSpaceKeeps
    <3>2. WritableBytes(MakeSpace(b, Len(data))) \in Int
      BY <3>1, LenProperties DEF BufferOK, BufferType, WritableBytes
    <3> QED  BY <1>1, <2>1, <3>1, <3>2
  <2> QED  BY <1>1, <2>1
<1>3. AppendCells(b, data) = Copied(roomy, data)
  BY DEF AppendCells
<1> HIDE DEF roomy
<1> QED  BY <1>2, <1>3, PutBehind

(* A new buffer, and one that was emptied, have nothing to read.           *)
LEMMA NewBufferEmpty ==
    ASSUME NEW C, NEW n \in Nat
    PROVE  BufferOK(NewBuffer(n), C) /\ Readable(NewBuffer(n)) = <<>>
<1> DEFINE S == C \cup {Blank}
           c == [i \in 1 .. CheapPrepend + n |-> Blank]
           r == NewBuffer(n)
<1>1. CheapPrepend \in Nat /\ CheapPrepend + n \in Nat /\ CheapPrepend <= CheapPrepend + n
  BY BufferAssumption
<1>2. c \in [1 .. CheapPrepend + n -> S]
  OBVIOUS
<1>3. c \in Seq(S) /\ Len(c) = CheapPrepend + n
  <2> HIDE DEF c, S
  <2> QED  BY <1>1, <1>2, FunctionIsSeq
<1>4. r = [cells |-> c, reader |-> CheapPrepend, writer |-> CheapPrepend]
  BY DEF NewBuffer
<1> HIDE DEF c, r
<1>5. r \in [cells : Seq(S), reader : Nat, writer : Nat]
  BY <1>1, <1>3, <1>4
<1>6. BufferOK(r, C)
  BY <1>1, <1>3, <1>4, <1>5 DEF BufferOK, BufferType
<1>7. Readable(r) \in Seq(C) /\ Len(Readable(r)) = 0
  BY <1>1, <1>4, <1>6, ReadableCells DEF ReadableBytes
<1> QED  BY <1>6, <1>7, EmptySeq DEF r

LEMMA RetrieveAllEmpties ==
    ASSUME NEW C, NEW b, BufferOK(b, C)
    PROVE  BufferOK(RetrieveAll(b), C) /\ Readable(RetrieveAll(b)) = <<>>
<1> DEFINE S == C \cup {Blank}
           r == RetrieveAll(b)
<1>1. /\ b \in [cells : Seq(S), reader : Nat, writer : Nat]
      /\ CheapPrepend \in Nat /\ Len(b.cells) \in Nat
      /\ CheapPrepend <= b.reader /\ b.reader <= b.writer /\ b.writer <= Len(b.cells)
  BY LenProperties, BufferAssumption DEF BufferOK, BufferType
<1>2. r = [b EXCEPT !.reader = CheapPrepend, !.writer = CheapPrepend]
  BY DEF RetrieveAll
<1> HIDE DEF r
<1>3. /\ r \in [cells : Seq(S), reader : Nat, writer : Nat]
      /\ r.cells = b.cells /\ r.reader = CheapPrepend /\ r.writer = CheapPrepend
  BY <1>1, <1>2
<1>4. BufferOK(r, C)
  BY <1>1, <1>3 DEF BufferOK, BufferType
<1>5. Readable(r) \in Seq(C) /\ Len(Readable(r)) = 0
  BY <1>1, <1>3, <1>4, ReadableCells DEF ReadableBytes
<1> QED  BY <1>4, <1>5, EmptySeq DEF r

(* retrieve: what is left follows what was taken.                          *)
LEMMA RetrieveTakes ==
    ASSUME NEW C, NEW b, BufferOK(b, C), NEW len \in Nat
    PROVE  /\ BufferOK(Retrieve(b, len), C)
           /\ len <= ReadableBytes(b) =>
                 /\ Readable(b) = SubSeq(Readable(b), 1, len) \o Readable(Retrieve(b, len))
                 /\ Readable(Retrieve(b, len)) = <<>> <=> len = ReadableBytes(b)
<1> DEFINE S == C \cup {Blank}
           n == ReadableBytes(b)
           r == Retrieve(b, len)
<1>1. /\ b \in [cells : Seq(S), reader : Nat, writer : Nat]
      /\ b.cells \in Seq(S) /\ b.reader \in Nat /\ b.writer \in Nat
      /\ CheapPrepend \in Nat /\ Len(b.cells) \in Nat
      /\ CheapPrepend <= b.reader /\ b.reader <= b.writer /\ b.writer <= Len(b.cells)
      /\ \A i \in b.reader + 1 .. b.writer : b.cells[i] \in C
  BY LenProperties, BufferAssumption DEF BufferOK, BufferType
<1>2. /\ Readable(b) \in Seq(C) /\ Len(Readable(b)) = n /\ n \in Nat
      /\ \A i \in 1 .. n : Readable(b)[i] = b.cells[b.reader + i]
  BY ReadableCells
<1>3. CASE len < n
  <2>1. r = [b EXCEPT !.reader = b.reader + len]
    BY <1>3 DEF Retrieve
  <2> HIDE DEF r
  <2>2. /\ r \in [cells : Seq(S), reader : Nat, writer : Nat]
        /\ r.cells = b.cells /\ r.reader = b.reader + len /\ r.writer = b.writer
    BY <1>1, <2>1
  <2>3. BufferOK(r, C)
    BY <1>1, <1>3, <2>2 DEF BufferOK, BufferType, ReadableBytes
  <2>4. ReadableBytes(r) = n - len
    BY <1>1, <2>2 DEF ReadableBytes
  <2>5. /\ Readable(r) \in Seq(C) /\ Len(Readable(r)) = n - len
        /\ \A i \in 1 .. n - len : Readable(r)[i] = b.cells[(b.reader + len) + i]
    BY <2>2, <2>3, <2>4, ReadableCells
  <2> DEFINE t == SubSeq(Readable(b), 1, len)
  <2>6. t \in Seq(C) /\ Len(t) = len /\ \A i \in 1 .. len : t[i] = Readable(b)[i]
    <3>1. 1 \in Int /\ len \in Int /\ \A i \in 1 .. len : i \in 1 .. n
      BY <1>2, <1>3
    <3>2. \A i \in 1 .. len : Readable(b)[i] \in C
      BY <1>2, <3>1, ElementOfSeq
    <3>3. /\ t \in Seq(C) /\ Len(t) = (IF 1 <= len THEN len - 1 + 1 ELSE 0)
          /\ \A i \in 1 .. len - 1 + 1 : t[i] = Readable(b)[1 + i - 1]
      <4> HIDE DEF n
      <4> QED  BY <3>1, <3>2, SubSeqProperties
    <3>4. len - 1 + 1 = len /\ \A i \in 1 .. len : 1 + i - 1 = i
      OBVIOUS
    <3> QED  BY <3>3, <3>4
  <2> HIDE DEF t, n
  <2>7. /\ t \o Readable(r) \in Seq(C) /\ Len(t \o Readable(r)) = n
        /\ \A i \in 1 .. n : (t \o Readable(r))[i] =
              IF i <= len THEN t[i] ELSE Readable(r)[i - len]
    <3>1. len + (n - len) = n
      BY <1>2
    <3>2. /\ t \o Readable(r) \in Seq(C)
          /\ Len(t \o Readable(r)) = Len(t) + Len(Readable(r))
          /\ \A i \in 1 .. Len(t) + Len(Readable(r)) : (t \o Readable(r))[i] =
                IF i <= Len(t) THEN t[i] ELSE Readable(r)[i - Len(t)]
      <4>1. t \in Seq(C) /\ Readable(r) \in Seq(C)
        BY <2>5, <2>6
      <4> QED  BY <4>1, ConcatProperties
    <3>3. Len(t) = len /\ Len(Readable(r)) = n - len
      BY <2>5, <2>6
    <3> QED  BY <3>1, <3>2, <3>3
  <2>8. ASSUME NEW i \in 1 .. n PROVE (t \o Readable(r))[i] = Readable(b)[i]
    <3>1. CASE i <= len
      BY <2>6, <2>7, <2>8, <3>1
    <3>2. CASE ~(i <= len)
      <4>1. i - len \in 1 .. n - len /\ (b.reader + len) + (i - len) = b.reader + i
        BY <1>1, <1>2, <2>8, <3>2
      <4> QED  BY <1>2, <2>5, <2>7, <3>2, <4>1
    <3> QED  BY <3>1, <3>2
  <2>9. Readable(b) = t \o Readable(r)
    BY <1>2, <2>7, <2>8, SeqEqual
  <2>10. Readable(r) # <<>>
    BY <1>2, <1>3, <2>5, EmptySeq
  <2>11. len # n
    BY <1>2, <1>3
  <2> QED  BY <2>3, <2>9, <2>10, <2>11 DEF r, t, n
<1>4. CASE ~(len < n)
  <2>1. r = RetrieveAll(b)
    BY <1>4 DEF Retrieve
  <2>2. BufferOK(r, C) /\ Readable(r) = <<>>
    BY <2>1, RetrieveAllEmpties
  <2>3. len <= n => len = n
    BY <1>2, <1>4
  <2>4. SubSeq(Readable(b), 1, n) \o <<>> = Readable(b)
    BY <1>2, SubSeqFull, ConcatEmptySeq
  <2>5. len <= n => Readable(b) = SubSeq(Readable(b), 1, len) \o Readable(r)
    BY <2>2, <2>3, <2>4
  <2> QED  BY <2>2, <2>3, <2>5
<1> QED  BY <1>3, <1>4

(* readFd, through extrabuf or not.                                        *)
LEMMA ReadFdAppends ==
    ASSUME NEW C, NEW b, BufferOK(b, C), NEW data \in Seq(C)
    PROVE  /\ BufferOK(ReadFd(b, data), C)
           /\ Readable(ReadFd(b, data)) = Readable(b) \o data
<1> DEFINE fits == WritableBytes(b)
<1>1. Len(data) \in Nat /\ fits \in Nat
  BY LenProperties DEF BufferOK, BufferType, WritableBytes
<1>2. CASE Len(data) <= fits
  <2>1. ReadFd(b, data) = Copied(b, data)
    BY <1>2 DEF ReadFd
  <2> QED  BY <1>2, <2>1, PutBehind
<1>3. CASE ~(Len(data) <= fits)
  <2> DEFINE head == SubSeq(data, 1, fits)
             rest == SubSeq(data, fits + 1, Len(data))
             full == Copied(b, head)
  <2>1. \A i \in 1 .. Len(data) : data[i] \in C
    BY ElementOfSeq
  <2>2. head \in Seq(C) /\ Len(head) = fits
    <3>1. \A i \in 1 .. fits : data[i] \in C
      BY <1>1, <1>3, <2>1
    <3>2. SubSeq(data, 1, fits) \in Seq(C)
          /\ Len(SubSeq(data, 1, fits)) = IF 1 <= fits THEN fits - 1 + 1 ELSE 0
      <4> HIDE DEF fits
      <4> QED  BY <1>1, <3>1, SubSeqProperties
    <3> QED  BY <1>1, <3>2
  <2>3. rest \in Seq(C)
    <3>1. \A i \in fits + 1 .. Len(data) : data[i] \in C
      BY <1>1, <2>1
    <3>2. fits + 1 \in Int /\ Len(data) \in Int
      BY <1>1
    <3> HIDE DEF fits
    <3> QED  BY <3>1, <3>2, SubSeqProperties
  <2>4. data = head \o rest
    <3>1. /\ 1 \in 1 .. Len(data) + 1 /\ fits \in 1 - 1 .. Len(data)
          /\ Len(data) \in fits .. Len(data)
      BY <1>1, <1>3
    <3> HIDE DEF fits
    <3>2. SubSeq(data, 1, fits) \o SubSeq(data, fits + 1, Len(data)) = SubSeq(data, 1, Len(data))
      BY <3>1, ConcatAdjacentSubSeq
    <3> QED  BY <3>2, SubSeqFull
  <2>5. BufferOK(full, C) /\ Readable(full) = Readable(b) \o head
    <3>1. Len(head) <= WritableBytes(b)
      BY <1>1, <2>2
    <3> HIDE DEF head
    <3> QED  BY <2>2, <3>1, PutBehind
  <2>6. ReadFd(b, data) = AppendCells(full, rest)
    BY <1>3 DEF ReadFd
  <2> HIDE DEF head, rest, full
  <2>7. /\ BufferOK(AppendCells(full, rest), C)
        /\ Readable(AppendCells(full, rest)) = Readable(full) \o rest
    BY <2>3, <2>5, AppendAppends
  <2>8. (Readable(b) \o head) \o rest = Readable(b) \o data
    <3>1. Readable(b) \in Seq(C)
      BY ReadableCells
    <3> QED  BY <2>2, <2>3, <2>4, <3>1, ConcatAssociative
  <2> QED  BY <2>5, <2>6, <2>7, <2>8
<1> QED  BY <1>2, <1>3

(* The handlers' packing: the body appended, the head prepended.           *)
LEMMA PackKeepsMessage ==
    ASSUME NEW C, NEW message \in Seq(C), message # <<>>
    PROVE  Pack(message) = message
<1> DEFINE S == C \cup {Blank}
           b == AppendCells(NewBuffer(0), Tail(message))
           h == <<Head(message)>>
           r == Prepend(b, h)
           c == Overwritten(b.cells, b.reader - 1, h)
           n == ReadableBytes(b)
<1>1. /\ Tail(message) \in Seq(C) /\ Head(message) \in C
      /\ Len(message) \in Nat /\ Len(Tail(message)) = Len(message) - 1
      /\ \A i \in 1 .. Len(Tail(message)) : Tail(message)[i] = message[i + 1]
  BY HeadTailProperties, LenProperties
<1>2. BufferOK(b, C) /\ Readable(b) = Tail(message)
  <2>1. BufferOK(NewBuffer(0), C) /\ Readable(NewBuffer(0)) = <<>>
    BY NewBufferEmpty
  <2>2. BufferOK(b, C) /\ Readable(b) = <<>> \o Tail(message)
    BY <1>1, <2>1, AppendAppends
  <2> QED  BY <1>1, <2>2, ConcatEmptySeq
<1> HIDE DEF b
<1>3. /\ b \in [cells : Seq(S), reader : Nat, writer : Nat]
      /\ b.cells \in Seq(S) /\ b.reader \in Nat /\ b.writer \in Nat
      /\ CheapPrepend \in Nat /\ Len(b.cells) \in Nat /\ b.reader - 1 \in Nat
      /\ b.reader <= b.writer /\ b.writer <= Len(b.cells)
      /\ \A i \in b.reader + 1 .. b.writer : b.cells[i] \in C
  <2>1. CheapPrepend \in Nat /\ CheapPrepend >= 1
    BY BufferAssumption
  <2>2. CheapPrepend <= b.reader /\ b.reader \in Nat
    BY <1>2 DEF BufferOK, BufferType
  <2> QED  BY <1>2, <2>1, <2>2, LenProperties DEF BufferOK, BufferType
<1>4. h \in Seq(S) /\ Len(h) = 1 /\ h[1] = Head(message)
  BY <1>1
<1>5. /\ c \in Seq(S) /\ Len(c) = Len(b.cells)
      /\ \A i \in 1 .. Len(b.cells) : c[i] =
            IF i \in (b.reader - 1) + 1 .. (b.reader - 1) + Len(h)
            THEN h[i - (b.reader - 1)] ELSE b.cells[i]
  <2>1. b.cells \in Seq(S) /\ h \in Seq(S) /\ b.reader - 1 \in Nat
    BY <1>3, <1>4
  <2> HIDE DEF S, h
  <2> QED  BY <2>1, OverwrittenCells
<1>6. r = [b EXCEPT !.reader = b.reader - Len(h), !.cells = Overwritten(b.cells, b.reader - Len(h), h)]
  <2>1. ~(Len(h) > b.reader)
    BY <1>3, <1>4
  <2> HIDE DEF h
  <2> QED  BY <2>1 DEF Prepend
<1>7. r = [b EXCEPT !.reader = b.reader - 1, !.cells = c]
  <2> HIDE DEF h
  <2> QED  BY <1>4, <1>6
<1> HIDE DEF c, r, h
<1>8. r.cells = c /\ r.reader = b.reader - 1 /\ r.writer = b.writer
  BY <1>3, <1>5, <1>7
<1>9. c[b.reader] = Head(message) /\ \A i \in b.reader + 1 .. b.writer : c[i] = b.cells[i]
  <2>1. ASSUME NEW i \in b.reader + 1 .. b.writer PROVE c[i] = b.cells[i]
    <3>1. i \in 1 .. Len(b.cells)
          /\ ~(i \in (b.reader - 1) + 1 .. (b.reader - 1) + Len(h))
      BY <1>3, <1>4, <2>1
    <3> QED  BY <1>5, <3>1
  <2>2. b.reader \in 1 .. Len(b.cells) /\ b.reader - (b.reader - 1) = 1
        /\ b.reader \in (b.reader - 1) + 1 .. (b.reader - 1) + Len(h)
    BY <1>3, <1>4
  <2>3. c[b.reader] = h[1]
    BY <1>5, <2>2
  <2> QED  BY <1>4, <2>1, <2>3
<1>10. /\ Len(Readable(b)) = n /\ n \in Nat /\ n = b.writer - b.reader
       /\ \A i \in 1 .. n : Readable(b)[i] = b.cells[b.reader + i]
  BY <1>2, ReadableCells DEF ReadableBytes
<1> HIDE DEF n
<1>11. Len(message) = n + 1
  BY <1>1, <1>2, <1>10
<1>12. /\ SubSeq(c, b.reader, b.writer) \in Seq(C)
       /\ Len(SubSeq(c, b.reader, b.writer)) = IF b.reader <= b.writer THEN b.writer - b.reader + 1 ELSE 0
       /\ \A i \in 1 .. b.writer - b.reader + 1 : SubSeq(c, b.reader, b.writer)[i] = c[b.reader + i - 1]
  <2>1. ASSUME NEW i \in b.reader .. b.writer PROVE c[i] \in C
    <3>1. CASE i = b.reader
      BY <1>1, <1>9, <3>1
    <3>2. CASE i # b.reader
      <4>1. i \in b.reader + 1 .. b.writer
        BY <1>3, <2>1, <3>2
      <4> QED  BY <1>3, <1>9, <4>1
    <3> QED  BY <3>1, <3>2
  <2>2. b.reader \in Int /\ b.writer \in Int
    BY <1>3
  <2> QED  BY <2>1, <2>2, SubSeqProperties
<1>13. Readable(r) = SubSeq(c, b.reader, b.writer)
  <2>1. (b.reader - 1) + 1 = b.reader
    BY <1>3
  <2> QED  BY <1>8, <2>1 DEF Readable
<1>14. Len(Readable(r)) = n + 1 /\ Readable(r) \in Seq(C)
  BY <1>3, <1>10, <1>12, <1>13
<1>15. ASSUME NEW i \in 1 .. n + 1 PROVE Readable(r)[i] = message[i]
  <2>1. Readable(r)[i] = c[b.reader + i - 1]
    BY <1>3, <1>10, <1>12, <1>13, <1>15
  <2>2. CASE i = 1
    <3>1. b.reader + 1 - 1 = b.reader /\ message[1] = Head(message)
      BY <1>3
    <3> QED  BY <1>9, <2>1, <2>2, <3>1
  <2>3. CASE i # 1
    <3>1. i - 1 \in 1 .. n /\ b.reader + (i - 1) \in b.reader + 1 .. b.writer
          /\ b.reader + i - 1 = b.reader + (i - 1) /\ (i - 1) + 1 = i
      BY <1>3, <1>10, <1>15, <2>3
    <3>2. c[b.reader + (i - 1)] = Readable(b)[i - 1]
      BY <1>9, <1>10, <3>1
    <3>3. Tail(message)[i - 1] = message[(i - 1) + 1]
      BY <1>1, <1>10, <1>2, <3>1
    <3> QED  BY <1>2, <2>1, <3>1, <3>2, <3>3
  <2> QED  BY <2>2, <2>3
<1>16. Readable(r) = message
  BY <1>11, <1>14, <1>15, SeqEqual
<1>17. Pack(message) = Readable(r)
  BY DEF Pack, r, b, h
<1> QED  BY <1>16, <1>17

----------------------------------------------------------------------------
(* The inductive invariant: beside the types and what is to be shown,      *)
(* tempRuns is empty outside doPendingFunctors.                            *)

OutOK ==
    /\ wire \in Seq(Cell) /\ unread \in 0 .. Room
    /\ BufferOK(outBuf, Cell)
    /\ events \subseteq {"in", "out"} /\ accepted \in Seq(Cell) /\ told \in BOOLEAN
    /\ pending \in Seq(Functors) /\ broken \in BOOLEAN

RestOK ==
    /\ peer \in {"open", "closed", "reset"} /\ next \in Nat \X Nat
    /\ arrived \in Seq(Cell)
    /\ BufferOK(inBuf, Cell) /\ registered \in BOOLEAN
    /\ at \in {"poll", "event", "message", "functors"}
    /\ todo \in Seq({"read", "write", "close"})
    /\ handled \in Seq(Seq(Cell)) /\ running \in Seq(Functors)
    /\ task \in [Requests -> {"none", "given", "sent", "done"}]
    /\ inMap \in BOOLEAN /\ freed \in BOOLEAN

Watched == "out" \in events <=> Readable(outBuf) # <<>>

Waits(functors) == \E i \in DOMAIN functors : functors[i] = Complete

Told ==
    accepted # <<>> /\ Readable(outBuf) = <<>> /\ ~broken =>
        told \/ Waits(running) \/ Waits(pending)

Inv ==
    /\ OutOK /\ RestOK
    /\ RepliesAreInOrder
    /\ registered => Watched
    /\ at # "functors" => running = <<>>
    /\ Told

LEMMA ReplyCells ==
    ASSUME NEW k \in Requests
    PROVE  Reply[k] \in Seq(Cell) /\ Reply[k] # <<>>
<1> DEFINE message == Message(k, Replies[k])
<1>1. Replies[k] \in Nat
  BY ConnectionAssumption DEF Requests
<1>2. message \in [1 .. Replies[k] + 1 -> Cell]
  BY <1>1 DEF Message, Cell
<1>3. message \in Seq(Cell) /\ Len(message) = Replies[k] + 1
  <2> HIDE DEF message
  <2> QED  BY <1>1, <1>2, FunctionIsSeq
<1>4. message # <<>>
  BY <1>1, <1>3, EmptySeq
<1>5. Reply[k] = Pack(message)
  BY DEF Reply
<1> HIDE DEF message
<1> QED  BY <1>3, <1>4, <1>5, PackKeepsMessage

LEMMA AppendWaits ==
    ASSUME NEW functors \in Seq(Functors), NEW functor \in Functors
    PROVE  /\ Append(functors, functor) \in Seq(Functors)
           /\ Waits(functors) \/ functor = Complete => Waits(Append(functors, functor))
<1> DEFINE longer == Append(functors, functor)
<1>1. /\ longer \in Seq(Functors) /\ Len(longer) = Len(functors) + 1
      /\ \A i \in 1 .. Len(functors) : longer[i] = functors[i]
      /\ longer[Len(functors) + 1] = functor
  BY AppendProperties
<1>2. /\ DOMAIN longer = 1 .. Len(functors) + 1 /\ DOMAIN functors = 1 .. Len(functors)
      /\ Len(functors) \in Nat
  BY <1>1, LenProperties
<1> HIDE DEF longer
<1>3. ASSUME Waits(functors) PROVE Waits(longer)
  <2>1. PICK i \in 1 .. Len(functors) : functors[i] = Complete
    BY <1>2, <1>3 DEF Waits
  <2>2. i \in 1 .. Len(functors) + 1 /\ longer[i] = Complete
    BY <1>1, <1>2, <2>1
  <2> QED  BY <1>2, <2>2 DEF Waits
<1>4. ASSUME functor = Complete PROVE Waits(longer)
  <2>1. Len(functors) + 1 \in DOMAIN longer /\ longer[Len(functors) + 1] = Complete
    BY <1>1, <1>2, <1>4
  <2> QED  BY <2>1 DEF Waits
<1> QED  BY <1>1, <1>3, <1>4 DEF longer

LEMMA ConcatWaits ==
    ASSUME NEW f \in Seq(Functors), NEW g \in Seq(Functors), Waits(f) \/ Waits(g)
    PROVE  Waits(f \o g)
<1> DEFINE n == Len(f)
           m == Len(g)
<1>1. /\ f \o g \in Seq(Functors) /\ Len(f \o g) = n + m
      /\ \A i \in 1 .. n + m : (f \o g)[i] = IF i <= n THEN f[i] ELSE g[i - n]
  BY ConcatProperties
<1>2. /\ DOMAIN (f \o g) = 1 .. n + m /\ DOMAIN f = 1 .. n /\ DOMAIN g = 1 .. m
      /\ n \in Nat /\ m \in Nat
  BY <1>1, LenProperties
<1> HIDE DEF n, m
<1>3. CASE Waits(f)
  <2>1. PICK i \in 1 .. n : f[i] = Complete
    BY <1>2, <1>3 DEF Waits
  <2>2. i \in 1 .. n + m /\ i <= n
    BY <1>2, <2>1
  <2>3. (f \o g)[i] = Complete
    BY <1>1, <2>1, <2>2
  <2> QED  BY <1>2, <2>2, <2>3 DEF Waits
<1>4. CASE Waits(g)
  <2>1. PICK i \in 1 .. m : g[i] = Complete
    BY <1>2, <1>4 DEF Waits
  <2>2. n + i \in 1 .. n + m /\ ~(n + i <= n) /\ (n + i) - n = i
    BY <1>2, <2>1
  <2>3. (f \o g)[n + i] = Complete
    BY <1>1, <2>1, <2>2
  <2> QED  BY <1>2, <2>2, <2>3 DEF Waits
<1> QED  BY <1>3, <1>4

LEMMA SplitSeq ==
    ASSUME NEW C, NEW cells \in Seq(C), NEW n \in 0 .. Len(cells)
    PROVE  /\ SubSeq(cells, 1, n) \in Seq(C) /\ Len(SubSeq(cells, 1, n)) = n
           /\ SubSeq(cells, n + 1, Len(cells)) \in Seq(C)
           /\ Len(SubSeq(cells, n + 1, Len(cells))) = Len(cells) - n
           /\ cells = SubSeq(cells, 1, n) \o SubSeq(cells, n + 1, Len(cells))
<1>1. Len(cells) \in Nat /\ n \in Nat /\ n <= Len(cells)
  BY LenProperties
<1>2. \A i \in 1 .. Len(cells) : cells[i] \in C
  BY ElementOfSeq
<1>3. /\ SubSeq(cells, 1, n) \in Seq(C)
      /\ Len(SubSeq(cells, 1, n)) = IF 1 <= n THEN n - 1 + 1 ELSE 0
  <2>1. \A i \in 1 .. n : cells[i] \in C
    BY <1>1, <1>2
  <2> QED  BY <1>1, <2>1, SubSeqProperties
<1>4. /\ SubSeq(cells, n + 1, Len(cells)) \in Seq(C)
      /\ Len(SubSeq(cells, n + 1, Len(cells))) =
            IF n + 1 <= Len(cells) THEN Len(cells) - (n + 1) + 1 ELSE 0
  <2>1. \A i \in n + 1 .. Len(cells) : cells[i] \in C
    BY <1>1, <1>2
  <2>2. n + 1 \in Int /\ Len(cells) \in Int
    BY <1>1
  <2> QED  BY <2>1, <2>2, SubSeqProperties
<1>5. SubSeq(cells, 1, n) \o SubSeq(cells, n + 1, Len(cells)) = SubSeq(cells, 1, Len(cells))
  <2>1. /\ 1 \in 1 .. Len(cells) + 1 /\ n \in 1 - 1 .. Len(cells)
        /\ Len(cells) \in n .. Len(cells)
    BY <1>1
  <2> QED  BY <2>1, ConcatAdjacentSubSeq
<1>6. SubSeq(cells, 1, Len(cells)) = cells
  BY SubSeqFull
<1>7. Len(SubSeq(cells, 1, n)) = n
  BY <1>1, <1>3
<1>8. Len(SubSeq(cells, n + 1, Len(cells))) = Len(cells) - n
  BY <1>1, <1>4
<1> QED  BY <1>3, <1>4, <1>5, <1>6, <1>7, <1>8

LEMMA Regroup == \A s, t, u \in Seq(Cell) : (s \o t) \o u = s \o (t \o u)
BY ConcatAssociative

LEMMA CompleteIsFunctor == Complete \in Functors
BY DEF Functors

LEMMA WriteLengthFits ==
    ASSUME NEW cells \in Seq(Cell), unread \in 0 .. Room
    PROVE  /\ WriteLength(cells) \in 0 .. Len(cells)
           /\ unread + WriteLength(cells) \in 0 .. Room
<1>1. Len(cells) \in Nat /\ Room \in Nat
  BY LenProperties, ConnectionAssumption
<1> QED  BY <1>1 DEF WriteLength

(* sendInLoop keeps the order, watches for EPOLLOUT if something is left   *)
(* and has the program told if nothing is.                                 *)
LEMMA SendKeeps ==
    ASSUME OutOK, RepliesAreInOrder, NEW cells \in Seq(Cell), cells # <<>>,
           SendInLoop(cells)
    PROVE  /\ OutOK' /\ RepliesAreInOrder'
           /\ Watched => Watched'
           /\ ~broken' /\ Readable(outBuf)' = <<>> => Waits(pending)'
<1> USE DEF OutOK
<1> DEFINE n == AtOnce(cells)
           head == SubSeq(cells, 1, n)
           rest == SubSeq(cells, n + 1, Len(cells))
           waiting == Readable(outBuf)
<1>0. waiting \in Seq(Cell)
  BY ReadableCells
<1>1. CASE broken' = TRUE /\ UNCHANGED <<wire, unread, outBuf, events, accepted, told, pending>>
  BY <1>1 DEF RepliesAreInOrder, Watched
<1>2. CASE /\ Readable(outBuf) # <<>> \/ CanWrite
           /\ accepted' = accepted \o cells /\ told' = FALSE
           /\ Written(n, cells)
           /\ IF n = Len(cells)
              THEN /\ outBuf' = RetrieveAll(outBuf)
                   /\ pending' = Append(pending, Complete)
                   /\ UNCHANGED events
              ELSE /\ outBuf' = AppendCells(outBuf, rest)
                   /\ events' = EnableWriting(events)
                   /\ UNCHANGED pending
           /\ UNCHANGED broken
  <2>1. n \in 0 .. Len(cells) /\ unread + n \in 0 .. Room
    <3>1. Len(cells) \in Nat /\ unread + 0 = unread
      BY LenProperties
    <3> QED  BY <3>1, WriteLengthFits DEF AtOnce
  <2>2. Len(cells) \in Nat \ {0}
    BY EmptySeq
  <2>3. waiting # <<>> => n = 0
    BY DEF AtOnce
  <2> HIDE DEF n
  <2>4. /\ head \in Seq(Cell) /\ Len(head) = n
        /\ rest \in Seq(Cell) /\ Len(rest) = Len(cells) - n
        /\ cells = head \o rest
    BY <2>1, SplitSeq
  <2> HIDE DEF head, rest
  <2>5. wire' = wire \o head /\ unread' = unread + n /\ accepted' = accepted \o cells
    BY <1>2 DEF Written, head
  <2>6. wire \o head \in Seq(Cell) /\ accepted \o cells \in Seq(Cell)
    BY <2>4, ConcatProperties
  <2>7. accepted \o cells = (wire \o waiting) \o cells
    BY DEF RepliesAreInOrder
  <2>8. CASE n = Len(cells)
    <3>1. waiting = <<>>
      BY <2>2, <2>3, <2>8
    <3>2. rest = <<>>
      BY <2>4, <2>8, EmptySeq
    <3>3. head = cells
      BY <2>4, <3>2, ConcatEmptySeq
    <3>4. /\ outBuf' = RetrieveAll(outBuf) /\ pending' = Append(pending, Complete)
          /\ events' = events
      BY <1>2, <2>8
    <3>5. BufferOK(outBuf', Cell) /\ Readable(outBuf') = <<>>
      BY <3>4, RetrieveAllEmpties
    <3>6. pending' \in Seq(Functors) /\ Waits(pending')
      BY <3>4, AppendWaits, CompleteIsFunctor
    <3>7. wire \o waiting = wire
      BY <3>1, ConcatEmptySeq
    <3>8. wire' \o Readable(outBuf') = accepted'
      <4>1. (wire \o head) \o <<>> = wire \o head
        BY <2>6, ConcatEmptySeq
      <4> QED  BY <2>5, <2>7, <3>3, <3>5, <3>7, <4>1
    <3>9. OutOK'
      BY <1>2, <2>1, <2>5, <2>6, <3>4, <3>5, <3>6
    <3>10. Watched => Watched'
      BY <3>1, <3>4, <3>5 DEF Watched
    <3> QED  BY <3>6, <3>8, <3>9, <3>10 DEF RepliesAreInOrder
  <2>9. CASE n # Len(cells)
    <3>1. /\ outBuf' = AppendCells(outBuf, rest) /\ events' = EnableWriting(events)
          /\ pending' = pending
      BY <1>2, <2>9 DEF rest
    <3>2. BufferOK(outBuf', Cell) /\ Readable(outBuf') = waiting \o rest
      BY <2>4, <3>1, AppendAppends
    <3>3. rest # <<>>
      BY <2>1, <2>2, <2>4, <2>9, EmptySeq
    <3>4. Readable(outBuf') # <<>>
      BY <1>0, <2>4, <3>2, <3>3, ConcatEqualIffEmpty
    <3>5. (wire \o head) \o (waiting \o rest) = (wire \o waiting) \o cells
      <4>1. CASE waiting = <<>>
        <5>1. waiting \o rest = rest /\ wire \o waiting = wire
          BY <2>4, <4>1, ConcatEmptySeq
        <5>2. (wire \o head) \o rest = wire \o (head \o rest)
          BY <2>4, Regroup
        <5> QED  BY <2>4, <5>1, <5>2
      <4>2. CASE waiting # <<>>
        <5>1. head = <<>>
          BY <2>3, <2>4, <4>2, EmptySeq
        <5>2. rest = cells /\ wire \o head = wire
          BY <2>4, <5>1, ConcatEmptySeq
        <5>3. wire \o (waiting \o cells) = (wire \o waiting) \o cells
          BY <1>0, Regroup
        <5> QED  BY <5>2, <5>3
      <4> QED  BY <4>1, <4>2
    <3>6. wire' \o Readable(outBuf') = accepted'
      BY <2>5, <2>7, <3>2, <3>5
    <3>7. OutOK'
      <4>1. events' \subseteq {"in", "out"}
        BY <3>1 DEF EnableWriting
      <4> QED  BY <1>2, <2>1, <2>5, <2>6, <3>1, <3>2, <4>1
    <3>8. Watched'
      BY <3>1, <3>4 DEF Watched, EnableWriting
    <3> QED  BY <3>4, <3>6, <3>7, <3>8 DEF RepliesAreInOrder
  <2> QED  BY <2>8, <2>9
<1> QED  BY <1>1, <1>2 DEF SendInLoop

(* handleWrite keeps the order, and stops to watch when all is written.    *)
LEMMA WriteKeeps ==
    ASSUME OutOK, RepliesAreInOrder, Written(WriteLength(Readable(outBuf)), Readable(outBuf)),
           outBuf' = Retrieve(outBuf, WriteLength(Readable(outBuf))),
           IF WriteLength(Readable(outBuf)) = ReadableBytes(outBuf)
           THEN /\ events' = DisableWriting(events)
                /\ pending' = WriteCompleted(pending)
           ELSE UNCHANGED <<events, pending>>,
           "out" \in events,
           UNCHANGED <<accepted, told, broken>>
    PROVE  /\ OutOK' /\ RepliesAreInOrder'
           /\ Watched => Watched'
           /\ Readable(outBuf)' = <<>> => Waits(pending)'
           /\ Waits(pending) => Waits(pending)'
<1> USE DEF OutOK
<1> DEFINE waiting == Readable(outBuf)
           n == WriteLength(waiting)
           head == SubSeq(waiting, 1, n)
<1>1. waiting \in Seq(Cell) /\ Len(waiting) = ReadableBytes(outBuf)
  BY ReadableCells
<1>2. n \in 0 .. Len(waiting) /\ unread + n \in 0 .. Room /\ Len(waiting) \in Nat
  BY <1>1, WriteLengthFits, LenProperties
<1> HIDE DEF n
<1>3. head \in Seq(Cell)
  BY <1>1, <1>2, SplitSeq
<1>4. outBuf' = Retrieve(outBuf, n) /\ wire' = wire \o head /\ unread' = unread + n
  BY DEF Written, n
<1>5. /\ BufferOK(outBuf', Cell)
      /\ waiting = head \o Readable(outBuf')
      /\ Readable(outBuf') = <<>> <=> n = ReadableBytes(outBuf)
  <2>1. n \in Nat /\ n <= ReadableBytes(outBuf)
    BY <1>1, <1>2
  <2>2. /\ BufferOK(Retrieve(outBuf, n), Cell)
        /\ waiting = head \o Readable(Retrieve(outBuf, n))
        /\ Readable(Retrieve(outBuf, n)) = <<>> <=> n = ReadableBytes(outBuf)
    BY <2>1, RetrieveTakes
  <2> HIDE DEF head, waiting
  <2> QED  BY <1>4, <2>2
<1> HIDE DEF head, waiting
<1>6. wire' \o Readable(outBuf') = accepted'
  <2>1. Readable(outBuf') \in Seq(Cell)
    BY <1>5, ReadableCells
  <2>2. (wire \o head) \o Readable(outBuf') = wire \o (head \o Readable(outBuf'))
    BY <1>3, <2>1, ConcatAssociative
  <2> QED  BY <1>4, <1>5, <2>2 DEF RepliesAreInOrder, waiting
<1>7. wire' \in Seq(Cell)
  BY <1>3, <1>4, ConcatProperties
<1>8. CASE n = ReadableBytes(outBuf)
  <2>1. events' = events \ {"out"} /\ pending' = Append(pending, Complete)
    BY <1>8 DEF DisableWriting, WriteCompleted, n, waiting
  <2>2. pending' \in Seq(Functors) /\ Waits(pending')
    BY <2>1, AppendWaits, CompleteIsFunctor
  <2>3. OutOK'
    BY <1>2, <1>4, <1>5, <1>7, <2>1, <2>2
  <2> QED  BY <1>5, <1>6, <1>8, <2>1, <2>2, <2>3 DEF RepliesAreInOrder, Watched
<1>9. CASE n # ReadableBytes(outBuf)
  <2>1. events' = events /\ pending' = pending
    BY <1>9 DEF n, waiting
  <2>2. OutOK'
    BY <1>2, <1>4, <1>5, <1>7, <2>1
  <2> QED  BY <1>5, <1>6, <1>9, <2>1, <2>2 DEF RepliesAreInOrder, Watched
<1> QED  BY <1>8, <1>9

----------------------------------------------------------------------------
(* The steps.                                                              *)

LEMMA InitInv == Init => Inv
<1> SUFFICES ASSUME Init PROVE Inv
  OBVIOUS
<1> USE DEF Init
<1>1. InitialSize \in Nat /\ Room \in Nat \ {0}
  BY ConnectionAssumption
<1>2. /\ BufferOK(inBuf, Cell)
      /\ BufferOK(outBuf, Cell) /\ Readable(outBuf) = <<>>
  BY <1>1, NewBufferEmpty
<1>3. \A S : <<>> \in Seq(S)
  BY EmptySeq
<1>4. wire \o Readable(outBuf) = accepted
  BY <1>2, <1>3, ConcatEmptySeq
<1>5. OutOK
  <2>1. wire \in Seq(Cell) /\ accepted \in Seq(Cell) /\ pending \in Seq(Functors)
    BY <1>3
  <2>2. unread \in 0 .. Room /\ events \subseteq {"in", "out"}
    BY <1>1
  <2> QED  BY <1>2, <2>1, <2>2 DEF OutOK
<1>6. RestOK
  BY <1>2, <1>3 DEF RestOK
<1> QED  BY <1>2, <1>4, <1>5, <1>6 DEF Inv, RepliesAreInOrder, Watched, Told

(* A step that leaves the output side alone has to keep RestOK.            *)
LEMMA OutputStays ==
    ASSUME Inv, ~broken, RestOK', broken' \in BOOLEAN,
           UNCHANGED <<wire, unread, outBuf, events, accepted, told, pending>>,
           UNCHANGED running, registered' => registered,
           at' # "functors" => at # "functors"
    PROVE  Inv'
<1>1. OutOK' /\ RepliesAreInOrder'
  BY DEF Inv, OutOK, RepliesAreInOrder
<1>2. registered' => Watched'
  BY DEF Inv, Watched
<1>3. Told'
  BY DEF Inv, Told, Waits
<1> QED  BY <1>1, <1>2, <1>3 DEF Inv

LEMMA PeerKeeps ==
    ASSUME Inv, PeerSends \/ PeerReads \/ \E how \in {"closed", "reset"} : PeerEnds(how)
    PROVE  Inv'
<1>1. CASE PeerSends
  <2> USE <1>1 DEF PeerSends, owners
  <2>1. next \in Cell /\ arrived \in Seq(Cell)
    BY DEF Inv, RestOK, Cell
  <2>2. arrived' \in Seq(Cell)
    BY <2>1, AppendProperties
  <2>3. next' \in Nat \X Nat
    BY DEF Inv, RestOK
  <2>4. RestOK'
    BY <2>2, <2>3 DEF Inv, RestOK
  <2> QED  BY <2>4, OutputStays DEF Inv, OutOK
<1>2. CASE PeerReads
  <2> USE <1>2 DEF PeerReads, owners
  <2>1. unread' \in 0 .. Room
    BY ConnectionAssumption DEF Inv, OutOK
  <2>2. OutOK' /\ RepliesAreInOrder'
    BY <2>1 DEF Inv, OutOK, RepliesAreInOrder
  <2>3. RestOK'
    BY DEF Inv, RestOK
  <2>4. registered' => Watched'
    BY DEF Inv, Watched
  <2>5. Told'
    BY DEF Inv, Told, Waits
  <2>6. at' # "functors" => running' = <<>>
    BY DEF Inv
  <2> QED  BY <2>2, <2>3, <2>4, <2>5, <2>6 DEF Inv
<1>3. ASSUME NEW how \in {"closed", "reset"}, PeerEnds(how) PROVE Inv'
  <2> USE <1>3 DEF PeerEnds, owners
  <2>1. <<>> \in Seq(Cell)
    BY EmptySeq
  <2>2. RestOK'
    BY <2>1 DEF Inv, RestOK
  <2> QED  BY <2>2, OutputStays DEF Inv, OutOK
<1> QED  BY <1>1, <1>2, <1>3

LEMMA PollKeeps ==
    ASSUME Inv, Poll
    PROVE  Inv'
<1> USE DEF Poll, socket, owners, At
<1> DEFINE T == {"read", "write", "close"}
<1>1. \A in, out, hup \in BOOLEAN : Handlers(in, out, hup) \in Seq(T)
  <2>1. /\ <<>> \in Seq(T) /\ <<"close">> \in Seq(T) /\ <<"read">> \in Seq(T)
        /\ <<"write">> \in Seq(T)
    OBVIOUS
  <2> HIDE DEF T
  <2>2. \A f, g \in Seq(T) : f \o g \in Seq(T)
    BY ConcatProperties
  <2> QED  BY <2>1, <2>2 DEF Handlers
<1>2. todo' \in Seq(T)
  <2>1. <<>> \in Seq(T)
    BY EmptySeq
  <2> QED  BY <1>1, <2>1
<1>3. RestOK'
  BY <1>2 DEF Inv, RestOK
<1> QED  BY <1>3, OutputStays DEF Inv, OutOK

LEMMA ReadKeeps ==
    ASSUME Inv, HandleRead
    PROVE  Inv'
<1> USE DEF HandleRead, Handling, At, output, owners
<1> DEFINE T == {"read", "write", "close"}
           n == ReadLength(inBuf, Len(arrived))
<1>1. /\ arrived \in Seq(Cell) /\ BufferOK(inBuf, Cell) /\ Len(arrived) \in Nat
      /\ todo \in Seq(T) /\ todo # <<>>
  BY LenProperties DEF Inv, RestOK
<1>2. Tail(todo) \in Seq(T) /\ <<"close">> \o Tail(todo) \in Seq(T)
  <2>1. <<"close">> \in Seq(T)
    OBVIOUS
  <2> HIDE DEF T
  <2>2. Tail(todo) \in Seq(T)
    BY <1>1, HeadTailProperties
  <2> QED  BY <2>1, <2>2, ConcatProperties
<1>3. CASE n > 0
  <2>1. n \in 0 .. Len(arrived)
    <3>1. WritableBytes(inBuf) \in Nat /\ ExtraSize \in Nat
      BY <1>1, LenProperties, BufferAssumption DEF BufferOK, BufferType, WritableBytes
    <3> QED  BY <1>1, <3>1 DEF ReadLength
  <2> HIDE DEF n
  <2>2. SubSeq(arrived, 1, n) \in Seq(Cell) /\ SubSeq(arrived, n + 1, Len(arrived)) \in Seq(Cell)
    BY <1>1, <2>1, SplitSeq
  <2>3. BufferOK(inBuf', Cell) /\ arrived' \in Seq(Cell)
    BY <1>1, <1>3, <2>2, ReadFdAppends DEF n
  <2>4. at' = "message" /\ todo' = Tail(todo)
    BY <1>3 DEF n
  <2>5. RestOK'
    BY <1>2, <2>3, <2>4 DEF Inv, RestOK
  <2> QED  BY <2>4, <2>5, OutputStays DEF Inv, OutOK
<1>4. CASE ~(n > 0)
  <2>1. RestOK'
    BY <1>2, <1>4 DEF Inv, RestOK
  <2> QED  BY <1>4, <2>1, OutputStays DEF Inv, OutOK
<1> QED  BY <1>3, <1>4

LEMMA RequestKeeps ==
    ASSUME Inv, HandleRequest
    PROVE  Inv'
<1> USE DEF HandleRequest, At, FrontIsWhole
<1> DEFINE cells == Readable(inBuf)
           n == FrontLength + 1
           request == SubSeq(cells, 1, n)
           k == request[1][1]
<1>1. /\ BufferOK(inBuf, Cell) /\ cells \in Seq(Cell)
      /\ Len(cells) = ReadableBytes(inBuf) /\ Len(cells) \in Nat \ {0}
  BY ReadableCells, EmptySeq DEF Inv, RestOK
<1>2. cells[1] \in Cell
  BY <1>1, ElementOfSeq
<1>3. FrontLength \in Nat /\ cells[1][1] \in Requests
  <2>1. cells[1][1] \in DOMAIN Lengths /\ Lengths \in Seq(Nat)
    BY <1>2, ConnectionAssumption DEF Cell, Requests
  <2>2. Lengths[cells[1][1]] \in Nat
    BY <2>1, LenProperties, ElementOfSeq
  <2> QED  BY <2>1, <2>2 DEF FrontLength, Requests
<1>4. n \in 1 .. Len(cells)
  BY <1>1, <1>3
<1> HIDE DEF cells
<1>5. request \in Seq(Cell) /\ k \in Requests
  <2> HIDE DEF n
  <2>1. \A i \in 1 .. n : cells[i] \in Cell
    BY <1>1, <1>4, ElementOfSeq
  <2>2. 1 \in Int /\ n \in Int /\ 1 \in 1 .. n - 1 + 1 /\ 1 + 1 - 1 = 1
    BY <1>1, <1>4
  <2>3. request \in Seq(Cell) /\ request[1] = cells[1 + 1 - 1]
    BY <2>1, <2>2, SubSeqProperties
  <2> QED  BY <1>3, <2>2, <2>3
<1>6. BufferOK(inBuf', Cell)
  <2>1. BufferOK(Retrieve(inBuf, 1), Cell)
    BY <1>1, RetrieveTakes
  <2> QED  BY <1>3, <2>1, RetrieveTakes
<1>7. handled' \in Seq(Seq(Cell))
  <2>1. handled' = Append(handled, request)
    BY DEF cells
  <2>2. handled \in Seq(Seq(Cell)) /\ request \in Seq(Cell)
    BY <1>5 DEF Inv, RestOK
  <2> HIDE DEF request, HandleRequest
  <2> QED  BY <2>1, <2>2, AppendProperties
<1>8. /\ UNCHANGED <<peer, next, arrived, registered, at, todo, running, inMap, freed>>
      /\ at = "message" /\ ~broken
  OBVIOUS
<1>9. \/ k \in ByWorker /\ task' = [task EXCEPT ![k] = "given"] /\ UNCHANGED output
      \/ SendInLoop(Reply[k]) /\ UNCHANGED task
  BY DEF cells
<1> HIDE DEF k
<1>10. RestOK'
  <2>1. task' \in [Requests -> {"none", "given", "sent", "done"}]
    BY <1>9 DEF Inv, RestOK
  <2> QED  BY <1>6, <1>7, <1>8, <2>1 DEF Inv, RestOK
<1>11. CASE UNCHANGED output
  BY <1>8, <1>10, <1>11, OutputStays DEF output, Inv, OutOK
<1>12. CASE SendInLoop(Reply[k])
  <2>1. /\ OutOK' /\ RepliesAreInOrder'
        /\ Watched => Watched'
        /\ ~broken' /\ Readable(outBuf)' = <<>> => Waits(pending)'
    BY <1>5, <1>12, ReplyCells, SendKeeps DEF Inv
  <2>2. Told'
    BY <2>1 DEF Told
  <2> QED  BY <1>8, <1>10, <2>1, <2>2 DEF Inv
<1> QED  BY <1>9, <1>11, <1>12

LEMMA EndMessagesKeeps ==
    ASSUME Inv, EndMessages
    PROVE  Inv'
<1> USE DEF EndMessages, At, output, socket, owners
<1>1. RestOK'
  BY DEF Inv, RestOK
<1> QED  BY <1>1, OutputStays DEF Inv, OutOK

LEMMA HandleWriteKeeps ==
    ASSUME Inv, HandleWrite
    PROVE  Inv'
<1> USE DEF HandleWrite, Handling, At, output, owners
<1>1. RestOK'
  <2> DEFINE T == {"read", "write", "close"}
  <2>1. todo \in Seq(T) /\ todo # <<>>
    BY DEF Inv, RestOK
  <2>2. Tail(todo) \in Seq(T)
    <3> HIDE DEF T
    <3> QED  BY <2>1, HeadTailProperties
  <2> QED  BY <2>2 DEF Inv, RestOK
<1>2. CASE UNCHANGED <<wire, unread, outBuf, events, accepted, told, pending>> /\ broken' \in BOOLEAN
  BY <1>1, <1>2, OutputStays
<1>3. CASE /\ "out" \in events /\ CanWrite
           /\ Written(WriteLength(Readable(outBuf)), Readable(outBuf))
           /\ outBuf' = Retrieve(outBuf, WriteLength(Readable(outBuf)))
           /\ IF WriteLength(Readable(outBuf)) = ReadableBytes(outBuf)
              THEN /\ events' = DisableWriting(events)
                   /\ pending' = WriteCompleted(pending)
              ELSE UNCHANGED <<events, pending>>
           /\ UNCHANGED <<accepted, told, broken>>
  <2>1. /\ OutOK' /\ RepliesAreInOrder'
        /\ Watched => Watched'
        /\ Readable(outBuf)' = <<>> => Waits(pending)'
    BY <1>3, WriteKeeps DEF Inv
  <2>2. Told'
    BY <2>1 DEF Told
  <2> QED  BY <1>1, <2>1, <2>2 DEF Inv
<1> QED  BY <1>2, <1>3 DEF Inv, OutOK

LEMMA HandleCloseKeeps ==
    ASSUME Inv, HandleClose
    PROVE  Inv'
<1> USE DEF HandleClose, Handling, At, socket, DeleteUnowned
<1> DEFINE T == {"read", "write", "close"}
<1>1. todo' \in Seq(T)
  <2>1. todo \in Seq(T) /\ todo # <<>> /\ (todo' = <<>> \/ todo' = Tail(todo))
    BY DEF Inv, RestOK
  <2> HIDE DEF T
  <2> QED  BY <2>1, EmptySeq, HeadTailProperties
<1>2. RestOK'
  BY <1>1 DEF Inv, RestOK
<1>3. broken' \in BOOLEAN /\ events' = {} /\ registered' = FALSE
  OBVIOUS
<1>4. OutOK' /\ RepliesAreInOrder'
  BY <1>3 DEF Inv, OutOK, RepliesAreInOrder
<1>5. Told'
  BY DEF Inv, Told, Waits
<1>6. at' # "functors" => running' = <<>>
  BY DEF Inv
<1> QED  BY <1>2, <1>3, <1>4, <1>5, <1>6 DEF Inv

LEMMA BeginFunctorsKeeps ==
    ASSUME Inv, BeginFunctors
    PROVE  Inv'
<1> USE DEF BeginFunctors, At, socket, owners
<1>1. RestOK'
  BY DEF Inv, OutOK, RestOK
<1>2. OutOK' /\ RepliesAreInOrder'
  <2>1. <<>> \in Seq(Functors)
    BY EmptySeq
  <2> QED  BY <2>1 DEF Inv, OutOK, RepliesAreInOrder
<1>3. registered' => Watched'
  BY DEF Inv, Watched
<1>4. Told'
  <2>1. ~Waits(running)
    BY DEF Inv, Waits
  <2> QED  BY <2>1 DEF Inv, Told, Waits
<1> QED  BY <1>1, <1>2, <1>3, <1>4 DEF Inv

LEMMA RunFunctorKeeps ==
    ASSUME Inv, RunFunctor
    PROVE  Inv'
<1> USE DEF RunFunctor, At, owners
<1>1. Head(running) \in Functors /\ Tail(running) \in Seq(Functors)
  BY HeadTailProperties DEF Inv, RestOK
<1>2. RestOK' /\ at = "functors" /\ at' = at /\ registered' = registered
  BY <1>1 DEF Inv, RestOK
<1>3. CASE broken' = TRUE /\ UNCHANGED <<wire, unread, outBuf, events, accepted, told, pending>>
  <2>1. OutOK' /\ RepliesAreInOrder' /\ (registered' => Watched') /\ Told'
    BY <1>2, <1>3 DEF Inv, OutOK, RepliesAreInOrder, Watched, Told
  <2> QED  BY <1>2, <2>1 DEF Inv
<1>4. CASE /\ told' = TRUE
           /\ UNCHANGED <<wire, unread, outBuf, events, accepted, pending, broken>>
  <2>1. OutOK' /\ RepliesAreInOrder' /\ (registered' => Watched') /\ Told'
    BY <1>2, <1>4 DEF Inv, OutOK, RepliesAreInOrder, Watched, Told
  <2> QED  BY <1>2, <2>1 DEF Inv
<1>5. CASE Head(running) # Complete /\ SendInLoop(Reply[Head(running)[2]])
  <2>1. Head(running)[2] \in Requests
    BY <1>1, <1>5 DEF Functors
  <2> DEFINE k == Head(running)[2]
  <2> HIDE DEF k
  <2>2. /\ OutOK' /\ RepliesAreInOrder'
        /\ Watched => Watched'
        /\ ~broken' /\ Readable(outBuf)' = <<>> => Waits(pending)'
    BY <1>5, <2>1, ReplyCells, SendKeeps DEF Inv, k
  <2>3. Told'
    BY <2>2 DEF Told
  <2> QED  BY <1>2, <2>2, <2>3 DEF Inv
<1> QED  BY <1>3, <1>4, <1>5

LEMMA EndFunctorsKeeps ==
    ASSUME Inv, EndFunctors
    PROVE  Inv'
<1> USE DEF EndFunctors, At, output, socket, owners
<1>1. RestOK'
  BY DEF Inv, RestOK
<1>2. OutOK' /\ RepliesAreInOrder' /\ (registered' => Watched')
  BY DEF Inv, OutOK, RepliesAreInOrder, Watched
<1>3. Told'
  BY DEF Inv, Told, Waits
<1> QED  BY <1>1, <1>2, <1>3 DEF Inv

LEMMA WorkerKeeps ==
    ASSUME Inv, NEW k \in Requests, WorkerStep(k)
    PROVE  Inv'
<1>1. CASE WorkerSends(k)
  <2> USE <1>1 DEF WorkerSends, socket
  <2>1. RestOK'
    BY DEF Inv, RestOK
  <2>2. pending' \in Seq(Functors) /\ (Waits(pending) => Waits(pending'))
    <3>1. pending \in Seq(Functors) /\ <<"send", k>> \in Functors
      BY DEF Inv, OutOK, Functors
    <3> QED  BY <3>1, AppendWaits
  <2>3. OutOK' /\ RepliesAreInOrder' /\ (registered' => Watched')
    BY <2>2 DEF Inv, OutOK, RepliesAreInOrder, Watched
  <2>4. Told'
    <3>1. Waits(pending)' = Waits(pending') /\ Waits(running)' = Waits(running)
      BY DEF Waits
    <3> QED  BY <2>2, <3>1 DEF Inv, Told
  <2> QED  BY <2>1, <2>3, <2>4 DEF Inv
<1>2. CASE WorkerEnds(k)
  <2> USE <1>2 DEF WorkerEnds, socket, DeleteUnowned
  <2>1. todo' \in Seq({"read", "write", "close"})
    BY EmptySeq DEF Inv, RestOK
  <2>2. RestOK'
    BY <2>1 DEF Inv, RestOK
  <2> QED  BY <2>2, OutputStays DEF Inv, OutOK
<1> QED  BY <1>1, <1>2 DEF WorkerStep

LEMMA NextInv == Inv /\ [Next]_vars => Inv'
<1> SUFFICES ASSUME Inv, [Next]_vars PROVE Inv'
  OBVIOUS
<1>1. CASE UNCHANGED vars
  <2> USE <1>1 DEF vars
  <2>1. OutOK' /\ RestOK' /\ RepliesAreInOrder' /\ (registered' => Watched')
    BY DEF Inv, OutOK, RestOK, RepliesAreInOrder, Watched
  <2>2. Told'
    BY DEF Inv, Told, Waits
  <2> QED  BY <2>1, <2>2 DEF Inv
<1>2. CASE LoopStep
  BY <1>2, PollKeeps, ReadKeeps, RequestKeeps, EndMessagesKeeps, HandleWriteKeeps,
     HandleCloseKeeps, BeginFunctorsKeeps, RunFunctorKeeps, EndFunctorsKeeps DEF LoopStep
<1> QED  BY <1>1, <1>2, PeerKeeps, WorkerKeeps DEF Next

LEMMA InvHolds == Spec => []Inv
<1> QED  BY InitInv, NextInv, PTL DEF Spec

----------------------------------------------------------------------------
(* Each variable has its type: above all, both buffers keep their indices  *)
(* in order and within the vector, whatever is read, written and moved.    *)
THEOREM TypeCorrect == Spec => []TypeOK
<1>1. Inv => TypeOK
  BY DEF Inv, OutOK, RestOK, TypeOK
<1> QED  BY <1>1, InvHolds, PTL

(* Whatever the socket takes at a time, and whoever sends: the cells are   *)
(* written in the order in which they were sent, without a gap.            *)
THEOREM OrderCorrect == Spec => []RepliesAreInOrder
<1>1. Inv => RepliesAreInOrder
  BY DEF Inv
<1> QED  BY <1>1, InvHolds, PTL

(* A connection in epoll asks for EPOLLOUT exactly while cells wait.       *)
THEOREM WatchingCorrect == Spec => []WritingIsWatched
<1>1. Inv => WritingIsWatched
  BY DEF Inv, Watched, WritingIsWatched
<1> QED  BY <1>1, InvHolds, PTL

(* When nothing waits, the program has been told or a functor will do it.  *)
THEOREM CompletionCorrect == Spec => []CompletionIsTold
<1>1. ASSUME Inv PROVE CompletionIsTold
  <2>1. pending \in Seq(Functors) /\ running \in Seq(Functors)
    BY <1>1 DEF Inv, OutOK, RestOK
  <2>2. Waits(running) \/ Waits(pending) => Waits(running \o pending)
    BY <2>1, ConcatWaits
  <2> QED  BY <1>1, <2>2 DEF Inv, Told, CompletionIsTold, Waits
<1> QED  BY <1>1, InvHolds, PTL

----------------------------------------------------------------------------
(* The other direction.  The cells that are still ahead of the program, in *)
(* the buffer and in the socket, follow each other as the peer sends them, *)
(* from the head of the first request that was not handled yet.            *)
After(cell) ==
    IF cell[2] = Lengths[cell[1]] THEN <<cell[1] + 1, 0>> ELSE <<cell[1], cell[2] + 1>>

(* A cell is followed by the rest of its message, as far as that is there. *)
InMessages(q) ==
    /\ \A i \in 1 .. Len(q) : i + 1 \in 1 .. Len(q) => q[i + 1] = After(q[i])
    /\ \A i, j \in 1 .. Len(q) :
          i <= j /\ q[i][2] + (j - i) <= Lengths[q[i][1]]
              => q[j] = <<q[i][1], q[i][2] + (j - i)>>

Ahead == Readable(inBuf) \o arrived

Expected == Len(handled) + 1

ComesNext == IF Ahead = <<>> THEN <<Expected, 0>> ELSE After(Ahead[Len(Ahead)])

(* Once the peer has reset the connection, what it would have sent next    *)
(* does not matter, and what was in the socket is gone.                    *)
StreamInv ==
    /\ InMessages(Ahead)
    /\ Ahead # <<>> => Ahead[1] = <<Expected, 0>>
    /\ peer = "open" => next = ComesNext
    /\ RequestsAreWhole

LEMMA CellFacts ==
    ASSUME NEW cell \in Cell
    PROVE  /\ cell[1] \in Nat /\ cell[2] \in Nat /\ cell = <<cell[1], cell[2]>>
           /\ cell[1] \in Requests /\ Lengths[cell[1]] \in Nat
<1>1. Lengths \in Seq(Nat)
  BY ConnectionAssumption
<1>2. Requests = 1 .. Len(Lengths) /\ Len(Lengths) \in Nat
  BY <1>1, LenProperties DEF Requests
<1>3. cell[1] \in Requests /\ cell[2] \in Nat /\ cell = <<cell[1], cell[2]>>
  BY DEF Cell
<1>. QED BY <1>1, <1>2, <1>3, ElementOfSeq

LEMMA EmptyInMessages == InMessages(<<>>)
BY EmptySeq DEF InMessages

(* The cell the peer sends continues what was sent before.                 *)
LEMMA AppendInMessages ==
    ASSUME NEW q \in Seq(Cell), InMessages(q), NEW c \in Cell,
           q # <<>> => c = After(q[Len(q)])
    PROVE  InMessages(Append(q, c))
<1> DEFINE n == Len(q)
           r == Append(q, c)
<1>1. /\ n \in Nat /\ r \in Seq(Cell) /\ Len(r) = n + 1 /\ r[n + 1] = c
      /\ \A i \in 1 .. n : r[i] = q[i]
  BY AppendProperties, LenProperties
<1>2. n > 0 => c = After(q[n])
  BY <1>1, EmptySeq
<1>3. /\ \A i \in 1 .. n : i + 1 \in 1 .. n => q[i + 1] = After(q[i])
      /\ \A i, j \in 1 .. n :
            i <= j /\ q[i][2] + (j - i) <= Lengths[q[i][1]]
                => q[j] = <<q[i][1], q[i][2] + (j - i)>>
  BY DEF InMessages
<1>4. \A i \in 1 .. n : q[i] \in Cell
  BY ElementOfSeq
<1> HIDE DEF n, r
<1>5. ASSUME NEW i \in 1 .. n + 1, i + 1 \in 1 .. n + 1 PROVE r[i + 1] = After(r[i])
  <2>1. i \in 1 .. n
    BY <1>1, <1>5
  <2>2. CASE i = n
    BY <1>1, <1>2, <2>1, <2>2
  <2>3. CASE i # n
    <3>1. i + 1 \in 1 .. n
      BY <1>1, <2>1, <2>3
    <3>. QED BY <1>1, <1>3, <2>1, <3>1
  <2>. QED BY <2>2, <2>3
<1>6. ASSUME NEW i \in 1 .. n + 1, NEW j \in 1 .. n + 1,
             i <= j, r[i][2] + (j - i) <= Lengths[r[i][1]]
      PROVE  r[j] = <<r[i][1], r[i][2] + (j - i)>>
  <2>1. CASE j \in 1 .. n
    <3>1. i \in 1 .. n
      BY <1>1, <1>6, <2>1
    <3>. QED BY <1>1, <1>3, <1>6, <2>1, <3>1
  <2>2. CASE j = n + 1 /\ i = n + 1
    <3>1. r[i][2] + (j - i) = r[i][2]
      BY <1>1, <2>2, CellFacts
    <3>. QED BY <1>1, <2>2, <3>1, CellFacts
  <2>3. CASE j = n + 1 /\ i \in 1 .. n
    <3>1. /\ q[i] \in Cell /\ q[i][2] \in Nat /\ q[i][1] \in Requests
          /\ Lengths[q[i][1]] \in Nat /\ r[i] = q[i]
      BY <1>1, <1>4, <2>3, CellFacts
    <3>2. /\ n \in 1 .. n /\ i <= n /\ n > 0
          /\ q[i][2] + (n - i) <= Lengths[q[i][1]]
          /\ q[i][2] + (n - i) # Lengths[q[i][1]]
          /\ q[i][2] + (n - i) + 1 = q[i][2] + (j - i)
      BY <1>1, <1>6, <2>3, <3>1
    <3>3. q[n] = <<q[i][1], q[i][2] + (n - i)>>
      BY <1>3, <2>3, <3>2
    <3>4. c = <<q[i][1], q[i][2] + (n - i) + 1>>
      BY <1>2, <3>2, <3>3 DEF After
    <3>. QED BY <1>1, <2>3, <3>1, <3>2, <3>4
  <2>. QED BY <1>1, <2>1, <2>2, <2>3
<1>7. InMessages(r)
  BY <1>1, <1>5, <1>6 DEF InMessages
<1>. QED BY <1>7 DEF r

LEMMA ConcatCells ==
    ASSUME NEW s \in Seq(Cell), NEW t \in Seq(Cell)
    PROVE  /\ s \o t \in Seq(Cell) /\ Len(s \o t) = Len(s) + Len(t)
           /\ Len(s) \in Nat /\ Len(t) \in Nat
           /\ \A i \in 1 .. Len(s) :
                 i \in 1 .. Len(s) + Len(t) /\ (s \o t)[i] = s[i]
           /\ \A i \in 1 .. Len(t) :
                 Len(s) + i \in 1 .. Len(s) + Len(t) /\ (s \o t)[Len(s) + i] = t[i]
<1>1. /\ s \o t \in Seq(Cell) /\ Len(s \o t) = Len(s) + Len(t)
      /\ \A i \in 1 .. Len(s) + Len(t) :
            (s \o t)[i] = IF i <= Len(s) THEN s[i] ELSE t[i - Len(s)]
  BY ConcatProperties
<1>2. Len(s) \in Nat /\ Len(t) \in Nat
  BY LenProperties
<1>3. \A i \in 1 .. Len(t) :
         /\ Len(s) + i \in 1 .. Len(s) + Len(t) /\ ~(Len(s) + i <= Len(s))
         /\ (Len(s) + i) - Len(s) = i
  BY <1>2
<1>4. \A i \in 1 .. Len(s) : i \in 1 .. Len(s) + Len(t) /\ i <= Len(s)
  BY <1>2
<1>. QED BY <1>1, <1>2, <1>3, <1>4

(* What is lost at the end, or taken from the front, breaks no message.    *)
LEMMA PartInMessages ==
    ASSUME NEW s \in Seq(Cell), NEW t \in Seq(Cell), InMessages(s \o t)
    PROVE  InMessages(s) /\ InMessages(t)
<1> DEFINE q == s \o t
<1>1. /\ Len(q) = Len(s) + Len(t) /\ Len(s) \in Nat /\ Len(t) \in Nat
      /\ \A i \in 1 .. Len(s) : i \in 1 .. Len(q) /\ q[i] = s[i]
      /\ \A i \in 1 .. Len(t) :
            Len(s) + i \in 1 .. Len(q) /\ q[Len(s) + i] = t[i]
  BY ConcatCells
<1>2. /\ \A i \in 1 .. Len(q) : i + 1 \in 1 .. Len(q) => q[i + 1] = After(q[i])
      /\ \A i, j \in 1 .. Len(q) :
            i <= j /\ q[i][2] + (j - i) <= Lengths[q[i][1]]
                => q[j] = <<q[i][1], q[i][2] + (j - i)>>
  BY DEF InMessages
<1> HIDE DEF q
<1>3. InMessages(s)
  BY <1>1, <1>2 DEF InMessages
<1>4. ASSUME NEW i \in 1 .. Len(t), i + 1 \in 1 .. Len(t) PROVE t[i + 1] = After(t[i])
  <2>1. (Len(s) + i) + 1 = Len(s) + (i + 1)
    BY <1>1
  <2>. QED BY <1>1, <1>2, <1>4, <2>1
<1>5. ASSUME NEW i \in 1 .. Len(t), NEW j \in 1 .. Len(t),
             i <= j, t[i][2] + (j - i) <= Lengths[t[i][1]]
      PROVE  t[j] = <<t[i][1], t[i][2] + (j - i)>>
  <2>1. (Len(s) + j) - (Len(s) + i) = j - i /\ Len(s) + i <= Len(s) + j
    BY <1>1, <1>5
  <2>2. /\ q[Len(s) + i] = t[i] /\ q[Len(s) + j] = t[j]
        /\ Len(s) + i \in 1 .. Len(q) /\ Len(s) + j \in 1 .. Len(q)
    BY <1>1
  <2>. QED BY <1>2, <1>5, <2>1, <2>2
<1>6. InMessages(t)
  BY <1>4, <1>5 DEF InMessages
<1>. QED BY <1>3, <1>6

(* Retrieving takes cells from the front.                                  *)
LEMMA RetrieveFront ==
    ASSUME NEW b, BufferOK(b, Cell), NEW len \in Nat, len <= ReadableBytes(b)
    PROVE  /\ BufferOK(Retrieve(b, len), Cell)
           /\ \E u \in Seq(Cell) :
                 Len(u) = len /\ Readable(b) = u \o Readable(Retrieve(b, len))
<1> DEFINE cells == Readable(b)
           u == SubSeq(cells, 1, len)
<1>1. cells \in Seq(Cell) /\ Len(cells) = ReadableBytes(b) /\ Len(cells) \in Nat
  BY ReadableCells
<1>2. BufferOK(Retrieve(b, len), Cell) /\ cells = u \o Readable(Retrieve(b, len))
  BY RetrieveTakes
<1>3. len \in 0 .. Len(cells)
  BY <1>1
<1> HIDE DEF cells
<1>4. u \in Seq(Cell) /\ Len(u) = len
  BY <1>1, <1>3, SplitSeq
<1>. QED BY <1>2, <1>4 DEF cells

(* onMessage retrieves the head of a message and then its body.            *)
LEMMA RetrieveMessage ==
    ASSUME NEW b, BufferOK(b, Cell), NEW n \in Nat, n + 1 <= ReadableBytes(b)
    PROVE  /\ BufferOK(Retrieve(Retrieve(b, 1), n), Cell)
           /\ \E u \in Seq(Cell) :
                 /\ Len(u) = n + 1
                 /\ Readable(b) = u \o Readable(Retrieve(Retrieve(b, 1), n))
<1> DEFINE h == Retrieve(b, 1)
           r == Retrieve(h, n)
<1>1. ReadableBytes(b) \in Nat /\ Len(Readable(b)) = ReadableBytes(b)
  BY ReadableCells
<1>2. 1 <= ReadableBytes(b) /\ 1 \in Nat
  BY <1>1
<1>3. BufferOK(h, Cell) /\ \E f \in Seq(Cell) : Len(f) = 1 /\ Readable(b) = f \o Readable(h)
  BY <1>2, RetrieveFront
<1>4. PICK f \in Seq(Cell) : Len(f) = 1 /\ Readable(b) = f \o Readable(h)
  BY <1>3
<1> HIDE DEF h
<1>5. /\ Readable(h) \in Seq(Cell) /\ Len(Readable(h)) = ReadableBytes(h)
      /\ ReadableBytes(h) \in Nat
  BY <1>3, ReadableCells
<1>6. Len(Readable(b)) = 1 + Len(Readable(h))
  <2>1. Len(f \o Readable(h)) = Len(f) + Len(Readable(h))
    BY <1>4, <1>5, ConcatCells
  <2>. QED BY <1>4, <2>1
<1>7. n <= ReadableBytes(h)
  BY <1>1, <1>5, <1>6
<1>8. BufferOK(r, Cell) /\ \E g \in Seq(Cell) : Len(g) = n /\ Readable(h) = g \o Readable(r)
  BY <1>3, <1>7, RetrieveFront
<1>9. PICK g \in Seq(Cell) : Len(g) = n /\ Readable(h) = g \o Readable(r)
  BY <1>8
<1> HIDE DEF r
<1>10. Readable(r) \in Seq(Cell)
  BY <1>8, ReadableCells
<1>11. Readable(b) = (f \o g) \o Readable(r)
  BY <1>4, <1>9, <1>10, Regroup
<1>12. f \o g \in Seq(Cell) /\ Len(f \o g) = n + 1
  <2>1. f \o g \in Seq(Cell) /\ Len(f \o g) = Len(f) + Len(g)
    BY <1>4, <1>9, ConcatCells
  <2>2. 1 + n = n + 1
    OBVIOUS
  <2>. QED BY <1>4, <1>9, <2>1, <2>2
<1>. QED BY <1>8, <1>11, <1>12 DEF h, r

(* The front of the cells ahead, once it is long enough, is a message.     *)
LEMMA FrontIsMessage ==
    ASSUME NEW q \in Seq(Cell), InMessages(q), NEW k \in Requests, q # <<>>,
           q[1] = <<k, 0>>, NEW u \in Seq(Cell), Len(u) = Lengths[k] + 1,
           Len(u) <= Len(q), \A i \in 1 .. Len(u) : u[i] = q[i]
    PROVE  u = Message(k, Lengths[k]) /\ q[Len(u)] = <<k, Lengths[k]>>
<1> DEFINE n == Lengths[k]
           message == Message(k, n)
<1>1. k \in Nat /\ n \in Nat /\ Len(q) \in Nat
  <2>1. <<k, 0>> \in Cell
    BY DEF Cell
  <2>2. <<k, 0>>[1] = k
    OBVIOUS
  <2>. QED BY <2>1, <2>2, CellFacts, LenProperties
<1>2. ASSUME NEW i \in 1 .. n + 1 PROVE q[i] = <<k, i - 1>>
  <2>1. 1 \in 1 .. Len(q) /\ i \in 1 .. Len(q) /\ 1 <= i
    BY <1>1, <1>2
  <2>2. q[1][1] = k /\ q[1][2] = 0
    OBVIOUS
  <2>3. q[1][2] + (i - 1) <= Lengths[q[1][1]] /\ q[1][2] + (i - 1) = i - 1
    BY <1>1, <1>2, <2>2
  <2>. QED BY <2>1, <2>2, <2>3 DEF InMessages
<1>3. /\ message \in Seq(Cell) /\ Len(message) = n + 1
      /\ \A i \in 1 .. n + 1 : message[i] = <<k, i - 1>>
  <2>1. message \in [1 .. n + 1 -> Cell] /\ n + 1 \in Nat
    BY <1>1 DEF Message, Cell
  <2>2. \A i \in 1 .. n + 1 : message[i] = <<k, i - 1>>
    BY DEF Message
  <2> HIDE DEF message, n
  <2>. QED BY <2>1, <2>2, FunctionIsSeq
<1>4. \A i \in 1 .. n + 1 : u[i] = message[i]
  BY <1>2, <1>3
<1>5. u = message
  BY <1>3, <1>4, SeqEqual
<1>6. n + 1 \in 1 .. n + 1 /\ (n + 1) - 1 = n
  BY <1>1
<1>. QED BY <1>2, <1>5, <1>6

LEMMA AheadCells ==
    ASSUME Inv
    PROVE  /\ Readable(inBuf) \in Seq(Cell) /\ arrived \in Seq(Cell) /\ Ahead \in Seq(Cell)
           /\ handled \in Seq(Seq(Cell)) /\ Len(handled) \in Nat
           /\ DOMAIN handled = 1 .. Len(handled)
<1>1. /\ Readable(inBuf) \in Seq(Cell) /\ arrived \in Seq(Cell)
      /\ handled \in Seq(Seq(Cell))
  BY ReadableCells DEF Inv, RestOK
<1>2. Ahead \in Seq(Cell)
  BY <1>1, ConcatProperties DEF Ahead
<1>. QED BY <1>1, <1>2, LenProperties

LEMMA InitStream == Init => StreamInv
<1> SUFFICES ASSUME Init PROVE StreamInv
  OBVIOUS
<1>1. Readable(inBuf) = <<>>
  BY NewBufferEmpty, ConnectionAssumption DEF Init
<1>2. Ahead = <<>>
  BY <1>1, ConcatEmptySeq, EmptySeq DEF Init, Ahead
<1>3. Len(handled) = 0 /\ DOMAIN handled = {}
  BY EmptySeq DEF Init
<1>. QED BY <1>2, <1>3, EmptyInMessages
     DEF Init, StreamInv, ComesNext, Expected, RequestsAreWhole

(* A step that moves no cell of the requests.                              *)
LEMMA StreamStays ==
    ASSUME StreamInv, Ahead' = Ahead, UNCHANGED <<next, handled>>,
           peer' = "open" => peer = "open"
    PROVE  StreamInv'
BY DEF StreamInv, ComesNext, Expected, RequestsAreWhole

LEMMA PeerSendsStream ==
    ASSUME Inv, StreamInv, PeerSends
    PROVE  StreamInv'
<1>1. /\ peer = "open" /\ next[1] \in Requests /\ arrived' = Append(arrived, next)
      /\ next' = After(next) /\ UNCHANGED <<peer, inBuf, handled>>
  BY DEF PeerSends, After
<1>2. next \in Cell
  BY <1>1 DEF Inv, RestOK, Cell
<1>3. Ahead' = Append(Ahead, next)
  <2>1. Ahead' = Readable(inBuf) \o Append(arrived, next)
    BY <1>1 DEF Ahead
  <2>2. /\ Append(arrived, next) = arrived \o <<next>>
        /\ Append(Ahead, next) = Ahead \o <<next>> /\ <<next>> \in Seq(Cell)
    BY <1>2, AheadCells, AppendIsConcat
  <2>. QED BY <2>1, <2>2, AheadCells, Regroup DEF Ahead
<1>4. next = ComesNext
  BY <1>1 DEF StreamInv
<1>5. InMessages(Ahead')
  <2>1. Ahead # <<>> => next = After(Ahead[Len(Ahead)])
    BY <1>4 DEF ComesNext
  <2>. QED BY <1>2, <1>3, <2>1, AheadCells, AppendInMessages DEF StreamInv
<1>6. /\ Ahead' # <<>> /\ Ahead'[Len(Ahead')] = next
      /\ Ahead'[1] = IF Ahead = <<>> THEN next ELSE Ahead[1]
  <2>1. /\ Ahead' \in Seq(Cell) /\ Len(Ahead') = Len(Ahead) + 1
        /\ Ahead'[Len(Ahead) + 1] = next
        /\ \A i \in 1 .. Len(Ahead) : Ahead'[i] = Ahead[i]
    BY <1>2, <1>3, AheadCells, AppendProperties
  <2>2. Len(Ahead) \in Nat /\ (Ahead = <<>> <=> Len(Ahead) = 0)
    BY AheadCells, EmptySeq, LenProperties
  <2>3. Ahead' # <<>>
    BY <2>1, <2>2, EmptySeq
  <2>4. Ahead # <<>> => 1 \in 1 .. Len(Ahead)
    BY <2>2
  <2>. QED BY <2>1, <2>2, <2>3, <2>4
<1>7. Ahead'[1] = <<Expected, 0>>
  BY <1>4, <1>6 DEF StreamInv, ComesNext
<1>8. next' = ComesNext'
  BY <1>1, <1>6 DEF ComesNext
<1>. QED BY <1>1, <1>5, <1>7, <1>8 DEF StreamInv, Expected, RequestsAreWhole

(* A reset takes the cells in the socket away; nothing follows them.       *)
LEMMA PeerEndsStream ==
    ASSUME Inv, StreamInv, NEW how \in {"closed", "reset"}, PeerEnds(how)
    PROVE  StreamInv'
<1>1. /\ UNCHANGED <<next, inBuf, handled>> /\ peer' = how /\ how # "open"
      /\ arrived' = IF how = "reset" THEN <<>> ELSE arrived
  BY DEF PeerEnds
<1>2. CASE how # "reset"
  <2>1. Ahead' = Ahead
    BY <1>1, <1>2 DEF Ahead
  <2>. QED BY <1>1, <2>1, StreamStays
<1>3. CASE how = "reset"
  <2>1. Ahead' = Readable(inBuf)
    BY <1>1, <1>3, AheadCells, ConcatEmptySeq DEF Ahead
  <2>2. InMessages(Ahead')
    BY <2>1, AheadCells, PartInMessages DEF StreamInv, Ahead
  <2>3. Ahead' # <<>> => Ahead'[1] = <<Expected, 0>>
    <3> SUFFICES ASSUME Ahead' # <<>> PROVE Ahead'[1] = <<Expected, 0>>
      OBVIOUS
    <3>1. Len(Readable(inBuf)) \in Nat \ {0}
      BY <2>1, AheadCells, EmptySeq, LenProperties
    <3>2. /\ Len(Ahead) = Len(Readable(inBuf)) + Len(arrived) /\ Len(arrived) \in Nat
          /\ \A i \in 1 .. Len(Readable(inBuf)) : Ahead[i] = Readable(inBuf)[i]
      BY AheadCells, ConcatCells DEF Ahead
    <3>3. Ahead # <<>> /\ 1 \in 1 .. Len(Readable(inBuf))
      BY <3>1, <3>2, EmptySeq
    <3>. QED BY <2>1, <3>2, <3>3 DEF StreamInv
  <2>. QED BY <1>1, <2>2, <2>3 DEF StreamInv, Expected, RequestsAreWhole
<1>. QED BY <1>2, <1>3

LEMMA ReadStream ==
    ASSUME Inv, StreamInv, HandleRead
    PROVE  StreamInv'
<1> DEFINE n == ReadLength(inBuf, Len(arrived))
<1>1. UNCHANGED <<peer, next, handled>>
  BY DEF HandleRead
<1>2. CASE n > 0
  <2>1. /\ inBuf' = ReadFd(inBuf, SubSeq(arrived, 1, n))
        /\ arrived' = SubSeq(arrived, n + 1, Len(arrived))
    BY <1>2 DEF HandleRead
  <2>2. n \in 0 .. Len(arrived)
    <3>1. /\ WritableBytes(inBuf) \in Nat /\ ExtraSize \in Nat /\ Len(arrived) \in Nat
      BY LenProperties, BufferAssumption
      DEF BufferOK, BufferType, WritableBytes, Inv, RestOK
    <3>. QED BY <3>1 DEF ReadLength
  <2> HIDE DEF n
  <2>3. /\ SubSeq(arrived, 1, n) \in Seq(Cell) /\ arrived' \in Seq(Cell)
        /\ arrived = SubSeq(arrived, 1, n) \o arrived'
    BY <2>1, <2>2, AheadCells, SplitSeq
  <2>4. Readable(inBuf') = Readable(inBuf) \o SubSeq(arrived, 1, n)
    BY <2>1, <2>3, ReadFdAppends DEF Inv, RestOK
  <2>5. Ahead' = Ahead
    <3> DEFINE taken == SubSeq(arrived, 1, n)
    <3>1. /\ taken \in Seq(Cell) /\ arrived' \in Seq(Cell) /\ Readable(inBuf) \in Seq(Cell)
          /\ arrived = taken \o arrived' /\ Readable(inBuf') = Readable(inBuf) \o taken
      BY <2>3, <2>4, AheadCells
    <3> HIDE DEF taken
    <3>2. (Readable(inBuf) \o taken) \o arrived' = Readable(inBuf) \o (taken \o arrived')
      BY <3>1, Regroup
    <3>3. Ahead' = Readable(inBuf') \o arrived'
      BY DEF Ahead
    <3>. QED BY <3>1, <3>2, <3>3 DEF Ahead
  <2>. QED BY <1>1, <2>5, StreamStays
<1>3. CASE ~(n > 0)
  <2>1. Ahead' = Ahead
    BY <1>3 DEF HandleRead, Ahead
  <2>. QED BY <1>1, <2>1, StreamStays
<1>. QED BY <1>2, <1>3

(* The program takes one whole request from the front of what is ahead.    *)
LEMMA RequestStream ==
    ASSUME Inv, StreamInv, HandleRequest
    PROVE  StreamInv'
<1> DEFINE cells == Readable(inBuf)
           n == FrontLength
           request == SubSeq(cells, 1, n + 1)
           rest == Readable(inBuf')
           b == Retrieve(inBuf, 1)
           k == Expected
<1>1. /\ cells # <<>> /\ ReadableBytes(inBuf) >= n + 1
      /\ inBuf' = Retrieve(b, n) /\ handled' = Append(handled, request)
      /\ UNCHANGED <<peer, next, arrived>>
  BY DEF HandleRequest, FrontIsWhole
<1>2. /\ BufferOK(inBuf, Cell) /\ cells \in Seq(Cell) /\ arrived \in Seq(Cell)
      /\ Len(cells) = ReadableBytes(inBuf) /\ Len(cells) \in Nat \ {0}
      /\ 1 \in 1 .. Len(cells)
  BY <1>1, ReadableCells, EmptySeq DEF Inv, RestOK
<1>3. /\ Ahead \in Seq(Cell) /\ Len(Ahead) = Len(cells) + Len(arrived)
      /\ Len(arrived) \in Nat
      /\ \A i \in 1 .. Len(cells) : Ahead[i] = cells[i]
  BY <1>2, ConcatCells DEF Ahead
<1>4. Ahead # <<>> /\ Ahead[1] = cells[1] /\ Ahead[1] = <<k, 0>>
  BY <1>2, <1>3, EmptySeq DEF StreamInv
<1>5. k \in Requests /\ n = Lengths[k] /\ n \in Nat
  <2>1. cells[1] \in Cell
    BY <1>2, ElementOfSeq
  <2>2. cells[1][1] = k
    BY <1>4
  <2>. QED BY <2>1, <2>2, CellFacts DEF FrontLength
<1>6. BufferOK(inBuf', Cell) /\ \E u \in Seq(Cell) : Len(u) = n + 1 /\ cells = u \o rest
  <2>1. n + 1 <= ReadableBytes(inBuf)
    BY <1>1, <1>2, <1>5
  <2> HIDE DEF n
  <2>. QED BY <1>1, <1>2, <1>5, <2>1, RetrieveMessage
<1>7. rest \in Seq(Cell)
  BY <1>6, ReadableCells
<1>8. PICK u \in Seq(Cell) : Len(u) = n + 1 /\ cells = u \o rest
  BY <1>6
<1>9. Ahead = u \o Ahead' /\ Ahead' \in Seq(Cell)
  <2>1. Ahead' = rest \o arrived
    BY <1>1 DEF Ahead
  <2>2. Ahead = (u \o rest) \o arrived
    BY <1>8 DEF Ahead
  <2>. QED BY <1>2, <1>7, <2>1, <2>2, Regroup, ConcatProperties
<1>10. /\ Len(Ahead) = n + 1 + Len(Ahead') /\ Len(Ahead') \in Nat
       /\ \A i \in 1 .. n + 1 : i \in 1 .. Len(Ahead) /\ Ahead[i] = u[i]
       /\ \A i \in 1 .. Len(Ahead') :
             n + 1 + i \in 1 .. Len(Ahead) /\ Ahead[n + 1 + i] = Ahead'[i]
  <2> DEFINE left == Ahead'
  <2>1. left \in Seq(Cell) /\ Len(u) = n + 1 /\ Ahead = u \o left
    BY <1>8, <1>9
  <2> HIDE DEF left, n
  <2>2. /\ Len(Ahead) = Len(u) + Len(left) /\ Len(left) \in Nat /\ Len(u) \in Nat
        /\ \A i \in 1 .. Len(u) : i \in 1 .. Len(u) + Len(left) /\ Ahead[i] = u[i]
        /\ \A i \in 1 .. Len(left) :
              /\ Len(u) + i \in 1 .. Len(u) + Len(left)
              /\ Ahead[Len(u) + i] = left[i]
    BY <2>1, ConcatCells
  <2>3. /\ Len(Ahead) = n + 1 + Len(left) /\ Len(left) \in Nat
        /\ \A i \in 1 .. n + 1 : i \in 1 .. Len(Ahead) /\ Ahead[i] = u[i]
        /\ \A i \in 1 .. Len(left) :
              n + 1 + i \in 1 .. Len(Ahead) /\ Ahead[n + 1 + i] = left[i]
    BY <2>1, <2>2
  <2>. QED BY <2>3 DEF left
<1>11. u = Message(k, n) /\ Ahead[n + 1] = <<k, n>>
  <2>1. Len(u) = Lengths[k] + 1 /\ Len(u) <= Len(Ahead)
    BY <1>5, <1>8, <1>10
  <2>2. \A i \in 1 .. Len(u) : u[i] = Ahead[i]
    BY <1>8, <1>10
  <2>3. InMessages(Ahead)
    BY DEF StreamInv
  <2>4. /\ Ahead \in Seq(Cell) /\ Ahead # <<>> /\ Ahead[1] = <<k, 0>>
        /\ u \in Seq(Cell) /\ k \in Requests
    BY <1>3, <1>4, <1>5, <1>8
  <2> HIDE DEF k, n
  <2>5. u = Message(k, Lengths[k]) /\ Ahead[Len(u)] = <<k, Lengths[k]>>
    BY <2>1, <2>2, <2>3, <2>4, FrontIsMessage
  <2>. QED BY <1>5, <1>8, <2>5
<1>12. request = u
  <2>1. \A i \in 1 .. n + 1 : i \in 1 .. Len(cells) /\ cells[i] = u[i]
    BY <1>7, <1>8, ConcatCells
  <2>2. n + 1 \in 0 .. Len(cells)
    BY <1>1, <1>2, <1>5
  <2> HIDE DEF cells, n
  <2>3. \A i \in 1 .. n + 1 : cells[i] \in Cell
    BY <1>8, <2>1, ElementOfSeq
  <2>4. /\ request \in Seq(Cell) /\ Len(request) = n + 1
        /\ \A i \in 1 .. n + 1 : request[i] = cells[i]
    <3> DEFINE m == n + 1
    <3>1. m \in Nat /\ 1 \in Int /\ m \in Int /\ 1 <= m
      BY <1>5
    <3>2. \A i \in 1 .. m : cells[i] \in Cell
      BY <2>3
    <3> HIDE DEF m
    <3>3. /\ SubSeq(cells, 1, m) \in Seq(Cell)
          /\ Len(SubSeq(cells, 1, m)) = IF 1 <= m THEN m - 1 + 1 ELSE 0
          /\ \A i \in 1 .. m - 1 + 1 : SubSeq(cells, 1, m)[i] = cells[1 + i - 1]
      BY <3>1, <3>2, SubSeqProperties
    <3>4. m - 1 + 1 = m /\ \A i \in 1 .. m : 1 + i - 1 = i
      BY <3>1
    <3>5. /\ SubSeq(cells, 1, m) \in Seq(Cell) /\ Len(SubSeq(cells, 1, m)) = m
          /\ \A i \in 1 .. m : SubSeq(cells, 1, m)[i] = cells[i]
      BY <3>1, <3>3, <3>4
    <3>. QED BY <3>5 DEF m
  <2>. QED BY <1>8, <2>1, <2>4, SeqEqual
<1> HIDE DEF cells, request, rest, b
<1>13. /\ Len(handled) \in Nat /\ Len(handled') = Len(handled) + 1
       /\ DOMAIN handled' = 1 .. Len(handled) + 1
       /\ DOMAIN handled = 1 .. Len(handled)
       /\ handled'[Len(handled) + 1] = u
       /\ \A j \in 1 .. Len(handled) : handled'[j] = handled[j]
  <2>1. handled \in Seq(Seq(Cell)) /\ handled' = Append(handled, u) /\ u \in Seq(Cell)
    BY <1>1, <1>12, AheadCells
  <2>2. handled' \in Seq(Seq(Cell))
    BY <2>1, AppendProperties
  <2>. QED BY <2>1, <2>2, AppendProperties, LenProperties
<1>14. RequestsAreWhole'
  <2>1. ASSUME NEW j \in 1 .. Len(handled) + 1
        PROVE  handled'[j] = Message(j, Lengths[j])
    <3>1. CASE j = k
      BY <1>5, <1>11, <1>13, <3>1 DEF Expected
    <3>2. CASE j # k
      <4>1. j \in 1 .. Len(handled)
        BY <1>13, <2>1, <3>2 DEF Expected
      <4>. QED BY <1>13, <4>1 DEF StreamInv, RequestsAreWhole
    <3>. QED BY <3>1, <3>2
  <2>. QED BY <1>13, <2>1 DEF RequestsAreWhole
<1>15. InMessages(Ahead')
  BY <1>8, <1>9, PartInMessages DEF StreamInv
<1>16. Expected' = k + 1 /\ After(Ahead[n + 1]) = <<k + 1, 0>>
  BY <1>5, <1>11, <1>13 DEF Expected, After
<1>17. Ahead' # <<>> => Ahead'[1] = <<Expected', 0>>
  <2> SUFFICES ASSUME Ahead' # <<>> PROVE Ahead'[1] = <<Expected', 0>>
    OBVIOUS
  <2>1. 1 \in 1 .. Len(Ahead')
    BY <1>9, <1>10, EmptySeq
  <2>2. /\ n + 1 \in 1 .. Len(Ahead) /\ (n + 1) + 1 \in 1 .. Len(Ahead)
        /\ Ahead[(n + 1) + 1] = Ahead'[1]
    BY <1>5, <1>10, <2>1
  <2>3. Ahead[(n + 1) + 1] = After(Ahead[n + 1])
    BY <2>2 DEF StreamInv, InMessages
  <2>. QED BY <1>16, <2>2, <2>3
<1>18. ComesNext' = ComesNext
  <2>1. ComesNext = After(Ahead[Len(Ahead)])
    BY <1>4 DEF ComesNext
  <2>2. CASE Ahead' = <<>>
    <3>1. Len(Ahead) = n + 1
      BY <1>5, <1>10, <2>2, EmptySeq
    <3>. QED BY <1>16, <2>1, <2>2, <3>1 DEF ComesNext
  <2>3. CASE Ahead' # <<>>
    <3>1. Len(Ahead') \in 1 .. Len(Ahead')
      BY <1>9, <1>10, <2>3, EmptySeq
    <3>2. Ahead[Len(Ahead)] = Ahead'[Len(Ahead')]
      BY <1>10, <3>1
    <3>. QED BY <2>1, <2>3, <3>2 DEF ComesNext
  <2>. QED BY <2>2, <2>3
<1>19. peer' = "open" => next' = ComesNext'
  BY <1>1, <1>18 DEF StreamInv
<1>. QED BY <1>14, <1>15, <1>17, <1>19 DEF StreamInv

LEMMA NextStream ==
    ASSUME Inv, StreamInv, [Next]_vars
    PROVE  StreamInv'
<1>1. CASE UNCHANGED <<peer, next, arrived, inBuf, handled>>
  <2>1. Ahead' = Ahead
    BY <1>1 DEF Ahead
  <2>. QED BY <1>1, <2>1, StreamStays
<1>2. CASE LoopStep
  <2>1. CASE HandleRead \/ HandleRequest
    BY <2>1, ReadStream, RequestStream
  <2>2. CASE ~(HandleRead \/ HandleRequest)
    BY <1>1, <1>2, <2>2
    DEF LoopStep, Poll, EndMessages, HandleWrite, HandleClose, BeginFunctors,
        RunFunctor, EndFunctors, socket
  <2>. QED BY <2>1, <2>2
<1>3. ASSUME NEW j \in Requests, WorkerStep(j) PROVE StreamInv'
  BY <1>1, <1>3 DEF WorkerStep, WorkerSends, WorkerEnds, socket
<1>4. CASE PeerReads
  BY <1>1, <1>4 DEF PeerReads
<1>5. CASE UNCHANGED vars
  BY <1>1, <1>5 DEF vars
<1>. QED BY <1>2, <1>3, <1>4, <1>5, PeerSendsStream, PeerEndsStream DEF Next

(* However the cells of the peer are cut, read, moved within the buffer    *)
(* and lost by a reset: what the server program handles are the requests   *)
(* of the peer, whole, in their order, and none twice                      *)
(* (Buffer.cc, TcpConnection.cc:16-45, DnsService.cc:37-65).               *)
THEOREM WholeRequests == Spec => []RequestsAreWhole
<1>1. StreamInv => RequestsAreWhole
  BY DEF StreamInv
<1>2. Inv /\ StreamInv /\ [Next]_vars => StreamInv'
  BY NextStream
<1>. QED BY <1>1, <1>2, InitStream, InvHolds, PTL DEF Spec
=============================================================================
