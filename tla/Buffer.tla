------------------------------- MODULE Buffer -------------------------------
(***************************************************************************)
(* Class Buffer: each method is an operator from a buffer to the buffer it *)
(* leaves behind.  Contents are sequences of cells: a cell stands for some *)
(* bytes that mean something together, such as a message head.             *)
(***************************************************************************)
EXTENDS Integers, Sequences

CONSTANTS
    CheapPrepend,   \* kCheapPrepend
    ExtraSize       \* the size of extrabuf

ASSUME BufferAssumption ==
    CheapPrepend \in Nat \ {0} /\ ExtraSize \in Nat \ {0}

(* A cell nothing was written to yet.                                      *)
Blank == <<0, 0>>

(* cells: _buf; reader: _readerIndex; writer: _writerIndex.                *)
BufferType(Cell) ==
    [cells : Seq(Cell \cup {Blank}), reader : Nat, writer : Nat]

(* 0 <= readerIndex <= writerIndex <= size, and no more was prepended than *)
(* there is room for.                                                      *)
BufferOK(b, Cell) ==
    /\ b \in BufferType(Cell)
    /\ CheapPrepend <= b.reader /\ b.reader <= b.writer /\ b.writer <= Len(b.cells)
    /\ \A i \in b.reader + 1 .. b.writer : b.cells[i] \in Cell

NewBuffer(initialSize) ==
    [cells  |-> [i \in 1 .. CheapPrepend + initialSize |-> Blank],
     reader |-> CheapPrepend,
     writer |-> CheapPrepend]

Readable(b) == SubSeq(b.cells, b.reader + 1, b.writer)

ReadableBytes(b) == b.writer - b.reader

WritableBytes(b) == Len(b.cells) - b.writer

(* cells after data was copied behind the first index of them.             *)
Overwritten(cells, index, data) ==
    [i \in DOMAIN cells |->
        IF i \in index + 1 .. index + Len(data) THEN data[i - index] ELSE cells[i]]

Resized(cells, size) ==
    [i \in 1 .. size |-> IF i <= Len(cells) THEN cells[i] ELSE Blank]

(* Mistakes the checked properties must notice: a variant X_mistake stands *)
(* in for X in a mutation run, and nothing else uses it.                   *)
MakeSpace_copiesNothing(b, len) ==
    IF WritableBytes(b) + b.reader < len + CheapPrepend
    THEN [b EXCEPT !.cells = Resized(@, b.writer + len)]
    ELSE [b EXCEPT !.reader = CheapPrepend, !.writer = CheapPrepend + ReadableBytes(b)]

MakeSpace(b, len) ==
    IF WritableBytes(b) + b.reader < len + CheapPrepend
    THEN [b EXCEPT !.cells = Resized(@, b.writer + len)]
    ELSE [cells  |-> Overwritten(b.cells, CheapPrepend, Readable(b)),
          reader |-> CheapPrepend,
          writer |-> CheapPrepend + ReadableBytes(b)]

(* data is copied behind the readable cells.                               *)
Copied(b, data) ==
    [b EXCEPT !.cells = Overwritten(@, b.writer, data), !.writer = @ + Len(data)]

AppendCells(b, data) ==
    Copied(IF Len(data) > WritableBytes(b) THEN MakeSpace(b, Len(data)) ELSE b, data)

(* What does not fit before the readable cells is not prepended.           *)
Prepend(b, data) ==
    IF Len(data) > b.reader THEN b
    ELSE [b EXCEPT !.reader = @ - Len(data),
                   !.cells = Overwritten(@, b.reader - Len(data), data)]

RetrieveAll(b) == [b EXCEPT !.reader = CheapPrepend, !.writer = CheapPrepend]

Retrieve(b, len) ==
    IF len < ReadableBytes(b) THEN [b EXCEPT !.reader = @ + len] ELSE RetrieveAll(b)

(* readFd: how many of the cells that have arrived it takes; what does not *)
(* fit into the buffer goes through extrabuf.                              *)
ReadLength(b, arrived) ==
    LET room == IF WritableBytes(b) < ExtraSize THEN WritableBytes(b) + ExtraSize
                                                ELSE WritableBytes(b)
    IN  IF arrived < room THEN arrived ELSE room

ReadFd(b, data) ==
    LET fits == WritableBytes(b)
    IN  IF Len(data) <= fits THEN Copied(b, data)
        ELSE AppendCells(Copied(b, SubSeq(data, 1, fits)),
                         SubSeq(data, fits + 1, Len(data)))
=============================================================================
