----------------------------- MODULE Unpickler -----------------------------
(***************************************************************************)
(* The unpickler, src/seam/generic/Unpickler.cc: PickleCheckWorker reads   *)
(* the header, UnpickleWorker executes the instructions one by one over a  *)
(* stack and local variables, InputWorker fills the buffer of the input    *)
(* stream, TransformWorker applies a handler that had to be loaded.        *)
(*                                                                         *)
(* An instruction that is not complete in the buffer is given up: the      *)
(* buffer is filled and the instruction is read again from its first byte. *)
(***************************************************************************)
EXTENDS PickleFormat

CONSTANTS BufferSize,        \* the size of the buffer at first
          READ_BUFFER_SIZE   \* by which it is enlarged

\* The header (4 + 4 numbers, INIT) fits into the buffer: 8212 bytes.
ASSUME UnpicklerAssumption == /\ READ_BUFFER_SIZE \in Nat \ {0}
                              /\ BufferSize \in Nat \ (0..12)

VARIABLES input,      \* InputStream
          frame,      \* UnpickleFrame: stack, locals, the sizes that were asked for
          heap,       \* the blocks that were made
          transform,  \* the frame of TransformWorker
          handlers,   \* whether the handler is in handlerTable
          upc         \* where the unpickling thread is

uvars == <<input, frame, heap, transform, handlers, upc>>

NoWord == <<"int", 0>>                       \* what a local holds at first

(***************************************************************************)
(* InputStream.  buffer holds the first tl bytes of a buffer of the given  *)
(* size; what is before hd is committed, rd is the next byte to read.      *)
(***************************************************************************)
NewInput(type, bytes) ==
    [type |-> type, eob |-> FALSE, hd |-> 0, rd |-> 0,
     file   |-> IF type = "FILE" THEN bytes ELSE <<>>,
     buffer |-> IF type = "FILE" THEN <<>> ELSE bytes,
     size   |-> IF type = "FILE" THEN BufferSize ELSE Len(bytes)]

tl(is) == Len(is.buffer)

\* A read returns the stream and what was read, if eob is not set.
GetByte(is) ==
    IF is.rd >= tl(is) THEN [is |-> [is EXCEPT !.eob = TRUE], b |-> 0]
    ELSE [is |-> [is EXCEPT !.rd = @ + 1], b |-> is.buffer[is.rd + 1]]

GetBytes(is, n) ==
    IF is.rd + n >= tl(is) THEN [is |-> [is EXCEPT !.eob = TRUE], b |-> <<>>]
    ELSE [is |-> [is EXCEPT !.rd = @ + n],
          b |-> SubSeq(is.buffer, is.rd + 1, is.rd + n)]

RECURSIVE GetDigits(_, _, _)
GetDigits(is, value, weight) ==
    LET r == GetByte(is)
    IN  IF r.is.eob THEN [is |-> r.is, b |-> 0]
        ELSE IF r.b >= Radix
             THEN GetDigits(r.is, value + (r.b - Radix) * weight, weight * Radix)
             ELSE [is |-> r.is, b |-> value + r.b * weight]
GetUInt(is) == GetDigits(is, 0, 1)

RECURSIVE GetUInts(_, _)
GetUInts(is, n) ==
    IF n = 0 THEN [is |-> is, b |-> <<>>]
    ELSE LET r == GetUInt(is)
         IN  IF r.is.eob THEN [is |-> r.is, b |-> <<>>]
             ELSE LET s == GetUInts(r.is, n - 1)
                  IN  [is |-> s.is, b |-> <<r.b>> \o s.b]

Commit(is) == [is EXCEPT !.hd = is.rd]

FillBufferNoEnlarge(is) ==
    LET kept == SubSeq(is.buffer, is.hd + 1, tl(is))
        room == is.size - Len(kept)
        n    == IF room < Len(is.file) THEN room ELSE Len(is.file)
    IN  [is EXCEPT !.buffer = kept \o SubSeq(is.file, 1, n),
                   !.file = SubSeq(is.file, n + 1, Len(is.file)),
                   !.hd = 0, !.rd = 0, !.eob = FALSE]

\* FillBuffer of a file: the bytes from hd on are moved to the front, or a full
\* buffer is enlarged; gzread fills the rest.
FillBuffer(is) ==
    LET kept == SubSeq(is.buffer, is.hd + 1, tl(is))
        size == IF is.hd = 0 /\ tl(is) = is.size THEN is.size + READ_BUFFER_SIZE
                                                 ELSE is.size
        room == size - Len(kept)
        n    == IF room < Len(is.file) THEN room ELSE Len(is.file)
    IN  [is EXCEPT !.buffer = kept \o SubSeq(is.file, 1, n),
                   !.file = SubSeq(is.file, n + 1, Len(is.file)),
                   !.size = size, !.hd = 0, !.rd = 0, !.eob = FALSE]

\* InputStream::IsEOF.
IsEOF(is) == is.rd >= tl(is) /\ is.file = <<>>

(***************************************************************************)
(* UnpickleFrame and StoreAbstraction.                                     *)
(***************************************************************************)
UPush(f, w) == [f EXCEPT !.stack = Append(@, w)]
UPop(f, n) == [f EXCEPT !.stack = SubSeq(@, 1, Len(@) - n)]
Top(f) == Last(f.stack)
StoreLocal(f, i, w) == [f EXCEPT !.locals[i] = w, !.stored[i] = @ + 1]

\* The words a block of size n gets: the i-th one is the i-th one popped.
Popped(f, n) == [i \in 1..n |-> f.stack[Len(f.stack) - i + 1]]

UnpickleFrameNew(stackSize, locals) ==
    [stack |-> <<>>, stackSize |-> stackSize,
     locals |-> [i \in 0..locals - 1 |-> NoWord],
     stored |-> [i \in 0..locals - 1 |-> 0]]

\* The kind and the size of the block of an instruction.
Kind(tag) == CASE tag \in {"TUPLE", "aTUPLE"} -> "TUPLE"
               [] tag \in {"CLOSURE", "aCLOSURE"} -> "CLOSURE"
               [] tag \in {"MBLOCK", "aMBLOCK"} -> "CELL"
               [] tag \in {"BLOCK", "aBLOCK"} -> "TAG"
SizeOf(tag, ops) ==
    IF tag \in {"BLOCK", "MBLOCK", "aBLOCK", "aMBLOCK"} THEN ops[2] ELSE ops[1]

NewNode(kind, args) == [kind |-> kind, args |-> args]
NewPtr == Ptr(Len(heap) + 1)

(***************************************************************************)
(* The workers.                                                            *)
(***************************************************************************)
UInit ==
    /\ input = NewInput("STRING", <<>>)
    /\ frame = UnpickleFrameNew(0, 0)
    /\ heap = <<>>
    /\ transform = NoWord
    /\ handlers \in BOOLEAN
    /\ upc = "idle"

\* Unpickler::Load and Unpickler::Unpack.
Load(type, bytes) ==
    /\ upc = "idle"
    /\ input' = NewInput(type, bytes)
    /\ upc' = "check"
    /\ UNCHANGED <<frame, heap, transform, handlers>>

\* PickleCheckWorker::Run: every part is committed when it is read, and at the
\* end of the buffer the worker starts anew with what is not committed.
Check ==
    /\ upc = "check"
    /\ LET m  == GetBytes(input, 4)
           mj == GetUInt(Commit(m.is))
           mn == GetUInt(Commit(mj.is))
           t  == GetByte(Commit(mn.is))
           s  == GetUInt(Commit(t.is))
           l  == GetUInt(Commit(s.is))
           Fill(is) == upc' = "fill check" /\ input' = is /\ UNCHANGED frame
           Corrupt == upc' = "corrupt" /\ UNCHANGED <<input, frame>>
       IN  IF m.is.eob THEN Fill(m.is) ELSE IF m.b # magic THEN Corrupt
           ELSE IF mj.is.eob THEN Fill(mj.is) ELSE IF mj.b # majorVersion THEN Corrupt
           ELSE IF mn.is.eob THEN Fill(mn.is) ELSE IF mn.b > minorVersion THEN Corrupt
           ELSE IF t.is.eob THEN Fill(t.is) ELSE IF t.b # "INIT" THEN Corrupt
           ELSE IF s.is.eob THEN Fill(s.is) ELSE IF IsEOF(s.is) THEN Corrupt
           ELSE IF l.is.eob THEN Fill(l.is)
           ELSE /\ input' = Commit(l.is)
                /\ frame' = UnpickleFrameNew(s.b, l.b)
                /\ upc' = "unpickle"
    /\ UNCHANGED <<heap, transform, handlers>>

InputWorkerRunShort ==
    /\ upc \in {"fill check", "fill unpickle"}
    /\ IF FillBuffer(input).file = <<>> THEN upc' = "corrupt" /\ UNCHANGED input
       ELSE /\ input' = FillBuffer(input)
            /\ upc' = IF upc = "fill check" THEN "check" ELSE "unpickle"
    /\ UNCHANGED <<frame, heap, transform, handlers>>

\* InputWorker::Run; a string has no more data, nor has a file at its end.
InputWorkerRun ==
    /\ upc \in {"fill check", "fill unpickle"}
    /\ IF input.file = <<>> THEN upc' = "corrupt" /\ UNCHANGED input
       ELSE /\ input' = FillBuffer(input)
            /\ upc' = IF upc = "fill check" THEN "check" ELSE "unpickle"
    /\ UNCHANGED <<frame, heap, transform, handlers>>

\* InputWorker::Run when gzread fails: IOError is raised.  Hd and the buffer have
\* been changed by then, but nobody reads from the stream any more.
ReadFails ==
    /\ upc \in {"fill check", "fill unpickle"}
    /\ input.type = "FILE"
    /\ upc' = "ioerror"
    /\ UNCHANGED <<input, frame, heap, transform, handlers>>

\* The next instruction: its name, its numbers, the bytes of a chunk.
Decode ==
    LET t == GetByte(input)
        o == GetUInts(t.is, IF t.is.eob THEN 0 ELSE Operands(t.b))
        c == IF ~o.is.eob /\ t.b \in {"CHUNK", "MCHUNK"} THEN GetBytes(o.is, o.b[1])
             ELSE [is |-> o.is, b |-> <<>>]
    IN  [tag |-> t.b, ops |-> o.b, bytes |-> c.b, is |-> c.is]

Unpickling(tags) ==
    /\ upc = "unpickle"
    /\ ~Decode.is.eob
    /\ Decode.tag \in tags
    /\ input' = Commit(Decode.is)

\* The instruction is not complete: it is given up, and read again later.
EndOfBuffer ==
    /\ upc = "unpickle"
    /\ Decode.is.eob
    /\ input' = Decode.is
    /\ upc' = "fill unpickle"
    /\ UNCHANGED <<frame, heap, transform, handlers>>

Store ==
    /\ Unpickling({"STORE"})
    /\ frame' = StoreLocal(frame, Decode.ops[1], Top(frame))
    /\ UNCHANGED <<heap, transform, handlers, upc>>

LoadLocal ==
    /\ Unpickling({"LOAD"})
    /\ frame' = UPush(frame, frame.locals[Decode.ops[1]])
    /\ UNCHANGED <<heap, transform, handlers, upc>>

PushInt ==
    /\ Unpickling({"POSINT", "NEGINT"})
    /\ LET y == Decode.ops[1]
       IN  frame' = UPush(frame, Num(IF Decode.tag = "POSINT" THEN y ELSE -(y + 1)))
    /\ UNCHANGED <<heap, transform, handlers, upc>>

PushChunk ==
    /\ Unpickling({"CHUNK", "MCHUNK"})
    /\ heap' = Append(heap, NewNode(Decode.tag, [i \in 1..Decode.ops[1] |->
                                                   Num(Decode.bytes[i])]))
    /\ frame' = UPush(frame, NewPtr)
    /\ UNCHANGED <<transform, handlers, upc>>

\* UniqueString::New.
Unique ==
    /\ Unpickling({"UNIQUE"})
    /\ heap' = Append(heap, NewNode("UNIQUE", <<Top(frame)>>))
    /\ frame' = UPush(UPop(frame, 1), NewPtr)
    /\ UNCHANGED <<transform, handlers, upc>>

\* AllocBlock.
AllocBlock ==
    /\ Unpickling({"BLOCK", "MBLOCK", "TUPLE", "CLOSURE"})
    /\ LET n == SizeOf(Decode.tag, Decode.ops)
       IN  /\ heap' = Append(heap, NewNode(Kind(Decode.tag), Popped(frame, n)))
           /\ frame' = UPush(UPop(frame, n), NewPtr)
    /\ UNCHANGED <<transform, handlers, upc>>

\* AnnounceBlock and PushStore: a block without contents, or a future.
AnnounceBlock ==
    /\ Unpickling({"aBLOCK", "aMBLOCK", "aTUPLE", "aCLOSURE", "aTRANSFORM"})
    /\ LET t == Decode.tag
       IN  heap' = Append(heap, IF t = "aTRANSFORM" THEN NewNode("FUTURE", <<>>)
                                ELSE NewNode(Kind(t), [i \in 1..SizeOf(t, Decode.ops) |->
                                                         NoWord]))
    /\ frame' = StoreLocal(UPush(frame, NewPtr), Last(Decode.ops), NewPtr)
    /\ UNCHANGED <<transform, handlers, upc>>

\* ApplyTransform: a handler that is known makes the block; otherwise a future
\* stands for it, TransformWorker is pushed, and the Broker loads the language
\* layer, which registers the handler or cannot be found.
ApplyTransform(f, h, name, argument, future) ==
    /\ \/ /\ IsPtr(name)
          /\ h[name[2]].kind = "CHUNK"
          /\ IF handlers
             THEN /\ heap' = Append(h, NewNode("CONCRETE", <<argument>>))
                  /\ frame' = UPush(f, Ptr(Len(h) + 1))
                  /\ UNCHANGED <<transform, handlers, upc>>
             ELSE /\ heap' = h
                  /\ frame' = UPush(f, future)
                  /\ transform' = <<future, argument>>
                  /\ handlers' \in BOOLEAN
                  /\ upc' = "transform"
       \/ /\ IsInt(name) \/ h[name[2]].kind # "CHUNK"    \* no string: undefined
          /\ upc' = "undefined"
          /\ UNCHANGED <<frame, heap, transform, handlers>>

Transform ==
    /\ Unpickling({"TRANSFORM"})
    /\ ApplyTransform(UPop(frame, 2), Append(heap, NewNode("FUTURE", <<>>)),
                      Popped(frame, 2)[1], Popped(frame, 2)[2], NewPtr)

\* MakeFulfilledBlock: an announced block gets its contents, an announced
\* future its transform.
Fulfill ==
    /\ Unpickling({"FULFILL"})
    /\ LET w == frame.locals[Decode.ops[1]]
           n == Len(heap[w[2]].args)
       IN  IF heap[w[2]].kind = "FUTURE"
           THEN ApplyTransform(UPop(frame, 2), heap, Popped(frame, 2)[2],
                               Popped(frame, 2)[1], w)
           ELSE /\ heap' = [heap EXCEPT ![w[2]].args = Popped(frame, n)]
                /\ frame' = UPush(UPop(frame, n), w)
                /\ UNCHANGED <<transform, handlers, upc>>

\* TransformWorker::Run.
TransformWorkerRun ==
    /\ upc = "transform"
    /\ IF handlers
       THEN /\ heap' = [Append(heap, NewNode("CONCRETE", <<transform[2]>>))
                          EXCEPT ![transform[1][2]] = NewNode("REF", <<NewPtr>>)]
            /\ upc' = "unpickle"
       ELSE upc' = "corrupt" /\ UNCHANGED heap
    /\ transform' = NoWord
    /\ UNCHANGED <<input, frame, handlers>>

\* The result is local variable 0; PickleLoadWorker hands it on.
EndOfStream ==
    /\ Unpickling({"ENDOFSTREAM"})
    /\ upc' = "loaded"
    /\ UNCHANGED <<frame, heap, transform, handlers>>

UNext ==
    \/ Check
    \/ InputWorkerRun
    \/ ReadFails
    \/ EndOfBuffer
    \/ Store
    \/ LoadLocal
    \/ PushInt
    \/ PushChunk
    \/ Unique
    \/ AllocBlock
    \/ AnnounceBlock
    \/ Transform
    \/ Fulfill
    \/ TransformWorkerRun
    \/ EndOfStream
=============================================================================
