------------------------------- MODULE IOBuffer --------------------------------
(***************************************************************************)
(* The buffer every byte of the server goes through                        *)
(* (utils/buffering/iobuffer.cpp): one block of memory, of which the part  *)
(* from _consumed to _published is unread.  Room is made by moving the     *)
(* unread bytes to the front or by a larger block.  Bytes are numbered in  *)
(* the order they are written in, so that a byte is its place in the       *)
(* stream; Junk is memory that holds no byte of the stream.                *)
(***************************************************************************)
EXTENDS Integers

CONSTANTS MinChunkSize,  \* _minChunkSize
          MaxRequest,    \* the most one call reads or writes
          MaxBytes       \* bound: bytes written in a behaviour

ASSUME IOBufferAssumption ==
  /\ MinChunkSize \in Nat \ {0}
  /\ MaxRequest \in Nat \ {0}
  /\ MaxBytes \in Nat

VARIABLES buf,      \* [memory, size, published, consumed] of the IOBuffer
          written,  \* bytes ever put into it
          taken     \* bytes ever taken out of it

ioVars == <<buf, written, taken>>

Junk == -1

Buffer(memory, size, published, consumed) ==
  [memory |-> memory, size |-> size, published |-> published,
   consumed |-> consumed]

Available(b) == b.published - b.consumed

\* memcpy: what an overlapping copy leaves is undefined.
Memcpy(memory, from, n) ==
  [i \in DOMAIN memory |->
     IF i >= n THEN memory[i]
     ELSE IF n > from THEN Junk
     ELSE memory[from + i]]

Recycle(b) ==
  IF b.consumed = b.published THEN Buffer(b.memory, b.size, 0, 0) ELSE b

MoveDataAlways(b) ==
  Buffer(Memcpy(b.memory, b.consumed, Available(b)), b.size, Available(b), 0)

MoveData(b) == IF Available(b) <= b.consumed THEN MoveDataAlways(b) ELSE b

\* What is asked for, at least a third of what there is, no less than a chunk.
Growth(b, expected) ==
  LET wanted == IF b.published + expected - b.size < b.size \div 3
                THEN b.size + b.size \div 3 - b.published
                ELSE expected
  IN IF wanted < MinChunkSize THEN MinChunkSize ELSE wanted

Reallocated(b, expected) ==
  LET size == b.published + Growth(b, expected)
      memory == [i \in 0 .. size - 1 |->
                   IF i < b.published THEN b.memory[i] ELSE Junk]
  IN Buffer(memory, size, b.published, b.consumed)

EnsureSize(b, expected) ==
  IF b.published + expected <= b.size THEN b
  ELSE LET moved == MoveData(b)
       IN IF moved.published + expected <= moved.size THEN moved
          ELSE Reallocated(moved, expected)

\* n bytes of the stream are stored behind the published ones.
Stored(b, n) ==
  LET memory == [i \in DOMAIN b.memory |->
                   IF i >= b.published /\ i < b.published + n
                   THEN written + (i - b.published)
                   ELSE b.memory[i]]
  IN Buffer(memory, b.size, b.published + n, b.consumed)

Advanced(b, n) == Buffer(b.memory, b.size, b.published, b.consumed + n)

IOInit ==
  /\ buf = Buffer([i \in 0 .. -1 |-> Junk], 0, 0, 0)
  /\ written = 0
  /\ taken = 0

\* recv, read and recvfrom may give less than there is room for, or nothing.
ReadFromFd(expected, received) ==
  /\ written + received <= MaxBytes
  /\ received <= expected
  /\ buf' = Stored(EnsureSize(buf, expected), received)
  /\ written' = written + received
  /\ UNCHANGED taken

\* ReadFromBuffer and what is built on it, ReadFromByte, ReadFromRepeat,
\* ReadFromBIO, ReadFromFs.
ReadFromBuffer(n) ==
  /\ written + n <= MaxBytes
  /\ buf' = Stored(EnsureSize(buf, n), n)
  /\ written' = written + n
  /\ UNCHANGED taken

\* WriteToTCPFd, WriteToStdio: send may take less than it is offered.
WriteToFd(size, sent) ==
  /\ sent <= size /\ sent <= Available(buf)
  /\ buf' = Recycle(Advanced(buf, sent))
  /\ taken' = taken + sent
  /\ UNCHANGED written

\* The callers ignore what they have read, never more than there is.
Ignore(n) ==
  /\ n <= Available(buf)
  /\ buf' = Recycle(Advanced(buf, n))
  /\ taken' = taken + n
  /\ UNCHANGED written

IgnoreAll ==
  /\ buf' = Recycle(Advanced(buf, Available(buf)))
  /\ taken' = taken + Available(buf)
  /\ UNCHANGED written

\* The transport stream and the MMS transcoder make room themselves.
CallMoveData == buf' = MoveData(buf) /\ UNCHANGED <<written, taken>>

IONext ==
  \/ \E expected \in 1 .. MaxRequest, n \in 0 .. MaxRequest :
        \/ ReadFromFd(expected, n)
        \/ WriteToFd(expected, n)
  \/ \E n \in 0 .. MaxRequest : ReadFromBuffer(n) \/ Ignore(n)
  \/ IgnoreAll
  \/ CallMoveData

IOSpec == IOInit /\ [][IONext]_ioVars

-----------------------------------------------------------------------------
IOTypeOK ==
  /\ written \in Nat /\ taken \in Nat
  /\ buf.memory \in [0 .. buf.size - 1 -> Int]
  /\ \A field \in {"size", "published", "consumed"} : buf[field] \in Nat

\* SANITY_INPUT_BUFFER, the assertion of every call: the two indices are in
\* order and inside the block (iobuffer.cpp:24-27).
Sanity == buf.consumed <= buf.published /\ buf.published <= buf.size

\* The unread part of the block is the bytes that were written and not yet
\* taken, in their order: no move, growth or partial read or write loses,
\* repeats or exchanges one (iobuffer.cpp, EnsureSize, MoveData, Recycle).
UnreadKept ==
  /\ Sanity
  /\ written - taken = Available(buf)
  /\ \A i \in 0 .. Available(buf) - 1 : buf.memory[buf.consumed + i] = taken + i
=============================================================================
