----------------------------- MODULE LibraryProofs -----------------------------
(***************************************************************************)
(* Proofs about three parts below the protocols, which share no state: a   *)
(* buffer of IOBuffer, the windows of MmapWindow, the files of Recordings. *)
(* Each part has its own specification, invariant and theorems.            *)
(***************************************************************************)
EXTENDS IOBuffer, MmapWindow, Recordings, FiniteSetTheorems, TLAPS

-----------------------------------------------------------------------------
(***************************************************************************)
(* IOBuffer: the unread bytes survive every call, for every chunk          *)
(* size, every size of request and any number of bytes.                    *)
(*                                                                         *)
(* A buffer is Good for a spot in the stream when its unread part holds    *)
(* the bytes from that spot on.   Each operator of the module is shown to  *)
(* keep that; the steps of the specification are compositions of them.     *)
(***************************************************************************)

IsBuffer(b) ==
  /\ b = Buffer(b.memory, b.size, b.published, b.consumed)
  /\ b.size \in Nat /\ b.published \in Nat /\ b.consumed \in Nat
  /\ b.memory \in [0 .. b.size - 1 -> Int]
  /\ b.consumed <= b.published /\ b.published <= b.size

Good(b, spot) ==
  /\ IsBuffer(b)
  /\ \A i \in 0 .. Available(b) - 1 : b.memory[b.consumed + i] = spot + i

IOInv ==
  /\ written \in Nat /\ taken \in Nat
  /\ Good(buf, taken)
  /\ written - taken = Available(buf)

Indices(b) ==
  /\ b.size \in Nat /\ b.published \in Nat /\ b.consumed \in Nat
  /\ b.consumed <= b.published /\ b.published <= b.size
  /\ Available(b) \in Nat
  /\ b.published = b.consumed + Available(b)

LEMMA GoodIndices ==
  ASSUME NEW b, NEW spot, Good(b, spot)
  PROVE  Indices(b)
BY DEF Good, IsBuffer, Available, Indices

-----------------------------------------------------------------------------
\* Moving the unread bytes to the front keeps them, when they fit before
\* where they are: then the copy does not overlap.
LEMMA MoveDataKeeps ==
  ASSUME NEW b, NEW spot \in Nat, Good(b, spot)
  PROVE  /\ Good(MoveData(b), spot)
         /\ Available(MoveData(b)) = Available(b)
         /\ MoveData(b).size = b.size
<1> DEFINE n == Available(b)
           memory == [i \in DOMAIN b.memory |->
                        IF i >= n THEN b.memory[i]
                        ELSE IF n > b.consumed THEN Junk
                        ELSE b.memory[b.consumed + i]]
           moved == Buffer(memory, b.size, n, 0)
<1>1. IsBuffer(b) /\ n \in Nat /\ n <= b.size
  BY DEF Good, IsBuffer, Available
<1>2. CASE n <= b.consumed
  <2>1. MoveData(b) = moved
    BY <1>2 DEF MoveData, MoveDataAlways, Memcpy
  <2>2. memory \in [0 .. b.size - 1 -> Int]
    <3>1. DOMAIN b.memory = 0 .. b.size - 1
      BY <1>1 DEF IsBuffer
    <3>2. ASSUME NEW i \in 0 .. b.size - 1
          PROVE  memory[i] \in Int
      <4>1. CASE i >= n
        BY <1>1, <3>1, <3>2, <4>1 DEF IsBuffer
      <4>2. CASE ~(i >= n)
        <5>1. b.consumed + i \in 0 .. b.size - 1
          BY <1>1, <1>2, <3>2, <4>2 DEF IsBuffer, Available
        <5>2. memory[i] = b.memory[b.consumed + i]
          BY <1>1, <1>2, <3>1, <3>2, <4>2 DEF IsBuffer
        <5> QED
          BY <1>1, <5>1, <5>2 DEF IsBuffer
      <4> QED
        BY <4>1, <4>2
    <3> QED
      BY <3>1, <3>2
  <2>3. \A i \in 0 .. n - 1 : memory[i] = spot + i
    <3>1. SUFFICES ASSUME NEW i \in 0 .. n - 1
                   PROVE  memory[i] = spot + i
      OBVIOUS
    <3>2. i \in DOMAIN b.memory /\ i < n /\ n <= b.consumed
      BY <1>1, <1>2, <3>1 DEF IsBuffer
    <3>3. memory[i] = b.memory[b.consumed + i]
      BY <1>1, <3>2 DEF IsBuffer
    <3> QED
      BY <3>1, <3>3 DEF Good
  <2>4. /\ moved.size = b.size /\ moved.published = n /\ moved.consumed = 0
        /\ moved.memory = memory
    BY DEF Buffer
  <2>5. Available(moved) = n
    BY <1>1, <2>4 DEF Available
  <2>6. IsBuffer(moved)
    <3> HIDE DEF memory
    <3> QED
      BY <1>1, <2>2, <2>4 DEF IsBuffer
  <2>7. Good(moved, spot)
    <3> HIDE DEF moved, memory, n
    <3> QED
      BY <1>1, <2>3, <2>4, <2>5, <2>6 DEF Good
  <2> QED
    BY <2>1, <2>4, <2>5, <2>7
<1>3. CASE ~(n <= b.consumed)
  BY <1>3 DEF MoveData
<1> QED
  BY <1>2, <1>3

\* The larger block has room for what was asked, and the bytes of the old one.
LEMMA ReallocatedKeeps ==
  ASSUME NEW b, NEW spot \in Nat, Good(b, spot), NEW expected \in Nat
  PROVE  /\ Good(Reallocated(b, expected), spot)
         /\ Available(Reallocated(b, expected)) = Available(b)
         /\ b.published + expected > b.size =>
              Reallocated(b, expected).published + expected
                <= Reallocated(b, expected).size
<1> DEFINE growth == Growth(b, expected)
           size == b.published + growth
           memory == [i \in 0 .. size - 1 |->
                        IF i < b.published THEN b.memory[i] ELSE Junk]
           grown == Buffer(memory, size, b.published, b.consumed)
<1>1. IsBuffer(b) /\ Available(b) \in Nat
  BY DEF Good, IsBuffer, Available
<1>2. Reallocated(b, expected) = grown
  BY DEF Reallocated
<1>3. /\ growth \in Nat
      /\ b.published + expected > b.size => growth >= expected
  <2> DEFINE third == b.size \div 3
  <2>1. third \in Nat
    BY <1>1 DEF IsBuffer
  <2>2. growth = LET wanted == IF b.published + expected - b.size < third
                               THEN b.size + third - b.published ELSE expected
                 IN IF wanted < MinChunkSize THEN MinChunkSize ELSE wanted
    BY DEF Growth
  <2>3. Indices(b)
    BY GoodIndices
  <2> HIDE DEF third, growth
  <2> QED
    BY <2>1, <2>2, <2>3, IOBufferAssumption DEF Indices
<1>4. size \in Nat /\ size >= b.published
  <2> HIDE DEF growth
  <2> QED
    BY <1>1, <1>3 DEF IsBuffer
<1>5. memory \in [0 .. size - 1 -> Int]
  <2> HIDE DEF size
  <2> QED
    BY <1>1, <1>4 DEF IsBuffer, Junk
<1>6. \A i \in 0 .. Available(b) - 1 : memory[b.consumed + i] = spot + i
  <2>1. SUFFICES ASSUME NEW i \in 0 .. Available(b) - 1
                 PROVE  memory[b.consumed + i] = spot + i
    OBVIOUS
  <2>2. /\ b.consumed + i \in 0 .. size - 1
        /\ b.consumed + i < b.published
    <3> HIDE DEF size
    <3> QED
      BY <1>1, <1>4, <2>1 DEF IsBuffer, Available
  <2>3. memory[b.consumed + i] = b.memory[b.consumed + i]
    BY <2>2
  <2> QED
    BY <2>1, <2>3 DEF Good
<1>7. /\ grown.size = size /\ grown.published = b.published
      /\ grown.consumed = b.consumed /\ grown.memory = memory
  BY DEF Buffer
<1>8. Available(grown) = Available(b)
  BY <1>7 DEF Available
<1>9. IsBuffer(grown)
  <2> HIDE DEF memory, size
  <2> QED
    BY <1>1, <1>4, <1>5, <1>7 DEF IsBuffer
<1>10. Good(grown, spot)
  <2> HIDE DEF grown, memory, size
  <2> QED
    BY <1>6, <1>7, <1>8, <1>9 DEF Good
<1>11. b.published + expected > b.size =>
         grown.published + expected <= grown.size
  <2> HIDE DEF growth
  <2> QED
    BY <1>1, <1>3, <1>7 DEF IsBuffer
<1> QED
  BY <1>2, <1>8, <1>10, <1>11

\* After EnsureSize there is room behind the unread bytes, and they are kept.
LEMMA EnsureSizeKeeps ==
  ASSUME NEW b, NEW spot \in Nat, Good(b, spot), NEW expected \in Nat
  PROVE  /\ Good(EnsureSize(b, expected), spot)
         /\ Available(EnsureSize(b, expected)) = Available(b)
         /\ EnsureSize(b, expected).published + expected
              <= EnsureSize(b, expected).size
<1>1. IsBuffer(b)
  BY DEF Good
<1>2. CASE b.published + expected <= b.size
  BY <1>2 DEF EnsureSize
<1>3. CASE ~(b.published + expected <= b.size)
  <2> DEFINE moved == MoveData(b)
  <2>1. Good(moved, spot) /\ Available(moved) = Available(b)
    BY MoveDataKeeps
  <2>2. IsBuffer(moved)
    BY <2>1 DEF Good
  <2>3. CASE moved.published + expected <= moved.size
    BY <1>3, <2>1, <2>3 DEF EnsureSize
  <2>4. CASE ~(moved.published + expected <= moved.size)
    <3>1. EnsureSize(b, expected) = Reallocated(moved, expected)
      BY <1>3, <2>4 DEF EnsureSize
    <3>2. moved.published + expected > moved.size
      BY <2>2, <2>4 DEF IsBuffer
    <3> HIDE DEF moved
    <3> QED
      BY <2>1, <3>1, <3>2, ReallocatedKeeps
  <2> QED
    BY <2>3, <2>4
<1> QED
  BY <1>2, <1>3

\* The next bytes of the stream are stored behind the unread ones.
LEMMA StoredKeeps ==
  ASSUME NEW b, NEW spot \in Nat, Good(b, spot), NEW n \in Nat,
         b.published + n <= b.size, written \in Nat,
         written - spot = Available(b)
  PROVE  /\ Good(Stored(b, n), spot)
         /\ Available(Stored(b, n)) = Available(b) + n
<1> DEFINE memory == [i \in DOMAIN b.memory |->
                        IF i >= b.published /\ i < b.published + n
                        THEN written + (i - b.published)
                        ELSE b.memory[i]]
           stored == Buffer(memory, b.size, b.published + n, b.consumed)
<1>1. IsBuffer(b) /\ Available(b) \in Nat
  BY DEF Good, IsBuffer, Available
<1>2. Stored(b, n) = stored
  BY DEF Stored
<1>3. DOMAIN b.memory = 0 .. b.size - 1
  BY <1>1 DEF IsBuffer
<1>4. memory \in [0 .. b.size - 1 -> Int]
  BY SMTT(30), <1>1, <1>3 DEF IsBuffer
<1>5. ASSUME NEW i \in 0 .. Available(b) + n - 1
      PROVE  memory[b.consumed + i] = spot + i
  <2> DEFINE k == b.consumed + i
  <2>1. Indices(b) /\ written = spot + Available(b)
    BY <1>1, GoodIndices DEF Indices
  <2>2. k \in 0 .. b.size - 1
    BY <1>5, <2>1 DEF Indices
  <2>3. memory[k] = IF k >= b.published /\ k < b.published + n
                    THEN written + (k - b.published) ELSE b.memory[k]
    BY <1>3, <2>2
  <2> HIDE DEF memory
  <2>4. CASE i < Available(b)
    <3>1. ~(k >= b.published) /\ i \in 0 .. Available(b) - 1
      BY <1>5, <2>1, <2>4 DEF Indices
    <3>2. b.memory[b.consumed + i] = spot + i
      BY <3>1 DEF Good
    <3> QED
      BY <2>3, <3>1, <3>2
  <2>5. CASE ~(i < Available(b))
    <3>1. /\ k >= b.published /\ k < b.published + n
          /\ written + (k - b.published) = spot + i
      BY <1>5, <2>1, <2>5 DEF Indices
    <3> QED
      BY <2>3, <3>1
  <2> QED
    BY <2>4, <2>5
<1>6. /\ stored.size = b.size /\ stored.published = b.published + n
      /\ stored.consumed = b.consumed /\ stored.memory = memory
  BY DEF Buffer
<1>7. Available(stored) = Available(b) + n
  BY <1>1, <1>6 DEF Available, IsBuffer
<1>8. IsBuffer(stored)
  <2> HIDE DEF memory
  <2> QED
    BY SMTT(30), <1>1, <1>4, <1>6 DEF IsBuffer
<1>9. Good(stored, spot)
  <2> HIDE DEF stored, memory
  <2> QED
    BY <1>5, <1>6, <1>7, <1>8 DEF Good
<1> QED
  BY <1>2, <1>7, <1>9

\* Taking unread bytes moves the spot; an empty buffer starts over.
LEMMA TakenKeeps ==
  ASSUME NEW b, NEW spot \in Nat, Good(b, spot), NEW n \in Nat,
         n <= Available(b)
  PROVE  /\ Good(Recycle(Advanced(b, n)), spot + n)
         /\ Available(Recycle(Advanced(b, n))) = Available(b) - n
<1> DEFINE moved == Advanced(b, n)
           empty == Buffer(b.memory, b.size, 0, 0)
<1>1. IsBuffer(b) /\ Available(b) \in Nat
  BY DEF Good, IsBuffer, Available
<1>2. /\ moved.size = b.size /\ moved.published = b.published
      /\ moved.consumed = b.consumed + n /\ moved.memory = b.memory
      /\ empty.size = b.size /\ empty.published = 0
      /\ empty.consumed = 0 /\ empty.memory = b.memory
      /\ moved = Buffer(moved.memory, moved.size, moved.published, moved.consumed)
      /\ empty = Buffer(empty.memory, empty.size, empty.published, empty.consumed)
  BY DEF Advanced, Buffer
<1>3. Recycle(Advanced(b, n)) =
        IF moved.consumed = moved.published THEN empty ELSE moved
  BY <1>2 DEF Recycle
<1> HIDE DEF moved, empty
<1>4. Good(moved, spot + n) /\ Available(moved) = Available(b) - n
  <2>1. Available(moved) = Available(b) - n
    BY <1>1, <1>2 DEF Available, IsBuffer
  <2>2. IsBuffer(moved)
    BY <1>1, <1>2 DEF IsBuffer, Available
  <2>3. ASSUME NEW i \in 0 .. Available(moved) - 1
        PROVE  moved.memory[moved.consumed + i] = spot + n + i
    <3>1. n + i \in 0 .. Available(b) - 1
      BY <1>1, <2>1, <2>3
    <3>2. b.memory[b.consumed + (n + i)] = spot + (n + i)
      BY <3>1 DEF Good
    <3>3. moved.consumed + i = b.consumed + (n + i)
      BY <1>1, <1>2, <3>1 DEF IsBuffer
    <3> QED
      BY <1>2, <2>3, <3>1, <3>2, <3>3
  <2> QED
    BY <2>1, <2>2, <2>3 DEF Good
<1>5. CASE moved.consumed = moved.published
  <2>1. Available(moved) = 0 /\ Available(empty) = 0
    BY <1>1, <1>2, <1>5 DEF Available, IsBuffer
  <2>2. IsBuffer(empty)
    BY <1>1, <1>2 DEF IsBuffer
  <2>3. Good(empty, spot + n)
    BY <2>1, <2>2 DEF Good
  <2> QED
    BY <1>3, <1>4, <1>5, <2>1, <2>3
<1>6. CASE moved.consumed # moved.published
  BY <1>3, <1>4, <1>6
<1> QED
  BY <1>5, <1>6

-----------------------------------------------------------------------------
LEMMA InitKeeps == IOInit => IOInv
<1> SUFFICES ASSUME IOInit PROVE IOInv
  OBVIOUS
<1> DEFINE memory == [i \in 0 .. -1 |-> Junk]
<1>0. /\ buf.size = 0 /\ buf.published = 0 /\ buf.consumed = 0
      /\ buf.memory = memory
      /\ buf = Buffer(buf.memory, buf.size, buf.published, buf.consumed)
  BY DEF IOInit, Buffer
<1>1. Available(buf) = 0
  BY <1>0 DEF Available
<1>2. IsBuffer(buf)
  <2>1. memory \in [0 .. 0 - 1 -> Int]
    BY DEF Junk
  <2> HIDE DEF memory
  <2> QED
    BY <1>0, <2>1 DEF IsBuffer
<1> QED
  BY <1>1, <1>2 DEF IOInit, IOInv, Good

\* Room is made, then some of the bytes there is room for arrive.
LEMMA FillKeeps ==
  ASSUME IOInv, NEW expected \in Nat, NEW n \in Nat, n <= expected,
         buf' = Stored(EnsureSize(buf, expected), n),
         written' = written + n, UNCHANGED taken
  PROVE  IOInv'
<1> DEFINE b == EnsureSize(buf, expected)
<1>1. Good(b, taken) /\ Available(b) = Available(buf)
      /\ b.published + expected <= b.size
  BY EnsureSizeKeeps DEF IOInv
<1>2. b.published + n <= b.size
  BY <1>1 DEF Good, IsBuffer
<1>3. Available(buf) \in Nat
  BY DEF IOInv, Good, IsBuffer, Available
<1> HIDE DEF b
<1>4. Good(Stored(b, n), taken) /\ Available(Stored(b, n)) = Available(b) + n
  BY <1>1, <1>2, StoredKeeps DEF IOInv
<1>5. buf' = Stored(b, n)
  BY DEF b
<1>6. Good(buf', taken') /\ Available(buf)' = Available(buf) + n
  BY <1>1, <1>4, <1>5 DEF Available
<1> QED
  BY <1>3, <1>6 DEF IOInv

\* Some of the unread bytes are taken.
LEMMA DrainKeeps ==
  ASSUME IOInv, NEW n \in Nat, n <= Available(buf),
         buf' = Recycle(Advanced(buf, n)),
         taken' = taken + n, UNCHANGED written
  PROVE  IOInv'
<1> DEFINE left == Recycle(Advanced(buf, n))
<1>1. Good(left, taken + n) /\ Available(left) = Available(buf) - n
  BY TakenKeeps DEF IOInv
<1>2. Available(buf) \in Nat
  BY DEF IOInv, Good, IsBuffer, Available
<1> HIDE DEF left
<1>3. buf' = left
  BY DEF left
<1>4. Good(buf', taken') /\ Available(buf)' = Available(buf) - n
  BY <1>1, <1>3 DEF Available
<1> QED
  BY <1>2, <1>4 DEF IOInv

LEMMA NextKeeps == IOInv /\ [IONext]_ioVars => IOInv'
<1> SUFFICES ASSUME IOInv, [IONext]_ioVars
             PROVE  IOInv'
  OBVIOUS
<1>1. ASSUME NEW expected \in 1 .. MaxRequest, NEW n \in 0 .. MaxRequest,
             ReadFromFd(expected, n)
      PROVE  IOInv'
  BY <1>1, FillKeeps, IOBufferAssumption DEF ReadFromFd
<1>2. ASSUME NEW n \in 0 .. MaxRequest, ReadFromBuffer(n)
      PROVE  IOInv'
  BY <1>2, FillKeeps, IOBufferAssumption DEF ReadFromBuffer
<1>3. ASSUME NEW expected \in 1 .. MaxRequest, NEW n \in 0 .. MaxRequest,
             WriteToFd(expected, n)
      PROVE  IOInv'
  BY <1>3, DrainKeeps, IOBufferAssumption DEF WriteToFd
<1>4. ASSUME NEW n \in 0 .. MaxRequest, Ignore(n)
      PROVE  IOInv'
  BY <1>4, DrainKeeps, IOBufferAssumption DEF Ignore
<1>5. CASE IgnoreAll
  <2>1. IsBuffer(buf)
    BY DEF IOInv, Good
  <2>2. /\ Available(buf) \in Nat
        /\ buf.published = buf.consumed + Available(buf)
    BY <2>1 DEF IsBuffer, Available
  <2> QED
    BY <1>5, <2>2, DrainKeeps DEF IgnoreAll
<1>6. CASE CallMoveData
  <2>1. Good(MoveData(buf), taken) /\ Available(MoveData(buf)) = Available(buf)
    BY MoveDataKeeps DEF IOInv
  <2>2. buf' = MoveData(buf) /\ written' = written /\ taken' = taken
    BY <1>6 DEF CallMoveData
  <2>3. Good(buf', taken') /\ Available(buf)' = Available(buf)
    BY <2>1, <2>2 DEF Available
  <2> QED
    BY <2>2, <2>3 DEF IOInv
<1>7. CASE UNCHANGED ioVars
  BY <1>7 DEF ioVars, IOInv, Good, IsBuffer, Available
<1> QED
  BY <1>1, <1>2, <1>3, <1>4, <1>5, <1>6, <1>7 DEF IONext

\* IOInv, the inductive invariant: a well-formed buffer whose unread part is
\* what was written and not taken (iobuffer.cpp).
THEOREM BufferInvariant == IOSpec => []IOInv
BY InitKeeps, NextKeeps, PTL DEF IOSpec

\* UnreadKept: no call loses, repeats or exchanges an unread byte, and the
\* indices stay in order and in the block (iobuffer.cpp, all of it).
THEOREM UnreadBytesAreKept == IOSpec => []UnreadKept
<1>1. IOInv => UnreadKept
  BY DEF IOInv, Good, IsBuffer, UnreadKept, Sanity
<1> QED
  BY <1>1, BufferInvariant, PTL

\* IOTypeOK: the fields of the buffer keep their types (iobuffer.h).
THEOREM BufferTypes == IOSpec => []IOTypeOK
<1>1. IOInv => IOTypeOK
  BY DEF IOInv, Good, IsBuffer, IOTypeOK
<1> QED
  BY <1>1, BufferInvariant, PTL

-----------------------------------------------------------------------------
(***************************************************************************)
(* MmapWindow: whatever the size of a page, of the file, of                *)
(* the window and of a read, a read that is legal is served exactly.  The  *)
(* invariant is inductive with the types: that a window has the range it   *)
(* is mapped for (MapsTheRange) is what each read rests on, and not a fact *)
(* about the windows of earlier reads.                                     *)
(***************************************************************************)

Pointer == [cursor : Nat, size : Nat]

\* The cursor lies in the file; the windows are ranges of it.
MmapTypes ==
  /\ place \in 0 .. FileSize /\ failed \in BOOLEAN
  /\ pointers \in [{1, 2} -> Pointer]
  /\ DOMAIN served = {"from", "count", "ok", "bytes"}
  /\ served.ok \in BOOLEAN

MmapInv == MmapTypes /\ ReadsExact

-----------------------------------------------------------------------------
(* Pages and windows. *)

\* The page of a position does not begin behind it.
LEMMA RoundsDown ==
  ASSUME NEW p \in Nat, NEW d \in Nat \ {0}
  PROVE  (p \div d) * d \in Nat /\ (p \div d) * d <= p
OBVIOUS

\* As many pages as it takes are not less than what is asked for.
LEMMA RoundsUp ==
  ASSUME NEW p \in Nat, NEW d \in Nat \ {0}
  PROVE  ((p + d - 1) \div d) * d \in Nat /\ ((p + d - 1) \div d) * d >= p
OBVIOUS

LEMMA WindowHolds == Window \in Nat /\ Window >= WindowSize
BY RoundsUp, MmapAssumption DEF Window

LEMMA ExtensionReaches ==
  ASSUME NEW first \in Nat, NEW wanted \in Nat
  PROVE  /\ Extension(first, wanted) \in Nat
         /\ first + Window + Extension(first, wanted) >= wanted
<1>1. CASE first + Window >= wanted
  BY <1>1, WindowHolds DEF Extension
<1>2. CASE ~(first + Window >= wanted)
  <2>1. wanted - first - Window \in Nat
    BY <1>2, WindowHolds
  <2> DEFINE x == wanted - first - Window
  <2>2. ((x + PageSize - 1) \div PageSize) * PageSize \in Nat
        /\ ((x + PageSize - 1) \div PageSize) * PageSize >= x
    BY <2>1, RoundsUp, MmapAssumption
  <2>3. Extension(first, wanted) = ((x + PageSize - 1) \div PageSize) * PageSize
    BY <1>2 DEF Extension
  <2>4. Extension(first, wanted) \in Nat /\ Extension(first, wanted) >= x
    BY <2>2, <2>3
  <2> QED BY <2>4, WindowHolds
<1> QED BY <1>1, <1>2

\* MmapPointer::Allocate: the new window has all that it is mapped for.
LEMMA MapsTheRange ==
  ASSUME NEW position \in Nat, NEW count \in Nat
  PROVE  /\ Allocate(position, count) \in Pointer
         /\ HasRange(Allocate(position, count), position, count)
<1> DEFINE first == (position \div PageSize) * PageSize
<1>1. first \in Nat /\ first <= position
  BY RoundsDown, MmapAssumption
<1>2. Allocate(position, count) =
        [cursor |-> first, size |-> Window + Extension(first, position + count)]
  BY DEF Allocate
<1> HIDE DEF first
<1>3. /\ Extension(first, position + count) \in Nat
      /\ first + Window + Extension(first, position + count) >= position + count
  BY <1>1, ExtensionReaches
<1>4. Allocate(position, count) \in Pointer
  BY <1>1, <1>2, <1>3, WindowHolds DEF Pointer
<1>5. HasRange(Allocate(position, count), position, count)
  BY <1>1, <1>2, <1>3, WindowHolds DEF HasRange
<1> QED BY <1>4, <1>5

\* MmapPointer::Copy: a window that has the range gives the bytes of it.
LEMMA CopiesTheRange ==
  ASSUME NEW pointer \in Pointer, NEW position \in Nat, NEW count \in Nat,
         HasRange(pointer, position, count)
  PROVE  Copy(pointer, position, count) = [i \in 0 .. count - 1 |-> position + i]
<1>1. pointer.cursor \in Nat /\ pointer.size \in Nat
  BY DEF Pointer
<1>2. ~(count > pointer.cursor + pointer.size - position)
  BY <1>1 DEF HasRange
<1>3. Copy(pointer, position, count) =
        [i \in 0 .. count - 1 |-> pointer.cursor + (position - pointer.cursor) + i]
  BY <1>2 DEF Copy
<1>4. \A i \in 0 .. count - 1 :
        pointer.cursor + (position - pointer.cursor) + i = position + i
  BY <1>1
<1> QED BY <1>3, <1>4

-----------------------------------------------------------------------------
(* The steps. *)

LEMMA InitIsExact == MmapInit => MmapInv
<1> SUFFICES ASSUME MmapInit PROVE MmapInv
  OBVIOUS
<1>1. MmapTypes
  <2>1. [i \in {1, 2} |-> Freed] \in [{1, 2} -> Pointer]
    BY DEF Pointer, Freed
  <2>2. place \in 0 .. FileSize
    BY MmapAssumption DEF MmapInit
  <2>3. failed \in BOOLEAN
    BY DEF MmapInit
  <2>4. DOMAIN served = {"from", "count", "ok", "bytes"} /\ served.ok \in BOOLEAN
    BY DEF MmapInit
  <2> QED BY <2>1, <2>2, <2>3, <2>4 DEF MmapInit, MmapTypes
<1>2. ReadsExact
  BY MmapAssumption, WindowHolds DEF MmapInit, ReadsExact
<1> QED BY <1>1, <1>2 DEF MmapInv

\* A read that fails must be one that is not legal.
LEMMA FailIsExact ==
  ASSUME MmapInv, NEW count \in Nat, Refuses(count), Fail(count),
         UNCHANGED <<place, pointers>>
  PROVE  MmapInv'
<1> USE DEF MmapInv
<1>1. MmapTypes'
  BY DEF MmapTypes, Fail
<1>2. ReadsExact'
  BY WindowHolds, MmapAssumption DEF ReadsExact, Fail, Refuses, MmapTypes
<1> QED BY <1>1, <1>2

LEMMA PeekIsExact ==
  ASSUME MmapInv, NEW count \in Nat, NEW advance \in BOOLEAN, Peek(count, advance)
  PROVE  MmapInv'
<1> USE DEF MmapInv
<1>1. place \in Nat /\ place + count <= FileSize /\ count <= Window /\ ~failed
  BY WindowHolds, MmapAssumption DEF Peek, Refuses, MmapTypes
<1> DEFINE which == Chosen(place, count)
           pointer == IF HasRange(pointers[which], place, count)
                      THEN pointers[which] ELSE Allocate(place, count)
           bytes == Copy(pointer, place, count)
<1>2. which \in {1, 2}
  BY DEF Chosen
<1>3. pointers[which] \in Pointer
  BY <1>2 DEF MmapTypes
<1>4. pointer \in Pointer /\ HasRange(pointer, place, count)
  BY <1>1, <1>3, MapsTheRange
<1>5. pointers' = [pointers EXCEPT ![which] = pointer]
  BY DEF Peek
<1>6. DOMAIN bytes = 0 .. count - 1 =>
        /\ served' = [from |-> place, count |-> count, ok |-> TRUE, bytes |-> bytes]
        /\ place' = IF advance THEN place + count ELSE place
        /\ UNCHANGED failed
  BY DEF Peek
<1> HIDE DEF which, pointer
<1>7. bytes = [i \in 0 .. count - 1 |-> place + i]
  BY <1>1, <1>4, CopiesTheRange
<1>8. /\ served' = [from |-> place, count |-> count, ok |-> TRUE, bytes |-> bytes]
      /\ place' = IF advance THEN place + count ELSE place
      /\ UNCHANGED failed
  BY <1>6, <1>7
<1>9. pointers' \in [{1, 2} -> Pointer]
  BY <1>4, <1>5 DEF MmapTypes
<1>10. place' \in 0 .. FileSize
  BY <1>1, <1>8, MmapAssumption DEF MmapTypes
<1>11. MmapTypes'
  BY <1>8, <1>9, <1>10 DEF MmapTypes
<1>12. served'.from = place /\ served'.count = count /\ served'.ok /\ served'.bytes = bytes
  BY <1>8
<1>13. ReadsExact'
  BY <1>1, <1>7, <1>12 DEF ReadsExact, Window
<1> QED BY <1>11, <1>13

LEMMA MmapFailsIsExact ==
  ASSUME MmapInv, NEW count \in Nat, MmapFails(count)
  PROVE  MmapInv'
<1> USE DEF MmapInv
<1>1. place \in Nat
  BY MmapAssumption DEF MmapTypes
<1>2. PICK which \in {1, 2} :
        pointers' = [pointers EXCEPT ![which] = Allocate(place, count)]
  BY DEF MmapFails, Chosen
<1>3. Allocate(place, count) \in Pointer
  BY <1>1, MapsTheRange
<1>4. pointers' \in [{1, 2} -> Pointer]
  BY <1>2, <1>3 DEF MmapTypes
<1>5. MmapTypes'
  BY <1>4 DEF MmapTypes, MmapFails
<1>6. ReadsExact'
  BY DEF MmapFails, ReadsExact, Window
<1> QED BY <1>5, <1>6

LEMMA SeekIsExact ==
  ASSUME MmapInv, NEW position \in Int, SeekTo(position)
  PROVE  MmapInv'
<1> USE DEF MmapInv
<1>1. MmapTypes'
  <2>1. UNCHANGED <<pointers, served>>
    BY DEF SeekTo
  <2>2. place' \in 0 .. FileSize /\ failed' \in BOOLEAN
    <3>1. CASE position < 0 \/ position > FileSize
      BY <3>1 DEF MmapTypes, SeekTo
    <3>2. CASE ~(position < 0 \/ position > FileSize)
      BY <3>2, MmapAssumption DEF MmapTypes, SeekTo
    <3> QED BY <3>1, <3>2
  <2> QED BY <2>1, <2>2 DEF MmapTypes
<1>2. ReadsExact'
  BY DEF SeekTo, ReadsExact, Window
<1> QED BY <1>1, <1>2

LEMMA StepIsExact == MmapInv /\ [MmapNext]_mmapVars => MmapInv'
<1> SUFFICES ASSUME MmapInv, [MmapNext]_mmapVars PROVE MmapInv'
  OBVIOUS
<1>1. place \in Int /\ FileSize \in Nat /\ MaxRead \in Nat
  BY MmapAssumption DEF MmapInv, MmapTypes
<1>2. ASSUME NEW count \in 1 .. MaxRead, PeekRefused(count) PROVE MmapInv'
  <2>1. count \in Nat
    BY <1>1
  <2> QED BY <1>2, <2>1, FailIsExact DEF PeekRefused
<1>3. ASSUME NEW count \in 1 .. MaxRead, MmapFails(count) PROVE MmapInv'
  <2>1. count \in Nat
    BY <1>1
  <2> QED BY <1>3, <2>1, MmapFailsIsExact
<1>4. ASSUME NEW count \in 1 .. MaxRead, NEW advance \in BOOLEAN, Peek(count, advance)
      PROVE MmapInv'
  <2>1. count \in Nat
    BY <1>1
  <2> QED BY <1>4, <2>1, PeekIsExact
<1>5. ASSUME NEW position \in Int, SeekTo(position) PROVE MmapInv'
  BY <1>5, SeekIsExact
<1>6. ASSUME NEW count \in 1 .. MaxRead,
             SeekTo(place - count) \/ SeekTo(place + count)
      PROVE MmapInv'
  <2>1. place - count \in Int /\ place + count \in Int
    BY <1>1
  <2> QED BY <1>5, <1>6, <2>1
<1>7. ASSUME NEW position \in {0, FileSize - 1} \cup 0 .. FileSize + 1, SeekTo(position)
      PROVE MmapInv'
  <2>1. position \in Int
    BY <1>1
  <2> QED BY <1>5, <1>7, <2>1
<1>8. CASE UNCHANGED mmapVars
  <2>1. UNCHANGED place /\ UNCHANGED failed /\ UNCHANGED pointers /\ UNCHANGED served
    BY <1>8 DEF mmapVars
  <2>2. MmapTypes' /\ ReadsExact'
    BY <2>1 DEF MmapInv, MmapTypes, ReadsExact, Window
  <2> QED BY <2>2 DEF MmapInv
<1> QED BY <1>2, <1>3, <1>4, <1>6, <1>7, <1>8 DEF MmapNext

-----------------------------------------------------------------------------
(* The theorems. *)

\* The types of the windows, and exact reads, in every behaviour.
THEOREM MmapInvariant == MmapSpec => []MmapInv
BY InitIsExact, StepIsExact, PTL DEF MmapSpec

\* In whatever order a file is read and moved in, a read inside the file that the
\* window can hold gets exactly the bytes at the cursor, and any other is refused
\* (MmapFile::PeekBuffer, mmapfile.cpp:403-456).
THEOREM ReadsAreExact == MmapSpec => []ReadsExact
<1>1. MmapInv => ReadsExact
  BY DEF MmapInv
<1> QED BY <1>1, MmapInvariant, PTL

-----------------------------------------------------------------------------
(***************************************************************************)
(* Recordings: for any number of players, recordings and                   *)
(* frames, the shared descriptors are counted right and the table a player *)
(* reads with describes its file, with the two exceptions of the property. *)
(*                                                                         *)
(* TablesDescribeFiles is not inductive: it says nothing of the table on   *)
(* the disk, which the next player opens.  DiskHolds adds that a table     *)
(* that is newer than the file was made from what the file is now, and     *)
(* that no file is of the future; OpenHolds that a descriptor which is     *)
(* open already was right when it was opened, and that all who read have   *)
(* what is behind it.                                                      *)
(***************************************************************************)

MediaFile == [content : Nat, frames : Nat, mtime : Nat]
TableFile == [content : Nat, frames : Nat, mtime : Nat, shared : BOOLEAN]
MediaEntry == [content : Nat, frames : Nat, useCount : Nat]
SeekEntry == [table : TableFile, useCount : Nat, sameSecond : BOOLEAN]
Recorder == [content : Nat, pending : Nat, unflushed : Nat]

RecTypes ==
  /\ now \in Nat /\ recordings \in Nat
  /\ media \in MediaFile \cup {None}
  /\ seekTable \in TableFile \cup {None}
  /\ recorder \in Recorder \cup {None}
  /\ mediaFd \in MediaEntry \cup {None}
  /\ seekFd \in SeekEntry \cup {None}
  /\ DOMAIN players = Players

\* The table was made of what the file is now, unless it was through an old
\* descriptor.
MadeOf(table, file) ==
  \/ table.shared
  \/ table.content = file.content /\ table.frames = file.frames

\* No file is of the future, and a table newer than the file was made of it.
DiskHolds ==
  /\ media # None => media.mtime <= now
  /\ seekTable # None => seekTable.mtime <= now
  /\ media # None /\ seekTable # None /\ seekTable.mtime > media.mtime =>
       MadeOf(seekTable, media)

\* What a reader has who opened these two.
OpenedOf(file, table) ==
  [table |-> table.table,
   file |-> [content |-> file.content, frames |-> file.frames],
   sameSecond |-> table.sameSecond]

Describes(file, table) ==
  \/ table.sameSecond \/ table.table.shared
  \/ table.table.content = file.content /\ table.table.frames <= file.frames

OpenHolds ==
  /\ IsFiniteSet(Readers)
  /\ Readers = {} <=> mediaFd = None
  /\ Readers = {} <=> seekFd = None
  /\ Readers # {} =>
       /\ mediaFd.useCount = Cardinality(Readers)
       /\ seekFd.useCount = Cardinality(Readers)
       /\ Describes(mediaFd, seekFd)
  /\ \A p \in Readers : players[p] = OpenedOf(mediaFd, seekFd)

RecInv == RecTypes /\ DiskHolds /\ OpenHolds

-----------------------------------------------------------------------------
(* Nothing that is there is None. *)

LEMMA Something ==
  /\ \A x \in MediaFile : x # None
  /\ \A x \in TableFile : x # None
  /\ \A x \in MediaEntry : x # None
  /\ \A x \in SeekEntry : x # None
  /\ \A x \in Recorder : x # None
BY DEF MediaFile, TableFile, MediaEntry, SeekEntry, Recorder, None

LEMMA OpenedIsSomething ==
  ASSUME NEW file, NEW table
  PROVE  OpenedOf(file, table) # None
BY DEF OpenedOf, None

\* BaseMediaDocument::Process: who reads the name reads the same.
LEMMA OpensWhatIsThere ==
  ASSUME RecTypes, media # None
  PROVE  /\ OpenedMedia \in MediaEntry
         /\ mediaFd = None => /\ OpenedMedia.content = media.content
                              /\ OpenedMedia.frames = media.frames
                              /\ OpenedMedia.useCount = 1
         /\ mediaFd # None => /\ OpenedMedia.content = mediaFd.content
                              /\ OpenedMedia.frames = mediaFd.frames
                              /\ OpenedMedia.useCount = mediaFd.useCount + 1
<1>1. media \in MediaFile
  BY DEF RecTypes
<1>2. CASE mediaFd = None
  <2>1. OpenedMedia = [content |-> media.content, frames |-> media.frames, useCount |-> 1]
    BY <1>2 DEF OpenedMedia
  <2> QED BY <1>1, <1>2, <2>1 DEF MediaFile, MediaEntry
<1>3. CASE mediaFd # None
  <2>1. OpenedMedia = [mediaFd EXCEPT !.useCount = @ + 1]
    BY <1>3 DEF OpenedMedia
  <2>2. mediaFd \in MediaEntry
    BY <1>3 DEF RecTypes
  <2> QED BY <1>3, <2>1, <2>2 DEF MediaEntry
<1> QED BY <1>2, <1>3

LEMMA OpensSeek ==
  ASSUME RecTypes, media # None, NEW file \in TableFile
  PROVE  /\ OpenedSeek(file) \in SeekEntry
         /\ seekFd = None =>
              OpenedSeek(file) = [table |-> file, useCount |-> 1,
                                  sameSecond |-> file.mtime = media.mtime]
         /\ seekFd # None => /\ OpenedSeek(file).table = seekFd.table
                             /\ OpenedSeek(file).sameSecond = seekFd.sameSecond
                             /\ OpenedSeek(file).useCount = seekFd.useCount + 1
<1>1. CASE seekFd = None
  <2>1. OpenedSeek(file) = [table |-> file, useCount |-> 1,
                            sameSecond |-> file.mtime = media.mtime]
    BY <1>1 DEF OpenedSeek
  <2>2. (file.mtime = media.mtime) \in BOOLEAN
    OBVIOUS
  <2> QED BY <1>1, <2>1, <2>2 DEF SeekEntry
<1>2. CASE seekFd # None
  <2>1. OpenedSeek(file) = [seekFd EXCEPT !.useCount = @ + 1]
    BY <1>2 DEF OpenedSeek
  <2>2. seekFd \in SeekEntry
    BY <1>2 DEF RecTypes
  <2> QED BY <1>2, <2>1, <2>2 DEF SeekEntry
<1> QED BY <1>1, <1>2

LEMMA GeneratedIsOfTheFile ==
  ASSUME RecTypes, media # None
  PROVE  /\ Generated \in TableFile /\ Generated.mtime = now
         /\ MadeOf(Generated, media)
         /\ mediaFd = None => /\ Generated.content = media.content
                              /\ Generated.frames = media.frames
<1>1. OpenedMedia \in MediaEntry
  BY OpensWhatIsThere
<1> DEFINE shared == \/ OpenedMedia.content # media.content
                     \/ OpenedMedia.frames # media.frames
<1>2. Generated = [content |-> OpenedMedia.content, frames |-> OpenedMedia.frames,
                   mtime |-> now, shared |-> shared]
  BY DEF Generated
<1>3. shared \in BOOLEAN
  OBVIOUS
<1>4. OpenedMedia.content \in Nat /\ OpenedMedia.frames \in Nat /\ now \in Nat
  BY <1>1 DEF MediaEntry, RecTypes
<1>5. /\ Generated.content = OpenedMedia.content
      /\ Generated.frames = OpenedMedia.frames
      /\ Generated.mtime = now /\ Generated.shared = shared
  BY <1>2
<1>6. MadeOf(Generated, media)
  BY <1>5 DEF MadeOf
<1> HIDE DEF shared
<1>7. Generated \in TableFile
  BY <1>2, <1>3, <1>4 DEF TableFile
<1> QED BY <1>5, <1>6, <1>7, OpensWhatIsThere

-----------------------------------------------------------------------------
(* Opening and closing. *)

\* A player opens the file with a table that is right for it, or that an earlier
\* reader has open.
LEMMA OpeningHolds ==
  ASSUME RecTypes, OpenHolds, media # None, NEW file \in TableFile,
         NEW p \in Players, players[p] = None, OpensWith(p, file),
         mediaFd = None => \/ file.mtime = media.mtime
                           \/ file.shared
                           \/ /\ file.content = media.content
                              /\ file.frames <= media.frames
  PROVE  /\ mediaFd' \in MediaEntry /\ seekFd' \in SeekEntry
         /\ DOMAIN players' = Players /\ OpenHolds'
<1>1. mediaFd' = OpenedMedia /\ seekFd' = OpenedSeek(file)
  BY DEF OpensWith
<1>2. mediaFd' \in MediaEntry /\ seekFd' \in SeekEntry
  BY <1>1, OpensWhatIsThere, OpensSeek
<1>3. players' = [players EXCEPT ![p] = OpenedOf(mediaFd', seekFd')]
  BY DEF OpensWith, OpenedOf
<1>4. DOMAIN players' = Players
  BY <1>3 DEF RecTypes
<1>5. /\ players'[p] = OpenedOf(mediaFd', seekFd')
      /\ \A q \in Players \ {p} : players'[q] = players[q]
  BY <1>3 DEF RecTypes
<1>6. Readers' = Readers \cup {p} /\ p \notin Readers
  BY <1>5, OpenedIsSomething DEF Readers
<1>7. IsFiniteSet(Readers) /\ Cardinality(Readers) \in Nat
  BY FS_CardinalityType DEF OpenHolds
<1>8. IsFiniteSet(Readers') /\ Cardinality(Readers') = Cardinality(Readers) + 1
  BY <1>6, <1>7, FS_AddElement
<1>9. mediaFd' # None /\ seekFd' # None /\ Readers' # {}
  BY <1>2, <1>6, Something
<1>10. CASE Readers = {}
  <2>1. mediaFd = None /\ seekFd = None /\ Cardinality(Readers) = 0
    BY <1>10, FS_EmptySet DEF OpenHolds
  <2>2. /\ mediaFd'.content = media.content /\ mediaFd'.frames = media.frames
        /\ mediaFd'.useCount = 1
    BY <1>1, <2>1, OpensWhatIsThere
  <2>3. seekFd' = [table |-> file, useCount |-> 1, sameSecond |-> file.mtime = media.mtime]
    BY <1>1, <2>1, OpensSeek
  <2>4. Describes(mediaFd', seekFd')
    BY <2>1, <2>2, <2>3 DEF Describes
  <2>5. \A q \in Readers' : players'[q] = OpenedOf(mediaFd', seekFd')
    BY <1>5, <1>6, <1>10
  <2>6. seekFd'.useCount = 1
    BY <2>3
  <2> QED BY <1>2, <1>4, <1>8, <1>9, <2>1, <2>2, <2>4, <2>5, <2>6 DEF OpenHolds
<1>11. CASE Readers # {}
  <2>1. /\ mediaFd # None /\ seekFd # None
        /\ mediaFd.useCount = Cardinality(Readers)
        /\ seekFd.useCount = Cardinality(Readers)
        /\ Describes(mediaFd, seekFd)
        /\ \A q \in Readers : players[q] = OpenedOf(mediaFd, seekFd)
    BY <1>11 DEF OpenHolds
  <2>2. /\ mediaFd'.content = mediaFd.content /\ mediaFd'.frames = mediaFd.frames
        /\ mediaFd'.useCount = mediaFd.useCount + 1
    BY <1>1, <2>1, OpensWhatIsThere
  <2>3. /\ seekFd'.table = seekFd.table /\ seekFd'.sameSecond = seekFd.sameSecond
        /\ seekFd'.useCount = seekFd.useCount + 1
    BY <1>1, <2>1, OpensSeek
  <2>4. Describes(mediaFd', seekFd') /\ OpenedOf(mediaFd', seekFd') = OpenedOf(mediaFd, seekFd)
    BY <2>1, <2>2, <2>3 DEF Describes, OpenedOf
  <2>5. \A q \in Readers : q \in Players \ {p}
    BY <1>6 DEF Readers
  <2>6. \A q \in Readers' : players'[q] = OpenedOf(mediaFd', seekFd')
    BY <1>5, <1>6, <2>1, <2>4, <2>5
  <2>7. /\ mediaFd'.useCount = Cardinality(Readers')
        /\ seekFd'.useCount = Cardinality(Readers')
    BY <1>8, <2>1, <2>2, <2>3
  <2> QED BY <1>2, <1>4, <1>8, <1>9, <2>4, <2>6, <2>7 DEF OpenHolds
<1> QED BY <1>10, <1>11

\* MmapFile::Free: the entry goes with its last reader.
LEMMA LeavingHolds ==
  ASSUME RecInv, NEW p \in Players, Leave(p)
  PROVE  RecInv'
<1> USE DEF RecInv
<1>1. /\ players[p] # None /\ players' = [players EXCEPT ![p] = None]
      /\ mediaFd' = Released(mediaFd) /\ seekFd' = Released(seekFd)
      /\ UNCHANGED <<media, seekTable, meta, recorder, now, recordings>>
  BY DEF Leave
<1>2. /\ DOMAIN players' = Players /\ players'[p] = None
      /\ \A q \in Players \ {p} : players'[q] = players[q]
  BY <1>1 DEF RecTypes
<1>3. Readers' = Readers \ {p} /\ p \in Readers
  BY <1>1, <1>2 DEF Readers
<1>4. /\ mediaFd # None /\ seekFd # None
      /\ mediaFd.useCount = Cardinality(Readers)
      /\ seekFd.useCount = Cardinality(Readers)
      /\ Describes(mediaFd, seekFd)
      /\ \A q \in Readers : players[q] = OpenedOf(mediaFd, seekFd)
  BY <1>3 DEF OpenHolds
<1>5. mediaFd \in MediaEntry /\ seekFd \in SeekEntry
  BY <1>4 DEF RecTypes
<1>6. IsFiniteSet(Readers) /\ Cardinality(Readers) \in Nat
  BY FS_CardinalityType DEF OpenHolds
<1>7. IsFiniteSet(Readers') /\ Cardinality(Readers') = Cardinality(Readers) - 1
  BY <1>3, <1>6, FS_RemoveElement
<1>8. (Readers' = {}) <=> (Cardinality(Readers) = 1)
  <2>1. Cardinality(Readers') = 0 <=> Readers' = {}
    BY <1>7, FS_EmptySet
  <2> QED BY <1>6, <1>7, <2>1
<1>9. DiskHolds'
  BY <1>1 DEF DiskHolds, MadeOf
<1>10. CASE Cardinality(Readers) = 1
  <2>1. mediaFd' = None /\ seekFd' = None /\ Readers' = {}
    BY <1>1, <1>4, <1>8, <1>10 DEF Released
  <2>2. RecTypes'
    BY <1>1, <1>2, <2>1 DEF RecTypes
  <2>3. OpenHolds'
    BY <1>7, <2>1 DEF OpenHolds
  <2> QED BY <1>9, <2>2, <2>3
<1>11. CASE Cardinality(Readers) # 1
  <2>1. /\ mediaFd' = [mediaFd EXCEPT !.useCount = @ - 1]
        /\ seekFd' = [seekFd EXCEPT !.useCount = @ - 1]
    BY <1>1, <1>4, <1>11 DEF Released
  <2>2. Cardinality(Readers) >= 1
    <3>1. Cardinality(Readers) = 0 => Readers = {}
      BY <1>6, FS_EmptySet
    <3> QED BY <1>3, <1>6, <3>1
  <2>3. /\ mediaFd' \in MediaEntry
        /\ mediaFd'.content = mediaFd.content /\ mediaFd'.frames = mediaFd.frames
        /\ mediaFd'.useCount = mediaFd.useCount - 1
    BY <1>4, <1>5, <1>6, <2>1, <2>2 DEF MediaEntry
  <2>4. /\ seekFd' \in SeekEntry
        /\ seekFd'.table = seekFd.table /\ seekFd'.sameSecond = seekFd.sameSecond
        /\ seekFd'.useCount = seekFd.useCount - 1
    BY <1>4, <1>5, <1>6, <2>1, <2>2 DEF SeekEntry
  <2>5. mediaFd' # None /\ seekFd' # None /\ Readers' # {}
    BY <1>8, <1>11, <2>3, <2>4, Something
  <2>6. Describes(mediaFd', seekFd') /\ OpenedOf(mediaFd', seekFd') = OpenedOf(mediaFd, seekFd)
    BY <1>4, <2>3, <2>4 DEF Describes, OpenedOf
  <2>7. \A q \in Readers' : q \in Readers /\ q \in Players \ {p}
    BY <1>3 DEF Readers
  <2>8. \A q \in Readers' : players'[q] = OpenedOf(mediaFd', seekFd')
    BY <1>2, <1>4, <2>6, <2>7
  <2>9. /\ mediaFd'.useCount = Cardinality(Readers')
        /\ seekFd'.useCount = Cardinality(Readers')
    BY <1>4, <1>7, <2>3, <2>4
  <2>10. OpenHolds'
    BY <1>7, <2>5, <2>6, <2>8, <2>9 DEF OpenHolds
  <2>11. RecTypes'
    BY <1>1, <1>2, <2>3, <2>4 DEF RecTypes
  <2> QED BY <1>9, <2>10, <2>11
<1> QED BY <1>10, <1>11

-----------------------------------------------------------------------------
(* The steps that leave the descriptors alone. *)

LEMMA OpenHoldsStays ==
  ASSUME OpenHolds, UNCHANGED <<mediaFd, seekFd, players>>
  PROVE  OpenHolds'
<1>1. Readers' = Readers
  BY DEF Readers
<1> QED BY <1>1 DEF OpenHolds, Describes, OpenedOf

\* What the disk has once a file is there that was changed just now.
LEMMA DiskHoldsAfterChange ==
  ASSUME RecTypes, RecTypes', DiskHolds, UNCHANGED <<seekTable, now>>,
         media' # None => media'.mtime = now
  PROVE  DiskHolds'
<1>1. now \in Nat
  BY DEF RecTypes
<1>2. seekTable # None => seekTable.mtime \in Nat /\ seekTable.mtime <= now
  BY DEF RecTypes, TableFile, DiskHolds
<1>3. ~(media' # None /\ seekTable # None /\ seekTable.mtime > media'.mtime)
  BY <1>1, <1>2
<1> QED BY <1>1, <1>2, <1>3 DEF DiskHolds

LEMMA StartRecordingHolds ==
  ASSUME RecInv, StartRecording
  PROVE  RecInv'
<1> USE DEF RecInv
<1>1. /\ recordings' = recordings + 1
      /\ media' = [content |-> recordings', frames |-> 0, mtime |-> now]
      /\ recorder' = [content |-> recordings', pending |-> 0, unflushed |-> 0]
      /\ UNCHANGED <<seekTable, mediaFd, seekFd, players, now>>
  BY DEF StartRecording
<1>2. media' \in MediaFile /\ recorder' \in Recorder /\ recordings' \in Nat
  BY <1>1 DEF RecTypes, MediaFile, Recorder
<1>3. RecTypes'
  BY <1>1, <1>2 DEF RecTypes
<1>4. media'.mtime = now
  BY <1>1
<1>5. DiskHolds'
  BY <1>1, <1>3, <1>4, DiskHoldsAfterChange
<1> QED BY <1>1, <1>3, <1>5, OpenHoldsStays

LEMMA FeedRecorderHolds ==
  ASSUME RecInv, FeedRecorder
  PROVE  RecInv'
<1> USE DEF RecInv
<1>1. recorder \in Recorder
  BY DEF FeedRecorder, RecTypes
<1>2. /\ recorder' = IF recorder.pending + 1 < MessagePieces
                     THEN [recorder EXCEPT !.pending = @ + 1]
                     ELSE [recorder EXCEPT !.pending = 0, !.unflushed = @ + 1]
      /\ UNCHANGED <<media, seekTable, meta, mediaFd, seekFd, players, now, recordings>>
  BY DEF FeedRecorder
<1>3. recorder' \in Recorder
  <2>1. recorder.pending + 1 \in Nat /\ recorder.unflushed + 1 \in Nat
    BY <1>1 DEF Recorder
  <2>2. CASE recorder.pending + 1 < MessagePieces
    <3>1. recorder' = [recorder EXCEPT !.pending = recorder.pending + 1]
      BY <1>2, <2>2
    <3> QED BY <1>1, <2>1, <3>1 DEF Recorder
  <2>3. CASE ~(recorder.pending + 1 < MessagePieces)
    <3>1. recorder' = [recorder EXCEPT !.pending = 0, !.unflushed = recorder.unflushed + 1]
      BY <1>2, <2>3
    <3> QED BY <1>1, <2>1, <3>1 DEF Recorder
  <2> QED BY <2>2, <2>3
<1>4. RecTypes'
  BY <1>2, <1>3 DEF RecTypes
<1>5. DiskHolds'
  BY <1>2 DEF DiskHolds, MadeOf
<1> QED BY <1>2, <1>4, <1>5, OpenHoldsStays

\* What reaches the file changes it now, or nothing does.
LEMMA FlushedIsNow ==
  ASSUME RecTypes, recorder # None
  PROVE  \/ Flushed = media
         \/ Flushed \in MediaFile /\ Flushed.mtime = now
<1>1. CASE recorder.unflushed > 0 /\ media # None /\ media.content = recorder.content
  <2>1. media \in MediaFile /\ recorder \in Recorder /\ now \in Nat
    BY <1>1 DEF RecTypes
  <2>2. Flushed = [media EXCEPT !.frames = @ + recorder.unflushed, !.mtime = now]
    BY <1>1 DEF Flushed
  <2>3. media.frames + recorder.unflushed \in Nat
    BY <2>1 DEF MediaFile, Recorder
  <2>4. Flushed = [media EXCEPT !.frames = media.frames + recorder.unflushed, !.mtime = now]
    BY <2>2
  <2>5. Flushed \in MediaFile /\ Flushed.mtime = now
    BY <2>1, <2>3, <2>4 DEF MediaFile
  <2> QED BY <2>5
<1>2. CASE ~(recorder.unflushed > 0 /\ media # None /\ media.content = recorder.content)
  BY <1>2 DEF Flushed
<1> QED BY <1>1, <1>2

LEMMA FlushHolds ==
  ASSUME RecInv, Flush \/ StopRecording
  PROVE  RecInv'
<1> USE DEF RecInv
<1>1. /\ recorder # None /\ media' = Flushed
      /\ UNCHANGED <<seekTable, meta, mediaFd, seekFd, players, now, recordings>>
  BY DEF Flush, StopRecording
<1>2. recorder' \in Recorder \cup {None}
  <2>1. CASE Flush
    <3>1. recorder \in Recorder /\ recorder' = [recorder EXCEPT !.unflushed = 0]
      BY <1>1, <2>1 DEF RecTypes, Flush
    <3> QED BY <3>1 DEF Recorder
  <2>2. CASE StopRecording
    BY <2>2 DEF StopRecording
  <2> QED BY <2>1, <2>2
<1>3. media' = media \/ (media' \in MediaFile /\ media'.mtime = now)
  BY <1>1, FlushedIsNow
<1>4. RecTypes'
  BY <1>1, <1>2, <1>3 DEF RecTypes
<1>5. DiskHolds'
  <2>1. CASE media' = media
    BY <1>1, <2>1 DEF DiskHolds, MadeOf
  <2>2. CASE media' \in MediaFile /\ media'.mtime = now
    BY <1>1, <1>4, <2>2, DiskHoldsAfterChange
  <2> QED BY <1>3, <2>1, <2>2
<1> QED BY <1>1, <1>4, <1>5, OpenHoldsStays

LEMMA PlayFailsHolds ==
  ASSUME RecInv, NEW works \in BOOLEAN, PlayFails(works)
  PROVE  RecInv'
<1> USE DEF RecInv
<1>1. /\ media' = media \/ media' = None
      /\ UNCHANGED <<seekTable, meta, recorder, mediaFd, seekFd, players, now, recordings>>
  BY DEF PlayFails
<1>2. RecTypes'
  BY <1>1 DEF RecTypes
<1>3. DiskHolds'
  <2>1. CASE media' = media
    BY <1>1, <2>1 DEF DiskHolds, MadeOf
  <2>2. CASE media' = None
    BY <1>1, <2>2 DEF DiskHolds, MadeOf
  <2> QED BY <1>1, <2>1, <2>2
<1> QED BY <1>1, <1>2, <1>3, OpenHoldsStays

LEMMA SecondPassesHolds ==
  ASSUME RecInv, SecondPasses
  PROVE  RecInv'
<1> USE DEF RecInv
<1>1. /\ now' = now + 1
      /\ UNCHANGED <<media, seekTable, meta, recorder, mediaFd, seekFd, players, recordings>>
  BY DEF SecondPasses
<1>2. RecTypes'
  BY <1>1 DEF RecTypes
<1>3. now \in Nat
  BY DEF RecTypes
<1>4. /\ media # None => media.mtime \in Nat /\ media.mtime <= now
      /\ seekTable # None => seekTable.mtime \in Nat /\ seekTable.mtime <= now
  BY DEF RecTypes, DiskHolds, MediaFile, TableFile
<1>5. /\ media' # None => media'.mtime <= now'
      /\ seekTable' # None => seekTable'.mtime <= now'
  BY <1>1, <1>3, <1>4
<1>6. DiskHolds'
  BY <1>1, <1>5 DEF DiskHolds, MadeOf
<1> QED BY <1>1, <1>2, <1>6, OpenHoldsStays

-----------------------------------------------------------------------------
(* Playing. *)

LEMMA PlayFreshHolds ==
  ASSUME RecInv, NEW p \in Players, PlayFresh(p)
  PROVE  RecInv'
<1> USE DEF RecInv
<1>1. /\ players[p] = None /\ media # None /\ seekTable # None
      /\ seekTable.mtime >= media.mtime /\ OpensWith(p, seekTable)
      /\ UNCHANGED <<media, seekTable, meta, recorder, now, recordings>>
  BY DEF PlayFresh, Fresh
<1>2. seekTable \in TableFile /\ media \in MediaFile
  BY <1>1 DEF RecTypes
<1>3. \/ seekTable.mtime = media.mtime
      \/ seekTable.shared
      \/ /\ seekTable.content = media.content
         /\ seekTable.frames <= media.frames
  <2>1. seekTable.mtime \in Nat /\ media.mtime \in Nat /\ media.frames \in Nat
    BY <1>2 DEF TableFile, MediaFile
  <2>2. CASE seekTable.mtime > media.mtime
    BY <1>1, <2>1, <2>2 DEF DiskHolds, MadeOf
  <2> QED BY <1>1, <2>1, <2>2
<1>4. /\ mediaFd' \in MediaEntry /\ seekFd' \in SeekEntry
      /\ DOMAIN players' = Players /\ OpenHolds'
  BY <1>1, <1>2, <1>3, OpeningHolds
<1>5. RecTypes'
  BY <1>1, <1>4 DEF RecTypes
<1>6. DiskHolds'
  BY <1>1 DEF DiskHolds, MadeOf
<1> QED BY <1>4, <1>5, <1>6

LEMMA PlayRegeneratedHolds ==
  ASSUME RecInv, NEW p \in Players, PlayRegenerated(p)
  PROVE  RecInv'
<1> USE DEF RecInv
<1>1. /\ players[p] = None /\ media # None
      /\ seekTable' = Generated /\ OpensWith(p, Generated)
      /\ UNCHANGED <<media, recorder, now, recordings>>
  BY DEF PlayRegenerated
<1>2. /\ Generated \in TableFile /\ Generated.mtime = now
      /\ MadeOf(Generated, media)
      /\ mediaFd = None => /\ Generated.content = media.content
                           /\ Generated.frames = media.frames
  BY <1>1, GeneratedIsOfTheFile
<1> HIDE DEF RecInv
<1>3. RecTypes /\ DiskHolds /\ OpenHolds
  BY DEF RecInv
<1>4. media \in MediaFile /\ now \in Nat
  BY <1>1, <1>3 DEF RecTypes
<1>5. mediaFd = None => Generated.content = media.content /\ Generated.frames <= media.frames
  <2>1. media.frames \in Nat
    BY <1>4 DEF MediaFile
  <2> QED BY <1>2, <2>1
<1>6. /\ mediaFd' \in MediaEntry /\ seekFd' \in SeekEntry
      /\ DOMAIN players' = Players /\ OpenHolds'
  BY <1>1, <1>2, <1>3, <1>5, OpeningHolds
<1>7. RecTypes'
  BY <1>1, <1>2, <1>3, <1>6 DEF RecTypes
<1>8. seekTable'.mtime = now /\ MadeOf(seekTable', media')
  BY <1>1, <1>2
<1>9. media'.mtime <= now' /\ seekTable'.mtime <= now'
  BY <1>1, <1>3, <1>4, <1>8 DEF DiskHolds
<1>10. DiskHolds'
  BY <1>8, <1>9 DEF DiskHolds
<1> QED BY <1>6, <1>7, <1>10 DEF RecInv

-----------------------------------------------------------------------------
(* The theorems. *)

LEMMA RecInitHolds == RecInit => RecInv
<1> SUFFICES ASSUME RecInit PROVE RecInv
  OBVIOUS
<1>1. RecTypes
  BY DEF RecInit, RecTypes
<1>2. DiskHolds
  BY DEF RecInit, DiskHolds
<1>3. Readers = {}
  BY DEF RecInit, Readers
<1>4. OpenHolds
  BY <1>3, FS_EmptySet DEF RecInit, OpenHolds
<1> QED BY <1>1, <1>2, <1>4 DEF RecInv

LEMMA RecStepHolds == RecInv /\ [RecNext]_recVars => RecInv'
<1> SUFFICES ASSUME RecInv, [RecNext]_recVars PROVE RecInv'
  OBVIOUS
<1>1. CASE UNCHANGED recVars
  <2>1. UNCHANGED <<media, seekTable, meta, recorder, mediaFd, seekFd, players, now, recordings>>
    BY <1>1 DEF recVars
  <2>2. OpenHolds'
    BY <2>1, OpenHoldsStays DEF RecInv
  <2>3. RecTypes' /\ DiskHolds'
    BY <2>1 DEF RecInv, RecTypes, DiskHolds, MadeOf
  <2> QED BY <2>2, <2>3 DEF RecInv
<1> QED BY <1>1, StartRecordingHolds, FeedRecorderHolds, FlushHolds, PlayFailsHolds,
           SecondPassesHolds, PlayFreshHolds, PlayRegeneratedHolds, LeavingHolds
        DEF RecNext

\* The types, the disk and the descriptors, in every behaviour.
THEOREM RecInvariant == RecSpec => []RecInv
BY RecInitHolds, RecStepHolds, PTL DEF RecSpec

\* The two descriptors of a path are there exactly as long as someone reads, and are
\* counted right; and a player reads its file with the table of that file, of which
\* every frame is there, unless the modification times cannot tell the table is old or
\* it was made through the descriptor of another file (MmapFile::Initialize and Cleanup,
\* BaseInFileStream, BaseRTMPAppProtocolHandler::GetMetaData).
THEOREM TablesMatchFiles == RecSpec => []TablesDescribeFiles
<1>1. RecInv => TablesDescribeFiles
  <2> SUFFICES ASSUME RecInv PROVE TablesDescribeFiles
    OBVIOUS
  <2>1. OpenHolds
    BY DEF RecInv
  <2>2. \A p \in Readers :
          /\ players[p].table = seekFd.table
          /\ players[p].file.content = mediaFd.content
          /\ players[p].file.frames = mediaFd.frames
          /\ players[p].sameSecond = seekFd.sameSecond
    BY <2>1 DEF OpenHolds, OpenedOf
  <2>3. DescriptorsCounted
    BY <2>1, <2>2 DEF DescriptorsCounted, OpenHolds
  <2>4. \A p \in Readers :
          \/ players[p].sameSecond \/ players[p].table.shared
          \/ /\ players[p].table.content = players[p].file.content
             /\ players[p].table.frames <= players[p].file.frames
    BY <2>1, <2>2 DEF OpenHolds, Describes
  <2> QED BY <2>3, <2>4 DEF TablesDescribeFiles
<1> QED BY <1>1, RecInvariant, PTL

=============================================================================
