------------------------------ MODULE MmapWindow ------------------------------
(***************************************************************************)
(* Reading one file through two windows of memory (MmapFile, MmapPointer): *)
(* a read is served from a window that has all of it, or the window that   *)
(* lies lower is mapped anew from the page of the cursor on.  A byte is    *)
(* its place in the file.                                                  *)
(***************************************************************************)
EXTENDS Integers

CONSTANTS PageSize, FileSize,
          WindowSize,  \* what Initialize is asked for
          MaxRead      \* bound: bytes of a read

ASSUME MmapAssumption ==
  PageSize \in Nat \ {0} /\ FileSize \in Nat /\ WindowSize \in Nat /\ MaxRead \in Nat

VARIABLES place, failed,    \* of the MmapFile, its cursor and whether it failed
          pointers,         \* _pointer1 and _pointer2: [cursor, size]
          served            \* the last read: [from, count, ok, bytes]

mmapVars == <<place, failed, pointers, served>>

Freed == [cursor |-> 0, size |-> 0]

\* Initialize rounds the window up to pages.
Window == ((WindowSize + PageSize - 1) \div PageSize) * PageSize

\* As many more pages as it takes to get to the end of what is wanted.
Extension(first, wanted) ==
  IF first + Window >= wanted THEN 0
  ELSE ((wanted - first - Window + PageSize - 1) \div PageSize) * PageSize

\* Mutant: the page of the cursor is mapped, and the window from there on.
AllocateWindow(position, count) ==
  [cursor |-> (position \div PageSize) * PageSize, size |-> Window]

\* MmapPointer::Allocate.
Allocate(position, count) ==
  LET first == (position \div PageSize) * PageSize
  IN [cursor |-> first, size |-> Window + Extension(first, position + count)]

HasRange(pointer, position, count) ==
  position >= pointer.cursor /\ position + count <= pointer.cursor + pointer.size

\* MmapPointer::Copy: no more than there is behind the cursor in the window.
Copy(pointer, position, count) ==
  LET available == pointer.cursor + pointer.size - position
      n == IF count > available THEN available ELSE count
  IN [i \in 0 .. n - 1 |-> pointer.cursor + (position - pointer.cursor) + i]

\* The first window that has the range, else the lower one, the second on a tie.
Chosen(position, count) ==
  IF HasRange(pointers[1], position, count) THEN 1
  ELSE IF HasRange(pointers[2], position, count) THEN 2
  ELSE IF pointers[1].cursor < pointers[2].cursor THEN 1 ELSE 2

MmapInit ==
  /\ place = 0 /\ failed = FALSE
  /\ pointers = [i \in {1, 2} |-> Freed]
  /\ served = [from |-> 0, count |-> 0, ok |-> TRUE, bytes |-> [i \in 0 .. -1 |-> 0]]

Fail(count) ==
  /\ failed' = TRUE
  /\ served' = [from |-> place, count |-> count, ok |-> FALSE, bytes |-> [i \in 0 .. -1 |-> 0]]

\* A window smaller than the read, or the end of the file.
Refuses(count) == Window < count \/ place + count > FileSize

PeekRefused(count) ==
  /\ ~failed /\ Refuses(count)
  /\ Fail(count)
  /\ UNCHANGED <<place, pointers>>

\* PeekBuffer, which all the Peeks are, and ReadBuffer, which moves the cursor.
Peek(count, advance) ==
  /\ ~failed /\ ~Refuses(count)
  /\ LET which == Chosen(place, count)
         mapped == HasRange(pointers[which], place, count)
         pointer == IF mapped THEN pointers[which] ELSE Allocate(place, count)
         bytes == Copy(pointer, place, count)
     IN /\ pointers' = [pointers EXCEPT ![which] = pointer]
        /\ IF DOMAIN bytes # 0 .. count - 1
           THEN Fail(count) /\ UNCHANGED place
           ELSE /\ served' = [from |-> place, count |-> count, ok |-> TRUE, bytes |-> bytes]
                /\ place' = IF advance THEN place + count ELSE place
                /\ UNCHANGED failed

\* mmap itself fails: the file is not used any more.
MmapFails(count) ==
  /\ ~failed /\ ~Refuses(count)
  /\ LET which == Chosen(place, count)
     IN /\ ~HasRange(pointers[which], place, count)
        /\ pointers' = [pointers EXCEPT ![which] = Allocate(place, count)]
  /\ failed' = TRUE
  /\ UNCHANGED <<place, served>>

\* SeekTo and the seeks built on it; a position below zero is a huge one.
SeekTo(position) ==
  /\ ~failed
  /\ IF position < 0 \/ position > FileSize
     THEN failed' = TRUE /\ UNCHANGED place
     ELSE place' = position /\ UNCHANGED failed
  /\ UNCHANGED <<pointers, served>>

MmapNext ==
  \/ \E count \in 1 .. MaxRead :
       \/ PeekRefused(count) \/ MmapFails(count)
       \/ \E advance \in BOOLEAN : Peek(count, advance)
       \/ SeekTo(place - count)
       \/ SeekTo(place + count)
  \/ \E position \in {0, FileSize - 1} \cup 0 .. FileSize + 1 : SeekTo(position)

MmapSpec == MmapInit /\ [][MmapNext]_mmapVars

-----------------------------------------------------------------------------
\* In whatever order a file is read and moved in, a read that lies inside the
\* file and is not larger than the window gets exactly the bytes at the cursor,
\* from memory that is mapped; any other is refused (mmapfile.cpp:403-456).
ReadsExact ==
  LET legal == served.from + served.count <= FileSize /\ served.count <= Window
  IN /\ served.ok <=> legal
     /\ served.ok => served.bytes = [i \in 0 .. served.count - 1 |-> served.from + i]
=============================================================================
