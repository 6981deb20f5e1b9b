------------------------------ MODULE ArrayVec -------------------------------
(* The array of frames: buckets of BLOCK_SIZE on the heap, reached through a  *)
(* vector of pointers, and the pointers to frames that JavaScript holds for   *)
(* as long as it likes.  A frame is its number, counted from 0.               *)
EXTENDS Integers, Sequences

CONSTANT BLOCK_SIZE
ASSUME BlockSizeAssumption == BLOCK_SIZE \in Nat \ {0}

VARIABLES
    heap,      \* the blocks that were allocated; an address is an index of it
    buckets,   \* addresses
    length,    \* len
    handles    \* pointers in JavaScript: address, offset and the frame meant

arrayVars == <<heap, buckets, length, handles>>

Garbage == -1
Cells == 0..(BLOCK_SIZE - 1)
NewBlock == [i \in Cells |-> Garbage]

ArrayInit == heap = <<>> /\ buckets = <<>> /\ length = 0 /\ handles = {}

BucketOf(index) == index \div BLOCK_SIZE
OffsetOf(index) == index % BLOCK_SIZE
AddressOf(index) == buckets[BucketOf(index) + 1]

\* ArrayVec::get, as a sequence of none or one.
Get(index) == IF index < length THEN <<heap[AddressOf(index)][OffsetOf(index)]>>
                                ELSE <<>>

\* Mutant of Push: the vector holds the blocks themselves, and moves them to a
\* new place when it grows.
PushMoving(frame) ==
    LET grow == Len(buckets) <= BucketOf(length)
        n == Len(buckets)
        moved == [i \in 1..(n + 1) |-> IF i <= n THEN heap[buckets[i]] ELSE NewBlock]
        freed == [i \in DOMAIN heap |-> NewBlock]
        blocks == IF grow THEN freed \o moved ELSE heap
    IN  /\ buckets' = IF grow THEN [i \in 1..(n + 1) |-> Len(heap) + i] ELSE buckets
        /\ heap' = [blocks EXCEPT ![buckets'[BucketOf(length) + 1]][OffsetOf(length)] = frame]
        /\ length' = length + 1
        /\ UNCHANGED handles

\* Mutant of Push: the next block is allocated one element late.
PushLate(frame) ==
    LET grow == Len(buckets) <= (length - 1) \div BLOCK_SIZE \/ length = 0
        blocks == IF grow THEN Append(heap, NewBlock) ELSE heap
    IN  /\ buckets' = IF grow THEN Append(buckets, Len(heap) + 1) ELSE buckets
        /\ heap' = [blocks EXCEPT ![buckets'[Len(buckets')]][OffsetOf(length)] = frame]
        /\ length' = length + 1
        /\ UNCHANGED handles

\* ArrayVec::push: a full bucket is followed by a new one of uninitialized
\* memory; the others stay where they are.
Push(frame) ==
    LET grow == Len(buckets) <= BucketOf(length)
        blocks == IF grow THEN Append(heap, NewBlock) ELSE heap
    IN  /\ buckets' = IF grow THEN Append(buckets, Len(heap) + 1) ELSE buckets
        /\ heap' = [blocks EXCEPT ![buckets'[BucketOf(length) + 1]][OffsetOf(length)] = frame]
        /\ length' = length + 1
        /\ UNCHANGED handles

\* Store::frames, wrapped in objects of JavaScript: iter().skip().take().
Frames(start, end) ==
    /\ handles' = handles \union
            {[address |-> AddressOf(i), offset |-> OffsetOf(i), frame |-> i] :
                i \in {j \in 0..(length - 1) : start <= j /\ j < end}}
    /\ UNCHANGED <<heap, buckets, length>>

\* The event loop pushes the frames in the order of their numbers.
ArrayNext == Push(length) \/ \E start, end \in 0..length : Frames(start, end)
ArraySpec == ArrayInit /\ [][ArrayNext]_arrayVars

---------------------------------------------------------------------------
(* Properties *)

\* The array is the sequence of what was pushed: every index below the length
\* gives its frame, across the buckets, and never memory that nobody has set.
ArrayReads == \A i \in 0..(length - 1) : Get(i) = <<i>>

\* A frame JavaScript holds by its address is that frame for ever, however
\* many are pushed after it and although no lock is held any more.
HandlesStay == \A h \in handles : heap[h.address][h.offset] = h.frame
=============================================================================
