---------------------------- MODULE OrderedQueue ----------------------------
(***************************************************************************)
(* pkg/types/queue.go: OrderedQueue, a slice kept in ascending order and   *)
(* free of duplicates, every method of which holds the queue's mutex, so   *)
(* that one method call is one step.  The comparison function is the one   *)
(* its only user (fetchBlocks) passes: the order of block numbers.         *)
(***************************************************************************)
EXTENDS Naturals, Sequences

CONSTANT Items    \* the values callers push: block numbers

ASSUME ItemsAssumption == Items \subseteq Nat

VARIABLE queue    \* q.queue

-----------------------------------------------------------------------------
(* The scan of Push: it goes past the elements smaller than item and stops *)
(* at the first one that is not, or at the end of the slice.               *)
StopsAt(n, item) ==
    /\ \A i \in 1..(n - 1) : queue[i] < item
    /\ n <= Len(queue) => queue[n] >= item

(* append followed by copy: everything from n on moves up by one.          *)
ShiftIn(n, item) ==
    [i \in 1..(Len(queue) + 1) |->
        IF i < n THEN queue[i] ELSE IF i = n THEN item ELSE queue[i - 1]]

-----------------------------------------------------------------------------
QueueInit == queue = << >>

(* Deviation used to test the properties: items are appended unsorted.     *)
MutPushLast(item) ==
    /\ \A i \in 1..Len(queue) : queue[i] # item
    /\ queue' = Append(queue, item)

(* The scan stops at one place only.                                       *)
Push(item) ==
    \E n \in 1..(Len(queue) + 1) :
        /\ StopsAt(n, item)
        /\ queue' = IF n <= Len(queue) /\ queue[n] = item
                    THEN queue ELSE ShiftIn(n, item)

(* Deviation used to test the properties: the last item is taken.          *)
MutPopLast(item) ==
    /\ queue # << >>
    /\ item = queue[Len(queue)]
    /\ queue' = SubSeq(queue, 1, Len(queue) - 1)

Pop(item) ==
    /\ queue # << >>
    /\ item = Head(queue)
    /\ queue' = Tail(queue)

Clear == queue' = << >>

(* Peek, Len, IsEmpty, Contains and ToSlice only read; Contains is the one  *)
(* whose answer the properties compare with the abstract queue.             *)
Contains(item) == \E i \in 1..Len(queue) : queue[i] = item

QueueNext ==
    \/ \E item \in Items : Push(item) \/ Pop(item)
    \/ Clear

QueueSpec == QueueInit /\ [][QueueNext]_queue

-----------------------------------------------------------------------------
(* The elements are strictly ascending: sorted, and no block number is      *)
(* queued twice.  Pop hands out the smallest block only because of this.    *)
StrictlySorted ==
    /\ queue \in Seq(Items)
    /\ \A i, j \in 1..Len(queue) : i < j => queue[i] < queue[j]

(* What callers are promised: a set from which the minimum is taken.        *)
Promise == INSTANCE MinSet WITH items <- {queue[i] : i \in 1..Len(queue)}

(* Every Push, Pop and Clear of the slice is the same operation on a set:   *)
(* nothing is lost or duplicated by the scan and the shifting, and Pop      *)
(* always returns the least queued block.                                   *)
ImplementsMinSet == Promise!MinSetSpec
=============================================================================
