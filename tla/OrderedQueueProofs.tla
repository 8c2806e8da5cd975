------------------------- MODULE OrderedQueueProofs -------------------------
(***************************************************************************)
(* OrderedQueue keeps its slice strictly ascending and implements MinSet,  *)
(* for every set of items and every length of the queue.                   *)
(***************************************************************************)
EXTENDS OrderedQueue, SequenceTheorems, TLAPS

Elements == {queue[i] : i \in 1..Len(queue)}

LEMMA QueueFacts ==
    ASSUME StrictlySorted
    PROVE  /\ Len(queue) \in Nat
           /\ \A i \in 1..Len(queue) : queue[i] \in Items /\ queue[i] \in Nat
           /\ \A i, j \in 1..Len(queue) : i < j => queue[i] < queue[j]
<1>1. queue \in Seq(Items) /\ Len(queue) \in Nat
  BY LenProperties DEF StrictlySorted
<1>2. \A i \in 1..Len(queue) : queue[i] \in Items
  BY <1>1, ElementOfSeq
<1> QED  BY <1>1, <1>2, ItemsAssumption DEF StrictlySorted

(* What an insertion at the place where the scan stops does to the slice.  *)
LEMMA InsertFacts ==
    ASSUME StrictlySorted, NEW item \in Items,
           NEW n \in 1..(Len(queue) + 1), StopsAt(n, item),
           ~(n <= Len(queue) /\ queue[n] = item),
           queue' = ShiftIn(n, item)
    PROVE  /\ StrictlySorted'
           /\ Elements' = Elements \cup {item}
<1>0. item \in Nat
  BY ItemsAssumption
<1>1. /\ Len(queue) \in Nat
      /\ \A i \in 1..Len(queue) : queue[i] \in Items /\ queue[i] \in Nat
      /\ \A i, j \in 1..Len(queue) : i < j => queue[i] < queue[j]
  BY QueueFacts
<1>2. \A i \in 1..Len(queue) : i < n => queue[i] < item
  BY <1>1 DEF StopsAt
<1>3. \A i \in 1..Len(queue) : i >= n => item < queue[i]
  <2> SUFFICES ASSUME NEW i \in 1..Len(queue), i >= n PROVE item < queue[i]
    OBVIOUS
  <2>1. n \in 1..Len(queue) /\ item < queue[n]
    BY <1>0, <1>1 DEF StopsAt
  <2>2. i = n \/ queue[n] < queue[i]
    BY <1>1, <2>1
  <2> QED  BY <1>0, <1>1, <2>1, <2>2
<1>4. \A i \in 1..(Len(queue) + 1) :
          /\ i < n => i \in 1..Len(queue) /\ queue'[i] = queue[i]
          /\ i = n => queue'[i] = item
          /\ i > n => (i - 1) \in 1..Len(queue) /\ queue'[i] = queue[i - 1]
  BY <1>1 DEF ShiftIn
<1>5. queue' \in [1..(Len(queue) + 1) -> Items]
  <2>1. \A i \in 1..(Len(queue) + 1) : queue'[i] \in Items
    BY <1>1, <1>4
  <2> QED  BY <2>1 DEF ShiftIn
<1>6. queue' \in Seq(Items) /\ Len(queue') = Len(queue) + 1
  BY <1>1, <1>5, IsASeq, LenProperties
<1>7. \A i, j \in 1..(Len(queue) + 1) : i < j => queue'[i] < queue'[j]
  <2> SUFFICES ASSUME NEW i \in 1..(Len(queue) + 1),
                      NEW j \in 1..(Len(queue) + 1), i < j
               PROVE  queue'[i] < queue'[j]
    OBVIOUS
  <2>1. CASE j < n
    BY <2>1, <1>1, <1>4
  <2>2. CASE j = n
    BY <2>2, <1>1, <1>2, <1>4
  <2>3. CASE j > n /\ i < n
    <3>1. queue'[i] = queue[i] /\ queue[i] < item /\ queue[i] \in Nat
      BY <2>3, <1>1, <1>2, <1>4
    <3>2. queue'[j] = queue[j - 1] /\ item < queue[j - 1] /\ queue[j - 1] \in Nat
      BY <2>3, <1>1, <1>3, <1>4
    <3> QED  BY <3>1, <3>2, <1>0
  <2>4. CASE i = n
    BY <2>4, <1>1, <1>3, <1>4
  <2>5. CASE i > n
    <3>1. /\ i - 1 \in 1..Len(queue) /\ j - 1 \in 1..Len(queue)
          /\ queue'[i] = queue[i - 1] /\ queue'[j] = queue[j - 1]
      BY <2>5, <1>1, <1>4
    <3>2. i - 1 < j - 1
      BY <1>1
    <3> QED  BY <3>1, <3>2, <1>1
  <2> QED  BY <2>1, <2>2, <2>3, <2>4, <2>5, <1>1
<1>8. StrictlySorted'
  BY <1>6, <1>7 DEF StrictlySorted
<1>9. \A x \in Elements : x \in Elements'
  <2> SUFFICES ASSUME NEW k \in 1..Len(queue) PROVE queue[k] \in Elements'
    BY DEF Elements
  <2>1. CASE k < n
    BY <2>1, <1>1, <1>4, <1>6 DEF Elements
  <2>2. CASE k >= n
    <3>1. k + 1 \in 1..(Len(queue) + 1) /\ k + 1 > n /\ (k + 1) - 1 = k
      BY <2>2, <1>1
    <3>2. queue'[k + 1] = queue[k]
      BY <3>1, <1>4
    <3> QED  BY <3>1, <3>2, <1>6 DEF Elements
  <2> QED  BY <2>1, <2>2, <1>1
<1>10. item \in Elements'
  BY <1>1, <1>4, <1>6 DEF Elements
<1>11. \A i \in 1..(Len(queue) + 1) : queue'[i] \in Elements \cup {item}
  BY <1>1, <1>4 DEF Elements
<1>12. Elements' \subseteq Elements \cup {item}
  BY <1>6, <1>11 DEF Elements
<1> QED  BY <1>8, <1>9, <1>10, <1>12

LEMMA PushStep ==
    ASSUME StrictlySorted, NEW item \in Items, Push(item)
    PROVE  StrictlySorted' /\ Elements' = Elements \cup {item}
<1>1. PICK n \in 1..(Len(queue) + 1) :
          /\ StopsAt(n, item)
          /\ queue' = IF n <= Len(queue) /\ queue[n] = item
                      THEN queue ELSE ShiftIn(n, item)
  BY DEF Push
<1>2. CASE n <= Len(queue) /\ queue[n] = item
  <2>1. queue' = queue /\ item \in Elements
    BY <1>1, <1>2, QueueFacts DEF Elements
  <2> QED  BY <2>1 DEF StrictlySorted, Elements
<1>3. CASE ~(n <= Len(queue) /\ queue[n] = item)
  BY <1>1, <1>3, InsertFacts
<1> QED  BY <1>2, <1>3

LEMMA PopStep ==
    ASSUME StrictlySorted, NEW item, Pop(item)
    PROVE  /\ StrictlySorted'
           /\ item \in Elements /\ \A x \in Elements : item <= x
           /\ Elements' = Elements \ {item}
<1>1. /\ Len(queue) \in Nat
      /\ \A i \in 1..Len(queue) : queue[i] \in Items /\ queue[i] \in Nat
      /\ \A i, j \in 1..Len(queue) : i < j => queue[i] < queue[j]
  BY QueueFacts
<1>2. /\ Len(queue) >= 1 /\ item = queue[1]
      /\ queue' \in Seq(Items) /\ Len(queue') = Len(queue) - 1
      /\ \A i \in 1..(Len(queue) - 1) : queue'[i] = queue[i + 1]
  BY <1>1, HeadTailProperties, EmptySeq DEF Pop, StrictlySorted
<1>3. StrictlySorted'
  <2> SUFFICES ASSUME NEW i \in 1..(Len(queue) - 1),
                      NEW j \in 1..(Len(queue) - 1), i < j
               PROVE  queue'[i] < queue'[j]
    BY <1>2 DEF StrictlySorted
  <2>1. i + 1 \in 1..Len(queue) /\ j + 1 \in 1..Len(queue) /\ i + 1 < j + 1
    BY <1>1
  <2>2. queue[i + 1] < queue[j + 1]
    BY <1>1, <2>1
  <2> QED  BY <1>2, <2>2
<1>4. \A i \in 1..Len(queue) : i = 1 \/ item < queue[i]
  BY <1>1, <1>2
<1>5. item \in Elements /\ \A x \in Elements : item <= x
  BY <1>1, <1>2, <1>4 DEF Elements
<1>6. \A x \in Elements : x # item => x \in Elements'
  <2> SUFFICES ASSUME NEW k \in 1..Len(queue), queue[k] # item
               PROVE  queue[k] \in Elements'
    BY DEF Elements
  <2>1. k - 1 \in 1..(Len(queue) - 1) /\ (k - 1) + 1 = k
    BY <1>1, <1>2
  <2>2. queue'[k - 1] = queue[k]
    BY <1>2, <2>1
  <2> QED  BY <1>2, <2>1, <2>2 DEF Elements
<1>7. \A x \in Elements' : x \in Elements /\ x # item
  <2> SUFFICES ASSUME NEW k \in 1..(Len(queue) - 1)
               PROVE  queue'[k] \in Elements /\ queue'[k] # item
    BY <1>2 DEF Elements
  <2>1. k + 1 \in 1..Len(queue) /\ k + 1 # 1 /\ queue'[k] = queue[k + 1]
    BY <1>1, <1>2
  <2>2. item < queue[k + 1] /\ queue[k + 1] \in Nat /\ item \in Nat
    BY <1>1, <1>2, <1>4, <2>1
  <2> QED  BY <2>1, <2>2 DEF Elements
<1> QED  BY <1>3, <1>5, <1>6, <1>7

LEMMA SortedInductive == StrictlySorted /\ [QueueNext]_queue => StrictlySorted'
<1> SUFFICES ASSUME StrictlySorted, [QueueNext]_queue PROVE StrictlySorted'
  OBVIOUS
<1>1. ASSUME NEW item \in Items, Push(item) \/ Pop(item) PROVE StrictlySorted'
  BY <1>1, PushStep, PopStep
<1>2. CASE Clear
  BY <1>2 DEF Clear, StrictlySorted
<1>3. CASE UNCHANGED queue
  BY <1>3 DEF StrictlySorted
<1> QED  BY <1>1, <1>2, <1>3 DEF QueueNext

(* The slice stays sorted and without duplicates through any sequence of   *)
(* Push, Pop and Clear.                                                    *)
THEOREM QueueSorted == QueueSpec => []StrictlySorted
<1>1. QueueInit => StrictlySorted
  BY DEF QueueInit, StrictlySorted
<1> QED  BY <1>1, SortedInductive, PTL DEF QueueSpec

(* OrderedQueue implements a set whose minimum is taken.                   *)
THEOREM QueueImplementsMinSet == QueueSpec => ImplementsMinSet
<1>1. QueueInit => Promise!MinSetInit
  BY DEF QueueInit, Promise!MinSetInit
<1>2. StrictlySorted /\ [QueueNext]_queue => [Promise!MinSetNext]_Elements
  <2> SUFFICES ASSUME StrictlySorted, [QueueNext]_queue
               PROVE  [Promise!MinSetNext]_Elements
    OBVIOUS
  <2>1. ASSUME NEW item \in Items, Push(item) PROVE Promise!Add(item)
    BY <2>1, PushStep DEF Promise!Add, Elements
  <2>2. ASSUME NEW item \in Items, Pop(item) PROVE Promise!TakeMin(item)
    BY <2>2, PopStep DEF Promise!TakeMin, Elements
  <2>3. CASE Clear
    <3>1. Promise!Empty
      BY <2>3 DEF Clear, Promise!Empty
    <3> QED  BY <3>1 DEF Promise!MinSetNext
  <2>4. CASE UNCHANGED queue
    BY <2>4 DEF Elements
  <2> QED  BY <2>1, <2>2, <2>3, <2>4 DEF QueueNext, Promise!MinSetNext
<1> QED  BY <1>1, <1>2, QueueSorted, PTL
         DEF QueueSpec, ImplementsMinSet, Promise!MinSetSpec, Elements
=============================================================================
