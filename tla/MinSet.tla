------------------------------- MODULE MinSet -------------------------------
(***************************************************************************)
(* What OrderedQueue (pkg/types/queue.go) promises to its users: a set of  *)
(* items, from which only the smallest can be taken.                       *)
(***************************************************************************)
EXTENDS Naturals

CONSTANT Items

VARIABLE items

Add(i) == items' = items \cup {i}

TakeMin(i) ==
    /\ i \in items
    /\ \A j \in items : i <= j
    /\ items' = items \ {i}

Empty == items' = {}

MinSetInit == items = {}

MinSetNext == (\E i \in Items : Add(i) \/ TakeMin(i)) \/ Empty

MinSetSpec == MinSetInit /\ [][MinSetNext]_items
=============================================================================
