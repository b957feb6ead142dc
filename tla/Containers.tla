------------------------------- MODULE Containers -------------------------------
(***************************************************************************)
(* What the collections of utils/ promise: lists are sequences of items,   *)
(* a hash table is a function from keys to values, a bit field a function  *)
(* from indexes to Booleans.  LinkedLists and Tables implement this.       *)
(***************************************************************************)
EXTENDS Integers, Sequences, SequencesExt, TLC

CONSTANTS Lists, Items, Keys, Bits

VARIABLES seqs,     \* [Lists -> Seq(Items)]; a freed list is empty
          map,      \* a function from a subset of Keys to Items
          flags     \* [Bits -> BOOLEAN]
contVars == <<seqs, map, flags>>

Init == seqs = [l \in Lists |-> << >>] /\ map = << >> /\ flags = [b \in Bits |-> FALSE]

\* Lists: places count from 1.
InsertItem(l, i, x) == seqs' = [seqs EXCEPT ![l] = InsertAt(@, i, x)] /\ UNCHANGED <<map, flags>>
RemoveItem(l, i) == seqs' = [seqs EXCEPT ![l] = RemoveAt(@, i)] /\ UNCHANGED <<map, flags>>
SetItem(l, i, x) == seqs' = [seqs EXCEPT ![l][i] = x] /\ UNCHANGED <<map, flags>>
Concat(a, b) == seqs' = [seqs EXCEPT ![a] = @ \o seqs[b], ![b] = << >>] /\ UNCHANGED <<map, flags>>
Empty(l) == seqs' = [seqs EXCEPT ![l] = << >>] /\ UNCHANGED <<map, flags>>

\* The hash table.
Without(m, k) == [j \in DOMAIN m \ {k} |-> m[j]]
Store(k, x) == map' = (k :> x) @@ map /\ UNCHANGED <<seqs, flags>>
Delete(k) == map' = Without(map, k) /\ UNCHANGED <<seqs, flags>>
Forget == map' = << >> /\ UNCHANGED <<seqs, flags>>

\* The bit field.
Mark(b, v) == flags' = [flags EXCEPT ![b] = v] /\ UNCHANGED <<seqs, map>>
MarkAll(v) == flags' = [b \in Bits |-> v] /\ UNCHANGED <<seqs, map>>

\* Some operation on some list, on the table or on the bits; what there was before and what
\* there is after is read once.
ListStep ==
    \E old \in {seqs}, new \in {seqs'} :
       \/ \E l \in Lists : \/ new = [old EXCEPT ![l] = << >>]
                           \/ \E i \in DOMAIN old[l] : new = [old EXCEPT ![l] = RemoveAt(@, i)]
                           \/ \E i \in DOMAIN old[l], x \in Items : new = [old EXCEPT ![l][i] = x]
                           \/ \E i \in 1..(Len(old[l]) + 1), x \in Items : new = [old EXCEPT ![l] = InsertAt(@, i, x)]
       \/ \E a, b \in Lists : a # b /\ new = [old EXCEPT ![a] = @ \o old[b], ![b] = << >>]
MapStep ==
    \E old \in {map}, new \in {map'} :
       new = << >> \/ \E k \in Keys : new = Without(old, k) \/ \E x \in Items : new = (k :> x) @@ old
FlagStep ==
    \E old \in {flags}, new \in {flags'}, v \in BOOLEAN :
       new = [b \in Bits |-> v] \/ \E b \in Bits : new = [old EXCEPT ![b] = v]
Next ==
    \/ UNCHANGED <<map, flags>> /\ ListStep
    \/ UNCHANGED <<seqs, flags>> /\ MapStep
    \/ UNCHANGED <<seqs, map>> /\ FlagStep

Spec == Init /\ [][Next]_contVars
=============================================================================
