--------------------------------- MODULE Tables ---------------------------------
(***************************************************************************)
(* The hash table (utils/src/HashTable.c) and the bit field                *)
(* (utils/src/BitField.c).  Buckets are arrays that grow, bits sit in      *)
(* bytes, the first in the highest place.                                  *)
(***************************************************************************)
EXTENDS Integers, Sequences, SequencesExt, FiniteSets

CONSTANTS Keys, Values,
          BucketOf,         \* [Keys -> buckets]: the hash of a key modulo the bucket count
          BucketLength,     \* entries a bucket is made with
          MinGrown,         \* MIN_HASH_TABLE_ENTRIES_ALLOC_LENGTH
          BitCount          \* itemCount of the bit field

VARIABLES table,    \* [bucket -> [entries, length, own]], own: the entries were allocated
          count,    \* itemCount
          bytes     \* the bytes of the bit field, each [1..8 -> BOOLEAN]
tableVars == <<table, count, bytes>>

Buckets == {BucketOf[k] : k \in Keys}     \* numbered from 0
NewBucket == [entries |-> << >>, length |-> BucketLength, own |-> FALSE]
getHashBucket(k) == table[BucketOf[k]]
Find(b, k) == SelectInSeq(b.entries, LAMBDA e : e[1] = k)
hashTableGet(k) == LET i == Find(getHashBucket(k), k) IN IF i = 0 THEN {} ELSE {getHashBucket(k).entries[i][2]}
hashTableContains(k) == hashTableGet(k) # {}

hashTableGetCount == count
hashTableIsEmpty == count = 0
hashTableGetBucketCount == Cardinality(Buckets)
bitFieldCreate == [i \in 0..((BitCount - 1) \div 8) |-> [j \in 1..8 |-> FALSE]]

TablesInit ==
    /\ table = [b \in Buckets |-> NewBucket] /\ count = 0
    /\ bytes = bitFieldCreate

\* A full bucket is copied into one twice as long; the allocation may fail.
Grown(b) == [b EXCEPT !.length = IF 2 * @ > MinGrown THEN 2 * @ ELSE MinGrown, !.own = TRUE]
hashTableUpsert(k, x) ==
    LET b == getHashBucket(k)
        i == Find(b, k)
        room == IF Len(b.entries) = b.length THEN Grown(b) ELSE b
    IN /\ \/ /\ i # 0
             /\ table' = [table EXCEPT ![BucketOf[k]].entries[i] = <<k, x>>]
             /\ UNCHANGED count
          \/ /\ i = 0
             /\ table' = [table EXCEPT ![BucketOf[k]] = [room EXCEPT !.entries = Append(@, <<k, x>>)]]
             /\ count' = count + 1
       /\ UNCHANGED bytes
hashTablePut(k, x) == ~hashTableContains(k) /\ hashTableUpsert(k, x)

hashTableRemove(k) ==
    LET i == Find(getHashBucket(k), k) IN
    /\ i # 0
    /\ table' = [table EXCEPT ![BucketOf[k]].entries = RemoveAt(@, i)]
    /\ count' = count - 1
    /\ UNCHANGED bytes

\* The grown buckets stay.
hashTableClear ==
    /\ table' = [b \in Buckets |-> [table[b] EXCEPT !.entries = << >>]]
    /\ count' = 0
    /\ UNCHANGED bytes

\* The arrays that hashTableFree frees apart from the table: those of another length than the
\* first.
FreedArrays == {b \in Buckets : table[b].length # BucketLength}
hashTableFree ==
    /\ table' = [b \in Buckets |-> NewBucket] /\ count' = 0
    /\ UNCHANGED bytes

bitFieldGet(i) == bytes[i \div 8][1 + (i % 8)]
bitFieldSet(i, v) == i < BitCount /\ bytes' = [bytes EXCEPT ![i \div 8][1 + (i % 8)] = v] /\ UNCHANGED <<table, count>>
bitFieldReset(v) == bytes' = [i \in DOMAIN bytes |-> [j \in 1..8 |-> v]] /\ UNCHANGED <<table, count>>

HashNext ==
    \/ \E k \in Keys : hashTableRemove(k) \/ \E x \in Values : hashTablePut(k, x) \/ hashTableUpsert(k, x)
    \/ hashTableClear
    \/ hashTableFree
BitsNext == \E v \in BOOLEAN : bitFieldReset(v) \/ \E i \in 0..(BitCount - 1) : bitFieldSet(i, v)

\* The buckets one after the other, as many entries as itemCount says.
hashTableGetAllEntries ==
    LET upTo[b \in 0..hashTableGetBucketCount] == IF b = 0 THEN << >> ELSE upTo[b - 1] \o table[b - 1].entries
    IN SubSeq(upTo[hashTableGetBucketCount], 1, hashTableGetCount)

\* The entries a callback is called with that ends the iteration at the key `last'.
hashTableIterateEntries(last) ==
    LET all == hashTableGetAllEntries
        i == SelectInSeq(all, LAMBDA e : e[1] = last)
    IN IF i = 0 THEN all ELSE SubSeq(all, 1, i)

\* The function that the table stands for, the same through get, through the list of all
\* entries and through the iteration.  A table with entries beyond the length of their bucket,
\* found twice, or in an array that hashTableFree would leave behind, stands for none.
Mapping ==
    LET all == hashTableGetAllEntries
        keys == {all[i][1] : i \in DOMAIN all}
        sound == /\ Cardinality(keys) = hashTableGetCount /\ hashTableIsEmpty = (keys = {})
                 /\ \A b \in Buckets : Len(table[b].entries) <= table[b].length
                 /\ keys = {k \in Keys : hashTableContains(k)}
                 /\ \A k \in keys : Last(hashTableIterateEntries(k)) = <<k, CHOOSE x \in hashTableGet(k) : TRUE>>
                 /\ FreedArrays = {b \in Buckets : table[b].own}
    IN IF sound THEN [k \in keys |-> CHOOSE x \in hashTableGet(k) : TRUE] ELSE <<"corrupt">>
=============================================================================
