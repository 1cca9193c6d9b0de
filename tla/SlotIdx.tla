------------------------------ MODULE SlotIdx ------------------------------
(***************************************************************************)
(* The hash index of src/src/slotidx.c: open addressing with linear        *)
(* probing, at most half full, no deletions.  A table is a function from   *)
(* its buckets, counted from 0, to pairs of a hash and a slot.             *)
(***************************************************************************)
EXTENDS Naturals, FiniteSets

CONSTANTS
    Hashes,      \* hashes of keys
    IdxSlots,    \* slots of the array that is indexed
    MinBuckets,  \* SLOTIDX_MIN_BUCKETS
    MaxBuckets   \* bound of a table

ASSUME IdxAssumption ==
    /\ Hashes \subseteq Nat /\ IdxSlots \subseteq Nat /\ IsFiniteSet(IdxSlots)
    /\ MinBuckets \in Nat \ {0, 1} /\ MaxBuckets \in Nat

VARIABLE table
slotVars == <<table>>

EmptyBucket == <<>>                                \* slot 0: an empty bucket
NoTable == [i \in {} |-> EmptyBucket]              \* mask 0
Blank(n) == [i \in 0 .. n - 1 |-> EmptyBucket]

Size(x) == Cardinality(DOMAIN x)
Used(x) == Cardinality({i \in DOMAIN x : x[i] # EmptyBucket})

\* buckets_for(): the smallest power of two for that many entries
BucketsFor(entries) ==
    LET size[n \in Nat] == IF n >= 2 * entries THEN n ELSE size[2 * n]
    IN size[MinBuckets]

\* The buckets a search for h looks at: up to the first free one
At(x, h, k) == (h + k) % Size(x)
Length(x, h) == CHOOSE k \in DOMAIN x : /\ x[At(x, h, k)] = EmptyBucket
                                        /\ \A j \in 0 .. k - 1 : x[At(x, h, j)] # EmptyBucket
Probed(x, h) == {At(x, h, k) : k \in 0 .. Length(x, h) - 1}

\* put()
Put(x, h, slot) ==
    IF \E i \in Probed(x, h) : x[i] = <<h, slot>> THEN x
    ELSE [x EXCEPT ![At(x, h, Length(x, h))] = <<h, slot>>]

\* Mutant: buckets are copied as they are, not by their hashes
Grown_Copy(x) ==
    [i \in 0 .. 2 * Size(x) - 1 |-> IF i < Size(x) THEN x[i] ELSE EmptyBucket]

\* Mutant: the last bucket is left out
Grown_Short(x) ==
    LET put[i \in 0 .. Size(x)] ==
            IF i = 0 THEN Blank(2 * Size(x))
            ELSE IF x[i - 1] = EmptyBucket THEN put[i - 1]
            ELSE Put(put[i - 1], x[i - 1][1], x[i - 1][2])
    IN put[Size(x) - 1]

\* The table twice as big, its buckets put in again
Grown(x) ==
    LET put[i \in 0 .. Size(x)] ==
            IF i = 0 THEN Blank(2 * Size(x))
            ELSE IF x[i - 1] = EmptyBucket THEN put[i - 1]
            ELSE Put(put[i - 1], x[i - 1][1], x[i - 1][2])
    IN put[Size(x)]

Full(x) == Size(x) = 0 \/ 2 * (Used(x) + 1) > Size(x)
Room(x) == IF Size(x) = 0 THEN Blank(MinBuckets) ELSE Grown(x)

\* slotidx_insert(): without memory for a bigger table nothing changes
Insert(h, slot) ==
    \/ ~Full(table) /\ table' = Put(table, h, slot)
    \/ /\ Full(table) /\ 2 * Size(table) <= MaxBuckets
       /\ table' = Put(Room(table), h, slot)
InsertFails == Full(table) /\ UNCHANGED table

\* slotidx_reset(): emptied, and sized again; without memory there is no table
Reset(entries) ==
    \/ table' = Blank(BucketsFor(entries))
    \/ Size(table) # BucketsFor(entries) /\ table' = NoTable

\* slotidx_find(): of the slots under h that match, the
\* lowest, if any
Lowest(slots) == {s \in slots : \A t \in slots : s <= t}
Find(x, h, matching) ==
    IF Size(x) = 0 THEN {}
    ELSE Lowest({x[i][2] : i \in {j \in Probed(x, h) : x[j][1] = h}} \cap matching)

SlotInit == table = NoTable
SlotNext ==
    \/ \E h \in Hashes, slot \in IdxSlots : Insert(h, slot)
    \/ InsertFails
    \/ \E entries \in {1, Cardinality(IdxSlots)} : Reset(entries)
SlotSpec == SlotInit /\ [][SlotNext]_slotVars

----------------------------------------------------------------------------
Pairs == {table[i] : i \in DOMAIN table} \ {EmptyBucket}

\* A search finds the lowest of the matching slots put in under its hash,
\* however the buckets of other hashes wrap around and run into its own, and
\* whichever slots have gone stale.
FindExact ==
    \A h \in Hashes : \A matching \in SUBSET IdxSlots :
        Find(table, h, matching) = Lowest({s \in matching : <<h, s>> \in Pairs})

\* The table is the set of pairs of IndexSet, through collisions, growth and
\* failures of memory.
Set == INSTANCE IndexSet WITH pairs <- Pairs
SlotImplements == Set!IndexSpec

=============================================================================
