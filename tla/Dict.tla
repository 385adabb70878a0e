-------------------------------- MODULE Dict --------------------------------
(***************************************************************************)
(* The hash table of the Redis keyspace (dict.c): it grows and shrinks by  *)
(* moving one bucket at a time from ht[0] to ht[1], in steps hidden in     *)
(* other operations and in the server's cron, while KEYS walks it with an  *)
(* iterator and SCAN with a cursor that survives resizes.                  *)
(*                                                                         *)
(* A table is its size and the set of its keys: a key is in the bucket     *)
(* that its hash selects, and the order of a chain is left out.            *)
(***************************************************************************)
EXTENDS Integers, FiniteSets

CONSTANTS
    Key,            \* the keys
    Bits,           \* width of hashes and of scan cursors
    Hashes,         \* the hash functions that a seed may select
    InitialSize,    \* DICT_HT_INITIAL_SIZE
    ForceRatio,     \* dict_force_resize_ratio
    MinFill,        \* HASHTABLE_MIN_FILL, in percent
    EmptyVisits     \* empty buckets that one rehash step skips

\* Powers of two.
Pow2[i \in 0 .. Bits] == IF i = 0 THEN 1 ELSE 2 * Pow2[i - 1]

Word == 0 .. Pow2[Bits] - 1

Sizes == {InitialSize * Pow2[i] : i \in 0 .. Bits} \cap (1 .. Pow2[Bits])

ASSUME DictAssumption ==
    /\ Bits \in Nat \ {0}
    /\ InitialSize \in 1 .. Pow2[Bits]
    /\ Pow2[Bits] \in Sizes
    /\ IsFiniteSet(Key)
    /\ 2 * Cardinality(Key) <= Pow2[Bits]
    /\ Hashes \subseteq [Key -> Word]
    /\ ForceRatio \in Nat
    /\ MinFill \in Nat
    /\ EmptyVisits \in Nat \ {0}

VARIABLES
    hash,       \* the hash function, fixed by the seed of this process
    d,          \* the dictionary
    canResize,  \* dict_can_resize: no child is saving
    scan,       \* a SCAN from its first call to its last
    iter,       \* the safe iterator of a KEYS command
    keys        \* history: the keys added and not deleted since

vars == <<hash, d, canResize, scan, iter, keys>>

\* A table that is not allocated (_dictReset).
NoTable == [size |-> 0, keys |-> {}]

Table == {NoTable} \cup [size : Sizes, keys : SUBSET Key]

\* dictCreate.
NewDict == [ht0 |-> NoTable, ht1 |-> NoTable, rehashidx |-> -1, iterators |-> 0]

\* owed: the keys that were there at the start, still are, and were not
\* returned yet.
NoScan == [on |-> FALSE, v |-> 0, owed |-> {}]

NoIter == [on |-> FALSE, table |-> 0, index |-> -1, got |-> {}, owed |-> {},
           twice |-> FALSE]

Init ==
    /\ hash \in Hashes
    /\ d = NewDict
    /\ canResize = TRUE
    /\ scan = NoScan
    /\ iter = NoIter
    /\ keys = {}

-----------------------------------------------------------------------------
(* The operators of dict.c on a dictionary e.                              *)

IsRehashing(e) == e.rehashidx # -1

Bucket(t, i) == {k \in t.keys : hash[k] % t.size = i}

\* The smallest size in Sizes that is at least n.
NextPower(n) == CHOOSE s \in Sizes : s >= n /\ \A t \in Sizes : t >= n => s <= t

\* dictFind after its rehash step: ht[1] is searched only while rehashing.
Found(e, k) == k \in e.ht0.keys \/ (IsRehashing(e) /\ k \in e.ht1.keys)

Elements(e) == e.ht0.keys \cup e.ht1.keys

\* dictExpand.
Expand(e, n) ==
    LET size == NextPower(n)
        t == [size |-> size, keys |-> {}]
    IN  IF IsRehashing(e) \/ Cardinality(e.ht0.keys) > n \/ size = e.ht0.size THEN e
        ELSE IF e.ht0.size = 0 THEN [e EXCEPT !.ht0 = t]
        ELSE [e EXCEPT !.ht1 = t, !.rehashidx = 0]

\* _dictExpandIfNeeded.
ExpandIfNeeded(e) ==
    LET used == Cardinality(e.ht0.keys) IN
    IF IsRehashing(e) THEN e
    ELSE IF e.ht0.size = 0 THEN Expand(e, InitialSize)
    ELSE IF used >= e.ht0.size /\ (canResize \/ used \div e.ht0.size > ForceRatio)
    THEN Expand(e, 2 * used)
    ELSE e

\* The end of dictRehash: the new table takes the place of the old one.
FinishRehash(e) ==
    IF e.ht0.keys = {}
    THEN [e EXCEPT !.ht0 = e.ht1, !.ht1 = NoTable, !.rehashidx = -1]
    ELSE e

\* dictRehash(e, 1): skip empty buckets, at most EmptyVisits of them, and move
\* the first bucket that has keys.
Rehash(e) ==
    IF e.ht0.keys = {}
    THEN FinishRehash(e)
    ELSE LET next == CHOOSE i \in e.rehashidx .. e.ht0.size - 1 :
                        /\ Bucket(e.ht0, i) # {}
                        /\ \A j \in e.rehashidx .. i - 1 : Bucket(e.ht0, j) = {}
         IN  IF next - e.rehashidx >= EmptyVisits
             THEN [e EXCEPT !.rehashidx = @ + EmptyVisits]
             ELSE FinishRehash([e EXCEPT
                        !.ht0.keys = @ \ Bucket(e.ht0, next),
                        !.ht1.keys = @ \cup Bucket(e.ht0, next),
                        !.rehashidx = next + 1])

\* Mutant: iterators do not hold the rehashing up.
RehashStepAlways(e) == IF IsRehashing(e) THEN Rehash(e) ELSE e

\* _dictRehashStep, as the other operations call it.
RehashStep(e) ==
    IF IsRehashing(e) /\ e.iterators = 0 THEN Rehash(e) ELSE e

-----------------------------------------------------------------------------
(* Operations.  During a KEYS command nothing but its iterator, and what   *)
(* the command does with the keys it gets, touches the dictionary.         *)

\* History: a key that goes is no longer owed, and counts as new if it comes
\* back.
Forget(k) ==
    /\ scan' = [scan EXCEPT !.owed = @ \ {k}]
    /\ iter' = [iter EXCEPT !.owed = @ \ {k}, !.got = @ \ {k}]

\* dictAddRaw: a key that is new goes to the new table while rehashing.
Add(k) ==
    LET e == ExpandIfNeeded(RehashStep(d)) IN
    /\ d' = IF Found(e, k) THEN e
            ELSE IF IsRehashing(e) THEN [e EXCEPT !.ht1.keys = @ \cup {k}]
            ELSE [e EXCEPT !.ht0.keys = @ \cup {k}]
    /\ keys' = keys \cup {k}
    /\ UNCHANGED <<hash, canResize, scan, iter>>

\* dictFind: whatever it looks for, it does a step of the rehashing first.
Find ==
    /\ Elements(d) # {}
    /\ d' = RehashStep(d)
    /\ UNCHANGED <<hash, canResize, scan, iter, keys>>

\* Mutant: only the old table is searched.
DeleteOld(k) ==
    /\ Elements(d) # {}
    /\ iter.on => k \in iter.got
    /\ d' = LET e == RehashStep(d) IN [e EXCEPT !.ht0.keys = @ \ {k}]
    /\ keys' = keys \ {k}
    /\ Forget(k)
    /\ UNCHANGED <<hash, canResize>>

\* dictGenericDelete; an iterator's user deletes only what it was given.
Delete(k) ==
    /\ Elements(d) # {}
    /\ iter.on => k \in iter.got
    /\ LET e == RehashStep(d) IN
        d' = IF k \in e.ht0.keys THEN [e EXCEPT !.ht0.keys = @ \ {k}]
             ELSE IF IsRehashing(e) THEN [e EXCEPT !.ht1.keys = @ \ {k}]
             ELSE e
    /\ keys' = keys \ {k}
    /\ Forget(k)
    /\ UNCHANGED <<hash, canResize>>

\* dictEmpty.
Clear ==
    /\ ~iter.on
    /\ d' = NewDict
    /\ keys' = {}
    /\ scan' = [scan EXCEPT !.owed = {}]
    /\ UNCHANGED <<hash, canResize, iter>>

\* tryResizeHashTables and dictResize, from databasesCron.
CronResize ==
    /\ ~iter.on
    /\ canResize
    /\ ~IsRehashing(d)
    /\ d.ht0.size > InitialSize
    /\ (Cardinality(d.ht0.keys) * 100) \div d.ht0.size < MinFill
    /\ d' = LET used == Cardinality(d.ht0.keys)
            IN Expand(d, IF used < InitialSize THEN InitialSize ELSE used)
    /\ UNCHANGED <<hash, canResize, scan, iter, keys>>

\* Mutant: the cron only goes on with what has to be moved.
CronRehashIfUsed ==
    /\ ~iter.on
    /\ canResize
    /\ IsRehashing(d)
    /\ d.ht0.keys # {}
    /\ d' = Rehash(d)
    /\ UNCHANGED <<hash, canResize, scan, iter, keys>>

\* incrementallyRehash, from databasesCron: its millisecond may end after any
\* bucket.
CronRehash ==
    /\ ~iter.on
    /\ canResize
    /\ IsRehashing(d)
    /\ d' = Rehash(d)
    /\ UNCHANGED <<hash, canResize, scan, iter, keys>>

\* updateDictResizePolicy, when a saving child starts or ends.
ResizePolicy ==
    /\ ~iter.on
    /\ canResize' = ~canResize
    /\ UNCHANGED <<hash, d, scan, iter, keys>>

-----------------------------------------------------------------------------
(* Iterating.                                                              *)

\* keysCommand: dictGetSafeIterator and the first dictNext.
IterBegin ==
    /\ ~iter.on
    /\ iter' = [NoIter EXCEPT !.on = TRUE, !.owed = keys]
    /\ d' = [d EXCEPT !.iterators = @ + 1]
    /\ UNCHANGED <<hash, canResize, scan, keys>>

IterTable == IF iter.table = 0 THEN d.ht0 ELSE d.ht1

\* dictNext, bucket by bucket; after ht[0] it goes on with ht[1] if there is
\* one.
IterNext ==
    LET more == iter.index + 1 < IterTable.size
        table == IF more THEN iter.table ELSE 1
        index == IF more THEN iter.index + 1 ELSE 0
        b == Bucket(IF table = 0 THEN d.ht0 ELSE d.ht1, index)
    IN
    /\ iter.on
    /\ more \/ (iter.table = 0 /\ IsRehashing(d))
    /\ iter' = [iter EXCEPT !.table = table,
                            !.index = index,
                            !.got = @ \cup b,
                            !.owed = @ \ b,
                            !.twice = @ \/ b \cap iter.got # {}]
    /\ UNCHANGED <<hash, d, canResize, scan, keys>>

\* No bucket is left.
IterDone ==
    /\ iter.on
    /\ iter.index + 1 >= IterTable.size
    /\ iter.table = 1 \/ ~IsRehashing(d)

\* dictReleaseIterator.
IterEnd ==
    /\ IterDone
    /\ iter' = NoIter
    /\ d' = [d EXCEPT !.iterators = @ - 1]
    /\ UNCHANGED <<hash, canResize, scan, keys>>

-----------------------------------------------------------------------------
(* Scanning: dictScan with its reverse binary cursor.                      *)

Bit(v, i) == (v \div Pow2[i]) % 2

\* rev: the bits in reverse order.
Rev == [v \in Word |->
            CHOOSE r \in Word :
                \A i \in 0 .. Bits - 1 : Bit(r, i) = Bit(v, Bits - 1 - i)]

\* Mutant: the cursor counts upwards.
AdvanceUpwards(v, size) == IF (v % size) + 1 = size THEN 0 ELSE (v % size) + 1

\* Set the bits above the mask of a table of this size, then increment the
\* reversed cursor; the sum wraps at the width of a word.
Advance(v, size) ==
    LET high == (v % size) + (Pow2[Bits] - size)
    IN Rev[(Rev[high] + 1) % Pow2[Bits]]

\* Mutant: only the first of those buckets is visited.
ExpansionsFirst(small, large, v) ==
    [got |-> Bucket(large, v % large.size), v |-> Advance(v, small.size)]

\* The loop over the buckets of the larger table that expand the cursor: the
\* keys it finds and the cursor it leaves.
Expansions(small, large, v) ==
    LET next == [w \in Word |-> Advance(w, large.size)]
        more(w) == (w % large.size) \div small.size # 0
        loop[w \in Word] ==
            LET b == Bucket(large, w % large.size) IN
            IF more(next[w])
            THEN [got |-> b \cup loop[next[w]].got, v |-> loop[next[w]].v]
            ELSE [got |-> b, v |-> next[w]]
    IN loop[v]

\* dictScan: the keys it returns and the next cursor.
Scan(v) ==
    IF Elements(d) = {} THEN [got |-> {}, v |-> 0]
    ELSE IF ~IsRehashing(d)
    THEN [got |-> Bucket(d.ht0, v % d.ht0.size), v |-> Advance(v, d.ht0.size)]
    ELSE LET small == IF d.ht0.size > d.ht1.size THEN d.ht1 ELSE d.ht0
             large == IF d.ht0.size > d.ht1.size THEN d.ht0 ELSE d.ht1
             x == Expansions(small, large, v)
         IN  [got |-> Bucket(small, v % small.size) \cup x.got, v |-> x.v]

\* One SCAN command; cursor 0 starts a scan.
ScanStep ==
    /\ ~iter.on
    /\ scan.on \/ scan.v = 0
    /\ LET s == IF scan.on THEN scan
                ELSE [NoScan EXCEPT !.on = TRUE, !.owed = keys]
           r == Scan(s.v)
       IN  scan' = [s EXCEPT !.v = r.v,
                             !.owed = @ \ r.got,
                             !.on = r.v # 0]
    /\ UNCHANGED <<hash, d, canResize, iter, keys>>

-----------------------------------------------------------------------------
Next ==
    \/ \E k \in Key : Add(k) \/ Delete(k)
    \/ Find
    \/ Clear
    \/ CronResize
    \/ CronRehash
    \/ ResizePolicy
    \/ IterBegin
    \/ IterNext
    \/ IterEnd
    \/ ScanStep

\* The cron comes back, a command ends, and so does every saving child.
Fairness ==
    /\ SF_vars(CronRehash)
    /\ WF_vars(IterNext \/ IterEnd)
    /\ SF_vars(ResizePolicy /\ canResize')

Spec == Init /\ [][Next]_vars

FairSpec == Spec /\ Fairness
-----------------------------------------------------------------------------
(* Properties.                                                             *)

\* The tables as dict.c keeps them: no key in both, the second one allocated
\* exactly while rehashing, and then beside a first one, as many safe iterators as run. (That the cursor of a
\* scan is a word is part of ScanComplete.)
TypeOK ==
    /\ hash \in Hashes
    /\ d \in [ht0 : Table, ht1 : Table, rehashidx : Int, iterators : Nat]
    /\ d.ht0.keys \cap d.ht1.keys = {}
    /\ IsRehashing(d) <=> d.ht1 # NoTable
    /\ IsRehashing(d) => d.ht0 # NoTable
    /\ d.rehashidx \in -1 .. d.ht0.size
    /\ d.iterators = IF iter.on THEN 1 ELSE 0
    /\ canResize \in BOOLEAN
    /\ keys \subseteq Key
    /\ scan \in [on : BOOLEAN, v : {scan.v}, owed : SUBSET Key]
    /\ iter \in [on : BOOLEAN, table : {0, 1}, index : -1 .. Pow2[Bits] - 1,
                 got : SUBSET Key, owed : SUBSET Key, twice : BOOLEAN]

\* At every moment of a resize, dictFind finds the keys that were added and
\* not deleted, and no others.
LookupExact == {k \in Key : Found(d, k)} = keys

\* What is left in the old table is in buckets that rehashing has still to
\* visit: dictRehash never walks past its end (the assert of dict.c:197), and
\* never frees a table that has keys.
MovedBehind ==
    IsRehashing(d) =>
        \A k \in d.ht0.keys : hash[k] % d.ht0.size >= d.rehashidx

\* The two tables are one dictionary at every moment of a resize: well formed,
\* with nothing left behind the rehash index, and found in full.
TablesInv == TypeOK /\ MovedBehind /\ LookupExact

\* KEYS returns every key that stays for the whole command, and none twice,
\* even when it runs in the middle of a rehashing.
KeysOnce ==
    /\ ~iter.twice
    /\ IterDone => iter.owed = {}

\* The cursor stays a word, and a SCAN that came to its end has returned every key
\* that was there from its first call to its last, whatever grew, shrank or was half
\* moved in between.
ScanComplete == scan.v \in Word /\ (~scan.on => scan.owed = {})

\* A cursor that a call of SCAN changes goes forward in the order of the reversed
\* bits, when tables grow, shrink or move between the calls too: no scan turns back.
ScanForward ==
    [][scan.on /\ scan'.on /\ scan'.v # scan.v
         => Rev[scan'.v] > Rev[scan.v]]_vars

\* A rehashing that begins comes to its end, with nobody using the keys.
RehashEnds == IsRehashing(d) ~> ~IsRehashing(d)
=============================================================================
