----------------------------- MODULE DictProofs -----------------------------
(***************************************************************************)
(* The two tables of a resizing dictionary are one dictionary, KEYS        *)
(* returns every key that stays, once, and SCAN returns every key that     *)
(* stays, whatever is resized under its cursor (module Dict).              *)
(***************************************************************************)
EXTENDS Dict, FiniteSetTheorems, WellFoundedInduction, TLAPS

-----------------------------------------------------------------------------
(* Arithmetic and minima.                                                  *)

LEMMA Modulo ==
    ASSUME NEW a \in Int, NEW b \in Nat, b # 0
    PROVE  a % b \in 0 .. b - 1
OBVIOUS

\* A set of naturals that is not empty has a least element.
LEMMA Least ==
    ASSUME NEW T, T \subseteq Nat, T # {}
    PROVE  \E x \in T : \A y \in T : x <= y
<1>1. PICK x \in T : \A y \in T : ~(<<y, x>> \in OpToRel(<, Nat))
  BY NatLessThanWellFounded, WFMin
<1>2. ASSUME NEW y \in T PROVE x <= y
  <2>1. x \in Nat /\ y \in Nat
    OBVIOUS
  <2>2. ~(y < x)
    BY <1>1, <2>1 DEF OpToRel
  <2> QED
    BY <2>1, <2>2
<1> QED
  BY <1>2

LEMMA SizeFacts ==
    /\ Pow2[Bits] \in Nat \ {0}
    /\ Sizes \subseteq Nat \ {0}
    /\ \A s \in Sizes : s <= Pow2[Bits]
<1>1. Pow2[Bits] \in 1 .. Pow2[Bits]
  BY DictAssumption DEF Sizes
<1> QED
  BY <1>1 DEF Sizes

\* _dictNextPower: up to the largest table there is a size for every n.
LEMMA NextPowerIs ==
    ASSUME NEW n \in Nat, n <= Pow2[Bits]
    PROVE  NextPower(n) \in Sizes /\ NextPower(n) >= n
<1> DEFINE T == {s \in Sizes : s >= n}
<1>1. T \subseteq Nat /\ T # {}
  BY SizeFacts, DictAssumption
<1>2. PICK x \in T : \A y \in T : x <= y
  BY <1>1, Least
<1>3. x \in Sizes /\ x >= n /\ \A t \in Sizes : t >= n => x <= t
  BY <1>2
<1> QED
  BY <1>3 DEF NextPower

-----------------------------------------------------------------------------
(* Tables.                                                                 *)

LEMMA TableFacts ==
    ASSUME NEW t \in Table
    PROVE  /\ t.size \in Nat /\ t.size <= Pow2[Bits]
           /\ t.keys \subseteq Key
           /\ t.size = 0 <=> t = NoTable
           /\ t = NoTable => t.keys = {}
           /\ IsFiniteSet(t.keys)
           /\ Cardinality(t.keys) \in Nat
           /\ 2 * Cardinality(t.keys) <= Pow2[Bits]
<1>1. t = NoTable \/ t \in [size : Sizes, keys : SUBSET Key]
  BY DEF Table
<1>2. /\ t.size \in Nat /\ t.size <= Pow2[Bits]
      /\ t.keys \subseteq Key
      /\ t.size = 0 <=> t = NoTable
      /\ t = NoTable => t.keys = {}
  <2>1. CASE t = NoTable
    BY <2>1, SizeFacts DEF NoTable
  <2>2. CASE t \in [size : Sizes, keys : SUBSET Key]
    <3>1. t.size \in Nat /\ t.size # 0 /\ t.size <= Pow2[Bits] /\ t.keys \subseteq Key
      BY <2>2, SizeFacts
    <3>2. t # NoTable
      BY <3>1 DEF NoTable
    <3> QED
      BY <3>1, <3>2
  <2> QED
    BY <1>1, <2>1, <2>2
<1>3. /\ IsFiniteSet(t.keys)
      /\ Cardinality(t.keys) <= Cardinality(Key)
      /\ Cardinality(t.keys) \in Nat /\ Cardinality(Key) \in Nat
  BY <1>2, DictAssumption, FS_Subset, FS_CardinalityType
<1>4. 2 * Cardinality(t.keys) <= Pow2[Bits]
  BY <1>3, SizeFacts, DictAssumption
<1> QED
  BY <1>2, <1>3, <1>4

\* The bucket of a key in a table with keys.
Slot(t, k) == hash[k] % t.size

LEMMA SlotFacts ==
    ASSUME hash \in Hashes, NEW t \in Table, NEW k \in t.keys
    PROVE  Slot(t, k) \in 0 .. t.size - 1
<1>1. t.size \in Nat /\ t.size # 0 /\ k \in Key
  BY TableFacts
<1>2. hash[k] \in Int
  BY <1>1, DictAssumption, SizeFacts DEF Word
<1> QED
  BY <1>1, <1>2, Modulo DEF Slot

\* What TypeOK and MovedBehind say of a dictionary e, wherever an operation of
\* dict.c leaves it.
Dictionary ==
    [ht0 : Table, ht1 : Table, rehashidx : Int, iterators : Nat]

Sound(e) ==
    /\ e \in Dictionary
    /\ e.ht0.keys \cap e.ht1.keys = {}
    /\ IsRehashing(e) <=> e.ht1 # NoTable
    /\ IsRehashing(e) => e.ht0 # NoTable
    /\ e.rehashidx \in -1 .. e.ht0.size
    /\ IsRehashing(e) => \A k \in e.ht0.keys : Slot(e.ht0, k) >= e.rehashidx

LEMMA FoundIs ==
    ASSUME NEW e, Sound(e), NEW k
    PROVE  Found(e, k) <=> k \in Elements(e)
BY TableFacts DEF Found, Elements, Sound, Dictionary

LEMMA NewTable ==
    ASSUME NEW n \in Nat, n <= Pow2[Bits]
    PROVE  /\ [size |-> NextPower(n), keys |-> {}] \in Table
           /\ [size |-> NextPower(n), keys |-> {}] # NoTable
BY NextPowerIs, SizeFacts DEF Table, NoTable

-----------------------------------------------------------------------------
(* Updates of several fields of a record, one by one.                      *)

LEMMA SetTables ==
    ASSUME NEW e \in Dictionary, NEW a, NEW b, NEW i
    PROVE  [e EXCEPT !.ht0 = a, !.ht1 = b, !.rehashidx = i] =
              [ht0 |-> a, ht1 |-> b, rehashidx |-> i, iterators |-> e.iterators]
<1> DEFINE f == [e EXCEPT !.ht0 = a]
           g == [f EXCEPT !.ht1 = b]
<1>1. f = [ht0 |-> a, ht1 |-> e.ht1, rehashidx |-> e.rehashidx, iterators |-> e.iterators]
  BY DEF Dictionary
<1>2. [e EXCEPT !.ht0 = a, !.ht1 = b, !.rehashidx = i] = [g EXCEPT !.rehashidx = i]
  OBVIOUS
<1> HIDE DEF f
<1>3. g = [ht0 |-> a, ht1 |-> b, rehashidx |-> e.rehashidx, iterators |-> e.iterators]
  BY <1>1
<1> HIDE DEF g
<1> QED
  BY <1>2, <1>3

LEMMA SetSecond ==
    ASSUME NEW e \in Dictionary, NEW b, NEW i
    PROVE  [e EXCEPT !.ht1 = b, !.rehashidx = i] =
              [ht0 |-> e.ht0, ht1 |-> b, rehashidx |-> i, iterators |-> e.iterators]
<1> DEFINE g == [e EXCEPT !.ht1 = b]
<1>1. g = [ht0 |-> e.ht0, ht1 |-> b, rehashidx |-> e.rehashidx, iterators |-> e.iterators]
  BY DEF Dictionary
<1>2. [e EXCEPT !.ht1 = b, !.rehashidx = i] = [g EXCEPT !.rehashidx = i]
  OBVIOUS
<1> HIDE DEF g
<1> QED
  BY <1>1, <1>2

LEMMA MoveKeys ==
    ASSUME NEW e \in Dictionary, NEW B, NEW i
    PROVE  [e EXCEPT !.ht0.keys = @ \ B, !.ht1.keys = @ \cup B, !.rehashidx = i] =
              [ht0 |-> [size |-> e.ht0.size, keys |-> e.ht0.keys \ B],
               ht1 |-> [size |-> e.ht1.size, keys |-> e.ht1.keys \cup B],
               rehashidx |-> i, iterators |-> e.iterators]
<1> DEFINE a == [e.ht0 EXCEPT !.keys = @ \ B]
           b == [e.ht1 EXCEPT !.keys = @ \cup B]
           f == [e EXCEPT !.ht0 = a]
           g == [f EXCEPT !.ht1 = b]
<1>1. /\ a = [size |-> e.ht0.size, keys |-> e.ht0.keys \ B]
      /\ b = [size |-> e.ht1.size, keys |-> e.ht1.keys \cup B]
  BY DEF Dictionary, Table, NoTable
<1>2. f = [ht0 |-> a, ht1 |-> e.ht1, rehashidx |-> e.rehashidx, iterators |-> e.iterators]
  BY DEF Dictionary
<1>3. [e EXCEPT !.ht0.keys = @ \ B, !.ht1.keys = @ \cup B, !.rehashidx = i]
         = [g EXCEPT !.rehashidx = i]
  <2>1. f.ht1 = e.ht1
    BY <1>2
  <2> QED
    BY <2>1
<1> HIDE DEF a, b, f
<1>4. g = [ht0 |-> a, ht1 |-> b, rehashidx |-> e.rehashidx, iterators |-> e.iterators]
  BY <1>2
<1> HIDE DEF g
<1>5. [g EXCEPT !.rehashidx = i] =
         [ht0 |-> a, ht1 |-> b, rehashidx |-> i, iterators |-> e.iterators]
  BY <1>4
<1> QED
  BY <1>1, <1>3, <1>5

-----------------------------------------------------------------------------
(* What the operations of dict.c do to a dictionary.                       *)

\* dictExpand allocates an empty table, as the first or as the second one.
LEMMA ExpandSound ==
    ASSUME hash \in Hashes, NEW e, Sound(e), NEW n \in Nat, n <= Pow2[Bits],
           NEW f, f = Expand(e, n)
    PROVE  /\ Sound(f)
           /\ f.ht0.keys = e.ht0.keys /\ f.ht1.keys = e.ht1.keys
           /\ f.iterators = e.iterators
           /\ e.ht0.size # 0 => f.ht0 = e.ht0
           /\ IsRehashing(e) => f = e
           /\ f.ht0.size # 0 \/ IsRehashing(f)
<1>1. PICK t : t = [size |-> NextPower(n), keys |-> {}]
  OBVIOUS
<1>2. t \in Table /\ t # NoTable /\ t.keys = {} /\ t.size \in Nat
  BY <1>1, NewTable, TableFacts
<1>3. e \in Dictionary /\ e.ht0 \in Table /\ e.ht1 \in Table /\ e.ht0.size \in Nat
  BY TableFacts DEF Sound, Dictionary
<1>4. \/ f = e
      \/ e.ht0.size = 0 /\ ~IsRehashing(e) /\ f = [e EXCEPT !.ht0 = t]
      \/ /\ e.ht0.size # 0 /\ ~IsRehashing(e)
         /\ f = [e EXCEPT !.ht1 = t, !.rehashidx = 0]
  BY <1>1 DEF Expand
<1>5. CASE f = e
  <2>1. CASE IsRehashing(e)
    BY <1>5, <2>1
  <2>2. CASE ~IsRehashing(e) /\ e.ht0.size = 0
    <3>1. e.ht0.keys = {} /\ Cardinality(e.ht0.keys) = 0
      BY <1>3, <2>2, TableFacts, FS_EmptySet
    <3>2. f = [e EXCEPT !.ht0 = t]
      BY <1>1, <1>2, <2>2, <3>1, NextPowerIs, SizeFacts DEF Expand
    <3>3. f.ht0 = t
      BY <1>3, <3>2 DEF Dictionary
    <3> QED
      BY <1>2, <1>3, <1>5, <2>2, <3>3, TableFacts
  <2> QED
    BY <1>5, <2>1, <2>2
<1>6. CASE e.ht0.size = 0 /\ ~IsRehashing(e) /\ f = [e EXCEPT !.ht0 = t]
  <2>1. /\ f.ht0 = t /\ f.ht1 = e.ht1 /\ f.rehashidx = e.rehashidx
        /\ f.iterators = e.iterators /\ f \in Dictionary
    BY <1>2, <1>3, <1>6 DEF Dictionary
  <2>2. e.ht0.keys = {}
    BY <1>3, <1>6, TableFacts
  <2>3. e.rehashidx = -1
    BY <1>6 DEF IsRehashing
  <2>4. Sound(f)
    BY <1>2, <1>6, <2>1, <2>2, <2>3 DEF Sound, IsRehashing
  <2> QED
    BY <1>2, <1>6, <2>1, <2>2, <2>4, TableFacts
<1>7. CASE /\ e.ht0.size # 0 /\ ~IsRehashing(e)
           /\ f = [e EXCEPT !.ht1 = t, !.rehashidx = 0]
  <2>1. /\ f.ht0 = e.ht0 /\ f.ht1 = t /\ f.rehashidx = 0
        /\ f.iterators = e.iterators /\ f \in Dictionary
    <3>1. f = [ht0 |-> e.ht0, ht1 |-> t, rehashidx |-> 0, iterators |-> e.iterators]
      BY <1>3, <1>7, SetSecond, Zenon
    <3> QED
      BY <1>2, <1>3, <3>1 DEF Dictionary
  <2>2. e.ht1 = NoTable /\ e.ht1.keys = {}
    BY <1>3, <1>7, TableFacts DEF Sound
  <2>3. \A k \in e.ht0.keys : Slot(e.ht0, k) >= 0
    BY <1>3, SlotFacts
  <2>4. Sound(f)
    <3>1. e.ht0 # NoTable
      BY <1>3, <1>7, TableFacts
    <3> QED
      BY <1>2, <1>3, <1>7, <2>1, <2>2, <2>3, <3>1 DEF Sound, IsRehashing
  <2> QED
    BY <1>2, <1>7, <2>1, <2>2, <2>4 DEF IsRehashing
<1> QED
  BY <1>4, <1>5, <1>6, <1>7

LEMMA ExpandIfNeededSound ==
    ASSUME hash \in Hashes, NEW e, Sound(e), NEW f, f = ExpandIfNeeded(e)
    PROVE  /\ Sound(f)
           /\ f.ht0.keys = e.ht0.keys /\ f.ht1.keys = e.ht1.keys
           /\ f.iterators = e.iterators
           /\ e.ht0.size # 0 => f.ht0 = e.ht0
           /\ IsRehashing(e) => f = e
           /\ f.ht0.size # 0 \/ IsRehashing(f)
<1>1. PICK n : n = Cardinality(e.ht0.keys)
  OBVIOUS
<1>2. n \in Nat /\ 2 * n \in Nat /\ 2 * n <= Pow2[Bits]
  <2>1. e.ht0 \in Table
    BY DEF Sound, Dictionary
  <2> QED
    BY <1>1, <2>1, TableFacts
<1>3. InitialSize \in Nat /\ InitialSize <= Pow2[Bits]
  BY DictAssumption, SizeFacts
<1>4. \/ f = e /\ (e.ht0.size # 0 \/ IsRehashing(e))
      \/ f = Expand(e, InitialSize)
      \/ f = Expand(e, 2 * n)
  BY <1>1 DEF ExpandIfNeeded
<1>5. CASE f = e /\ (e.ht0.size # 0 \/ IsRehashing(e))
  BY <1>5
<1>6. CASE f = Expand(e, InitialSize)
  BY <1>3, <1>6, ExpandSound
<1>7. CASE f = Expand(e, 2 * n)
  BY <1>2, <1>7, ExpandSound
<1> QED
  BY <1>4, <1>5, <1>6, <1>7

LEMMA FinishSound ==
    ASSUME hash \in Hashes, NEW e, Sound(e), IsRehashing(e), NEW f, f = FinishRehash(e)
    PROVE  Sound(f) /\ Elements(f) = Elements(e) /\ f.iterators = e.iterators
<1>1. CASE e.ht0.keys = {}
  <2>1. f = [e EXCEPT !.ht0 = e.ht1, !.ht1 = NoTable, !.rehashidx = -1]
    BY <1>1 DEF FinishRehash
  <2>2. f = [ht0 |-> e.ht1, ht1 |-> NoTable, rehashidx |-> -1, iterators |-> e.iterators]
    BY <2>1, SetTables, Zenon DEF Sound
  <2>3. /\ f.ht0 = e.ht1 /\ f.ht1 = NoTable /\ f.rehashidx = -1 /\ f.iterators = e.iterators
        /\ f \in Dictionary /\ e.ht1 \in Table /\ NoTable \in Table /\ NoTable.keys = {}
    BY <2>2 DEF Sound, Dictionary, Table, NoTable
  <2>4. e.ht1.size \in Nat
    BY <2>3, TableFacts
  <2>5. Sound(f)
    BY <2>3, <2>4 DEF Sound, IsRehashing
  <2> QED
    BY <1>1, <2>3, <2>5 DEF Elements
<1>2. CASE e.ht0.keys # {}
  BY <1>2 DEF FinishRehash
<1> QED
  BY <1>1, <1>2

\* The first bucket that has keys: all keys are in it or behind it.
LEMMA FirstBucket ==
    ASSUME hash \in Hashes, NEW e, Sound(e), IsRehashing(e), e.ht0.keys # {},
           NEW next,
           next = CHOOSE i \in e.rehashidx .. e.ht0.size - 1 :
                        /\ Bucket(e.ht0, i) # {}
                        /\ \A j \in e.rehashidx .. i - 1 : Bucket(e.ht0, j) = {}
    PROVE  /\ e.rehashidx \in Nat /\ e.ht0.size \in Nat
           /\ next \in e.rehashidx .. e.ht0.size - 1
           /\ \A k \in e.ht0.keys : Slot(e.ht0, k) >= next
<1>1. e.ht0 \in Table /\ e.rehashidx \in Nat /\ e.ht0.size \in Nat
  <2>1. e.ht0 \in Table /\ e.rehashidx \in -1 .. e.ht0.size /\ e.rehashidx # -1
    BY DEF Sound, Dictionary, IsRehashing
  <2> QED
    BY <2>1, TableFacts
<1>2. \A k \in e.ht0.keys : Slot(e.ht0, k) \in e.rehashidx .. e.ht0.size - 1
  <2>1. ASSUME NEW k \in e.ht0.keys PROVE Slot(e.ht0, k) \in e.rehashidx .. e.ht0.size - 1
    <3>1. Slot(e.ht0, k) \in 0 .. e.ht0.size - 1
      BY <1>1, SlotFacts
    <3>2. Slot(e.ht0, k) >= e.rehashidx
      BY DEF Sound
    <3> QED
      BY <1>1, <3>1, <3>2
  <2> QED
    BY <2>1
<1> DEFINE T == {Slot(e.ht0, k) : k \in e.ht0.keys}
<1>3. PICK x \in T : \A y \in T : x <= y
  <2>1. T \subseteq Nat /\ T # {}
    BY <1>1, <1>2
  <2> HIDE DEF T
  <2> QED
    BY <2>1, Least
<1>4. \A i : Bucket(e.ht0, i) = {k \in e.ht0.keys : Slot(e.ht0, k) = i}
  BY DEF Bucket, Slot
<1>5. /\ x \in e.rehashidx .. e.ht0.size - 1
      /\ Bucket(e.ht0, x) # {}
      /\ \A j \in e.rehashidx .. x - 1 : Bucket(e.ht0, j) = {}
  <2>1. x \in e.rehashidx .. e.ht0.size - 1
    BY <1>2, <1>3
  <2>2. Bucket(e.ht0, x) # {}
    BY <1>3, <1>4
  <2>3. ASSUME NEW j \in e.rehashidx .. x - 1 PROVE Bucket(e.ht0, j) = {}
    <3>1. j < x
      BY <1>1, <2>1
    <3>2. \A k \in e.ht0.keys : Slot(e.ht0, k) # j
      BY <1>1, <1>2, <1>3, <2>1, <3>1
    <3> QED
      BY <1>4, <3>2
  <2> QED
    BY <2>1, <2>2, <2>3
<1>6. /\ next \in e.rehashidx .. e.ht0.size - 1
      /\ \A j \in e.rehashidx .. next - 1 : Bucket(e.ht0, j) = {}
  BY <1>5
<1>7. ASSUME NEW k \in e.ht0.keys PROVE Slot(e.ht0, k) >= next
  <2>1. Slot(e.ht0, k) \in e.rehashidx .. e.ht0.size - 1
    BY <1>2
  <2>2. Slot(e.ht0, k) \notin e.rehashidx .. next - 1
    BY <1>4, <1>6
  <2> QED
    BY <1>1, <1>6, <2>1, <2>2
<1> QED
  BY <1>1, <1>6, <1>7

\* dictRehash: buckets move, the keys stay.
LEMMA RehashSound ==
    ASSUME hash \in Hashes, NEW e, Sound(e), IsRehashing(e), NEW f, f = Rehash(e)
    PROVE  Sound(f) /\ Elements(f) = Elements(e) /\ f.iterators = e.iterators
<1>1. CASE e.ht0.keys = {}
  BY <1>1, FinishSound DEF Rehash
<1>2. CASE e.ht0.keys # {}
  <2>1. PICK next :
           next = CHOOSE i \in e.rehashidx .. e.ht0.size - 1 :
                        /\ Bucket(e.ht0, i) # {}
                        /\ \A j \in e.rehashidx .. i - 1 : Bucket(e.ht0, j) = {}
    OBVIOUS
  <2>2. /\ e.rehashidx \in Nat /\ e.ht0.size \in Nat
        /\ next \in e.rehashidx .. e.ht0.size - 1
        /\ \A k \in e.ht0.keys : Slot(e.ht0, k) >= next
    BY <1>2, <2>1, FirstBucket
  <2>3. e \in Dictionary /\ e.ht0 \in Table /\ e.ht1 \in Table
    BY DEF Sound, Dictionary
  <2>4. CASE next - e.rehashidx >= EmptyVisits
    <3>1. f = [e EXCEPT !.rehashidx = @ + EmptyVisits]
      BY <1>2, <2>1, <2>4 DEF Rehash
    <3>2. EmptyVisits \in Nat /\ EmptyVisits # 0
      BY DictAssumption
    <3>3. /\ f \in Dictionary
          /\ f.ht0 = e.ht0 /\ f.ht1 = e.ht1 /\ f.iterators = e.iterators
          /\ f.rehashidx = e.rehashidx + EmptyVisits
      BY <2>2, <2>3, <3>1, <3>2 DEF Dictionary
    <3>4. f.rehashidx \in 0 .. f.ht0.size /\ f.rehashidx <= next
      BY <2>2, <2>4, <3>2, <3>3
    <3>5. \A k \in f.ht0.keys : Slot(f.ht0, k) >= f.rehashidx
      <4>1. ASSUME NEW k \in e.ht0.keys PROVE Slot(e.ht0, k) >= f.rehashidx
        <5>1. Slot(e.ht0, k) \in Int /\ Slot(e.ht0, k) >= next
          BY <2>2, <2>3, SlotFacts
        <5> QED
          BY <2>2, <3>4, <5>1
      <4> QED
        BY <3>3, <4>1
    <3>6. Sound(f)
      BY <3>3, <3>4, <3>5 DEF Sound, IsRehashing
    <3> QED
      BY <3>3, <3>6 DEF Elements
  <2>5. CASE ~(next - e.rehashidx >= EmptyVisits)
    <3>1. PICK B : B = Bucket(e.ht0, next)
      OBVIOUS
    <3>2. PICK g : g = [e EXCEPT !.ht0.keys = @ \ B, !.ht1.keys = @ \cup B,
                                 !.rehashidx = next + 1]
      OBVIOUS
    <3>3. f = FinishRehash(g)
      BY <1>2, <2>1, <2>5, <3>1, <3>2, Zenon DEF Rehash
    <3>4. PICK a, b : /\ a = [size |-> e.ht0.size, keys |-> e.ht0.keys \ B]
                      /\ b = [size |-> e.ht1.size, keys |-> e.ht1.keys \cup B]
      OBVIOUS
    <3>5. g = [ht0 |-> a, ht1 |-> b, rehashidx |-> next + 1, iterators |-> e.iterators]
      BY <2>3, <3>2, <3>4, MoveKeys, Zenon
    <3>6. B = {k \in e.ht0.keys : Slot(e.ht0, k) = next}
      BY <3>1 DEF Bucket, Slot
    <3>7. a \in Table /\ b \in Table /\ a # NoTable /\ b # NoTable
      <4>1. e.ht0 # NoTable /\ e.ht1 # NoTable
        BY <1>2, <2>3, TableFacts DEF Sound
      <4>2. e.ht0 \in [size : Sizes, keys : SUBSET Key] /\ e.ht1 \in [size : Sizes, keys : SUBSET Key]
        BY <2>3, <4>1 DEF Table
      <4>3. a.size # 0 /\ b.size # 0
        BY <2>3, <3>4, <4>1, TableFacts
      <4> QED
        BY <3>4, <3>6, <4>2, <4>3 DEF Table, NoTable
    <3>8. next \in Int
      BY <2>2
    <3>9. /\ g \in Dictionary
          /\ g.ht0 = a /\ g.ht1 = b /\ g.rehashidx = next + 1 /\ g.iterators = e.iterators
      BY <2>3, <3>5, <3>7, <3>8 DEF Dictionary
    <3>10. \A k \in a.keys : k \in e.ht0.keys /\ Slot(a, k) = Slot(e.ht0, k) /\ Slot(e.ht0, k) # next
      BY <3>4, <3>6 DEF Slot
    <3>11. ASSUME NEW k \in a.keys PROVE Slot(a, k) >= next + 1
      <4>1. Slot(e.ht0, k) \in Int /\ Slot(e.ht0, k) >= next
        BY <2>2, <2>3, <3>10, SlotFacts
      <4> QED
        BY <2>2, <3>8, <3>10, <4>1
    <3>12. next + 1 \in 0 .. a.size
      BY <2>2, <3>4
    <3>13. a.keys \cap b.keys = {} /\ a.keys \cup b.keys = e.ht0.keys \cup e.ht1.keys
      BY <3>4, <3>6 DEF Sound
    <3>14. Sound(g) /\ IsRehashing(g)
      BY <3>7, <3>9, <3>11, <3>12, <3>13 DEF Sound, IsRehashing
    <3> QED
      BY <3>3, <3>9, <3>13, <3>14, FinishSound DEF Elements
  <2> QED
    BY <2>4, <2>5
<1> QED
  BY <1>1, <1>2

LEMMA RehashStepSound ==
    ASSUME hash \in Hashes, NEW e, Sound(e), NEW f, f = RehashStep(e)
    PROVE  /\ Sound(f) /\ Elements(f) = Elements(e) /\ f.iterators = e.iterators
           /\ e.iterators # 0 => f = e
BY RehashSound DEF RehashStep

\* A key more or less in one table.
LEMMA KeysOfFirst ==
    ASSUME NEW e \in Dictionary, NEW X, NEW f, f = [e EXCEPT !.ht0.keys = X]
    PROVE  f = [ht0 |-> [size |-> e.ht0.size, keys |-> X], ht1 |-> e.ht1,
                rehashidx |-> e.rehashidx, iterators |-> e.iterators]
<1>1. PICK a : a = [e.ht0 EXCEPT !.keys = X]
  OBVIOUS
<1>2. a = [size |-> e.ht0.size, keys |-> X]
  BY <1>1 DEF Dictionary, Table, NoTable
<1>3. f = [e EXCEPT !.ht0 = a]
  BY <1>1, Zenon
<1>4. f = [ht0 |-> a, ht1 |-> e.ht1, rehashidx |-> e.rehashidx, iterators |-> e.iterators]
  BY <1>3 DEF Dictionary
<1> QED
  BY <1>2, <1>4

LEMMA KeysOfSecond ==
    ASSUME NEW e \in Dictionary, NEW X, NEW f, f = [e EXCEPT !.ht1.keys = X]
    PROVE  f = [ht0 |-> e.ht0, ht1 |-> [size |-> e.ht1.size, keys |-> X],
                rehashidx |-> e.rehashidx, iterators |-> e.iterators]
<1>1. PICK a : a = [e.ht1 EXCEPT !.keys = X]
  OBVIOUS
<1>2. a = [size |-> e.ht1.size, keys |-> X]
  BY <1>1 DEF Dictionary, Table, NoTable
<1>3. f = [e EXCEPT !.ht1 = a]
  BY <1>1, Zenon
<1>4. f = [ht0 |-> e.ht0, ht1 |-> a, rehashidx |-> e.rehashidx, iterators |-> e.iterators]
  BY <1>3 DEF Dictionary
<1> QED
  BY <1>2, <1>4

LEMMA WithKeys ==
    ASSUME NEW t \in Table, t # NoTable, NEW X \in SUBSET Key,
           NEW u, u = [size |-> t.size, keys |-> X]
    PROVE  /\ u \in Table /\ u # NoTable /\ u.keys = X /\ u.size = t.size
           /\ \A k : Slot(u, k) = Slot(t, k)
<1>1. t \in [size : Sizes, keys : SUBSET Key]
  BY DEF Table
<1>2. u \in [size : Sizes, keys : SUBSET Key] /\ u.keys = X /\ u.size = t.size
  BY <1>1
<1>3. u \in Table /\ u # NoTable
  BY <1>2, SizeFacts DEF Table, NoTable
<1> QED
  BY <1>2, <1>3 DEF Slot

\* dictAddRaw, once the key is known to be new.
Put(e, k) ==
    IF IsRehashing(e) THEN [e EXCEPT !.ht1.keys = @ \cup {k}]
    ELSE [e EXCEPT !.ht0.keys = @ \cup {k}]

LEMMA PutSound ==
    ASSUME hash \in Hashes, NEW e, Sound(e), e.ht0.size # 0 \/ IsRehashing(e),
           NEW k \in Key, k \notin Elements(e),
           NEW f, f = Put(e, k)
    PROVE  /\ Sound(f) /\ Elements(f) = Elements(e) \cup {k} /\ f.iterators = e.iterators
           /\ f.ht0.keys \subseteq e.ht0.keys \cup {k} /\ f.ht1.keys \subseteq e.ht1.keys \cup {k}
           /\ f.ht0.size = e.ht0.size /\ f.ht1.size = e.ht1.size
           /\ IsRehashing(f) <=> IsRehashing(e)
<1>1. /\ e \in Dictionary /\ e.ht0 \in Table /\ e.ht1 \in Table
      /\ e.ht0.keys \subseteq Key /\ e.ht1.keys \subseteq Key
      /\ k \notin e.ht0.keys /\ k \notin e.ht1.keys
  BY TableFacts DEF Sound, Dictionary, Elements
<1>2. CASE IsRehashing(e)
  <2>1. PICK u : u = [size |-> e.ht1.size, keys |-> e.ht1.keys \cup {k}]
    OBVIOUS
  <2>2. /\ u \in Table /\ u # NoTable /\ u.keys = e.ht1.keys \cup {k} /\ u.size = e.ht1.size
    <3>1. e.ht1 # NoTable /\ e.ht1.keys \cup {k} \in SUBSET Key
      BY <1>1, <1>2 DEF Sound
    <3> QED
      BY <1>1, <2>1, <3>1, WithKeys
  <2>3. f = [ht0 |-> e.ht0, ht1 |-> u, rehashidx |-> e.rehashidx, iterators |-> e.iterators]
    BY <1>1, <1>2, <2>1, KeysOfSecond, Zenon DEF Put
  <2>4. /\ f \in Dictionary
        /\ f.ht0 = e.ht0 /\ f.ht1 = u /\ f.rehashidx = e.rehashidx /\ f.iterators = e.iterators
    BY <1>1, <2>2, <2>3 DEF Dictionary
  <2>5. Sound(f)
    BY <1>1, <1>2, <2>2, <2>4 DEF Sound, IsRehashing
  <2> QED
    BY <2>2, <2>4, <2>5 DEF Elements, IsRehashing
<1>3. CASE ~IsRehashing(e)
  <2>1. PICK u : u = [size |-> e.ht0.size, keys |-> e.ht0.keys \cup {k}]
    OBVIOUS
  <2>2. /\ u \in Table /\ u # NoTable /\ u.keys = e.ht0.keys \cup {k} /\ u.size = e.ht0.size
    <3>1. e.ht0 # NoTable /\ e.ht0.keys \cup {k} \in SUBSET Key
      BY <1>1, <1>3, TableFacts
    <3> QED
      BY <1>1, <2>1, <3>1, WithKeys
  <2>3. f = [ht0 |-> u, ht1 |-> e.ht1, rehashidx |-> e.rehashidx, iterators |-> e.iterators]
    BY <1>1, <1>3, <2>1, KeysOfFirst, Zenon DEF Put
  <2>4. /\ f \in Dictionary
        /\ f.ht0 = u /\ f.ht1 = e.ht1 /\ f.rehashidx = e.rehashidx /\ f.iterators = e.iterators
    BY <1>1, <2>2, <2>3 DEF Dictionary
  <2>5. Sound(f)
    BY <1>1, <1>3, <2>2, <2>4 DEF Sound, IsRehashing
  <2> QED
    BY <2>2, <2>4, <2>5 DEF Elements, IsRehashing
<1> QED
  BY <1>2, <1>3

\* dictGenericDelete.
Take(e, k) ==
    IF k \in e.ht0.keys THEN [e EXCEPT !.ht0.keys = @ \ {k}]
    ELSE IF IsRehashing(e) THEN [e EXCEPT !.ht1.keys = @ \ {k}]
    ELSE e

LEMMA TakeSound ==
    ASSUME hash \in Hashes, NEW e, Sound(e), NEW k,
           NEW f, f = Take(e, k)
    PROVE  /\ Sound(f) /\ Elements(f) = Elements(e) \ {k} /\ f.iterators = e.iterators
           /\ f.ht0.keys \subseteq e.ht0.keys /\ f.ht1.keys \subseteq e.ht1.keys
           /\ f.ht0.size = e.ht0.size /\ f.ht1.size = e.ht1.size
           /\ IsRehashing(f) <=> IsRehashing(e)
<1>1. /\ e \in Dictionary /\ e.ht0 \in Table /\ e.ht1 \in Table
      /\ e.ht0.keys \subseteq Key /\ e.ht1.keys \subseteq Key
      /\ e.ht0.keys \cap e.ht1.keys = {}
      /\ ~IsRehashing(e) => e.ht1.keys = {}
  BY TableFacts DEF Sound, Dictionary
<1>2. CASE k \in e.ht0.keys
  <2>1. PICK u : u = [size |-> e.ht0.size, keys |-> e.ht0.keys \ {k}]
    OBVIOUS
  <2>2. /\ u \in Table /\ u # NoTable /\ u.keys = e.ht0.keys \ {k} /\ u.size = e.ht0.size
        /\ \A j : Slot(u, j) = Slot(e.ht0, j)
    <3>1. e.ht0 # NoTable /\ e.ht0.keys \ {k} \in SUBSET Key
      BY <1>1, <1>2, TableFacts
    <3> QED
      BY <1>1, <2>1, <3>1, WithKeys
  <2>3. f = [ht0 |-> u, ht1 |-> e.ht1, rehashidx |-> e.rehashidx, iterators |-> e.iterators]
    BY <1>1, <1>2, <2>1, KeysOfFirst, Zenon DEF Take
  <2>4. /\ f \in Dictionary
        /\ f.ht0 = u /\ f.ht1 = e.ht1 /\ f.rehashidx = e.rehashidx /\ f.iterators = e.iterators
    BY <1>1, <2>2, <2>3 DEF Dictionary
  <2>5. Sound(f)
    BY <1>1, <1>2, <2>2, <2>4 DEF Sound, IsRehashing
  <2> QED
    BY <1>1, <1>2, <2>2, <2>4, <2>5 DEF Elements, IsRehashing
<1>3. CASE k \notin e.ht0.keys /\ IsRehashing(e)
  <2>1. PICK u : u = [size |-> e.ht1.size, keys |-> e.ht1.keys \ {k}]
    OBVIOUS
  <2>2. /\ u \in Table /\ u # NoTable /\ u.keys = e.ht1.keys \ {k} /\ u.size = e.ht1.size
    <3>1. e.ht1 # NoTable /\ e.ht1.keys \ {k} \in SUBSET Key
      BY <1>1, <1>3 DEF Sound
    <3> QED
      BY <1>1, <2>1, <3>1, WithKeys
  <2>3. f = [ht0 |-> e.ht0, ht1 |-> u, rehashidx |-> e.rehashidx, iterators |-> e.iterators]
    BY <1>1, <1>3, <2>1, KeysOfSecond, Zenon DEF Take
  <2>4. /\ f \in Dictionary
        /\ f.ht0 = e.ht0 /\ f.ht1 = u /\ f.rehashidx = e.rehashidx /\ f.iterators = e.iterators
    BY <1>1, <2>2, <2>3 DEF Dictionary
  <2>5. Sound(f)
    BY <1>1, <1>3, <2>2, <2>4 DEF Sound, IsRehashing
  <2> QED
    BY <1>1, <1>3, <2>2, <2>4, <2>5 DEF Elements, IsRehashing
<1>4. CASE k \notin e.ht0.keys /\ ~IsRehashing(e)
  BY <1>1, <1>4, Zenon DEF Elements, Take
<1> QED
  BY <1>2, <1>3, <1>4

-----------------------------------------------------------------------------
(* The invariant.                                                          *)

\* TablesInv says that the dictionary is sound and that keys are its elements.
LEMMA TablesAre ==
    TablesInv <=> TypeOK /\ Sound(d) /\ Elements(d) = keys
<1>1. TypeOK => d \in Dictionary
  BY DEF TypeOK, Dictionary
<1>2. TypeOK /\ MovedBehind <=> TypeOK /\ Sound(d)
  BY <1>1 DEF TypeOK, MovedBehind, Sound, Slot
<1>3. ASSUME TypeOK, Sound(d) PROVE LookupExact <=> Elements(d) = keys
  <2>1. Elements(d) \subseteq Key
    BY <1>3, TableFacts DEF Sound, Dictionary, Elements
  <2>2. {k \in Key : Found(d, k)} = Elements(d)
    BY <1>3, <2>1, FoundIs
  <2> QED
    BY <2>2 DEF LookupExact
<1> QED
  BY <1>2, <1>3 DEF TablesInv

\* The iterator has still to come to key k.
Ahead(k) ==
    \/ k \in d.ht0.keys /\ iter.table = 0 /\ Slot(d.ht0, k) > iter.index
    \/ k \in d.ht1.keys /\ (iter.table = 0 \/ Slot(d.ht1, k) > iter.index)

\* It has still to come to all keys that it owes, and to none that it returned.
IterInv ==
    /\ ~iter.twice
    /\ iter.on =>
        /\ iter.got \subseteq keys /\ iter.owed \subseteq keys
        /\ \A k \in iter.owed : Ahead(k)
        /\ \A k \in iter.got : ~Ahead(k)

-----------------------------------------------------------------------------
(* The steps.                                                              *)

LEMMA SoundNext ==
    ASSUME NEW f, Sound(f), hash' = hash, d' = f
    PROVE  Sound(d)' /\ Elements(d)' = Elements(f) /\ (IsRehashing(d)' <=> IsRehashing(f))
BY DEF Sound, Slot, IsRehashing, Elements, Dictionary


Iterator ==
    [on : BOOLEAN, table : {0, 1}, index : -1 .. Pow2[Bits] - 1,
     got : SUBSET Key, owed : SUBSET Key, twice : BOOLEAN]

LEMMA InvFacts ==
    ASSUME TablesInv
    PROVE  /\ TypeOK /\ Sound(d) /\ Elements(d) = keys /\ hash \in Hashes
           /\ d \in Dictionary /\ d.ht0 \in Table /\ d.ht1 \in Table
           /\ iter \in Iterator /\ keys \subseteq Key
           /\ canResize \in BOOLEAN
           /\ scan \in [on : BOOLEAN, v : {scan.v}, owed : SUBSET Key]
           /\ d.iterators = IF iter.on THEN 1 ELSE 0
<1>1. TypeOK /\ Sound(d) /\ Elements(d) = keys
  BY TablesAre
<1>2. d \in Dictionary /\ d.ht0 \in Table /\ d.ht1 \in Table
  BY <1>1 DEF Sound, Dictionary
<1> QED
  BY <1>1, <1>2 DEF TypeOK, Iterator

\* A step to a sound dictionary f whose elements are the keys.
LEMMA TablesNext ==
    ASSUME TablesInv, NEW f, Sound(f), hash' = hash, d' = f, Elements(f) = keys',
           keys' \subseteq Key, canResize' \in BOOLEAN, iter' \in Iterator,
           scan' \in [on : BOOLEAN, v : {scan'.v}, owed : SUBSET Key],
           f.iterators = IF iter'.on THEN 1 ELSE 0
    PROVE  TablesInv'
<1>1. Sound(d)' /\ Elements(d)' = keys'
  BY SoundNext
<1>2. TypeOK'
  BY <1>1, InvFacts DEF TypeOK, Sound, Dictionary, Iterator
<1>3. (TypeOK /\ Sound(d) /\ Elements(d) = keys)'
  BY <1>1, <1>2
<1> QED
  BY <1>3, TablesAre, PTL

\* What the iterator has to come to does not change with keys that stay where they
\* are.
LEMMA AheadSame ==
    ASSUME hash' = hash, iter'.table = iter.table, iter'.index = iter.index,
           NEW f, d' = f, NEW k,
           k \in f.ht0.keys <=> k \in d.ht0.keys,
           k \in f.ht1.keys <=> k \in d.ht1.keys,
           k \in d.ht0.keys => f.ht0.size = d.ht0.size,
           k \in d.ht1.keys => f.ht1.size = d.ht1.size
    PROVE  Ahead(k)' <=> Ahead(k)
BY DEF Ahead, Slot

LEMMA ForgetIs ==
    ASSUME iter \in Iterator, scan \in [on : BOOLEAN, v : {scan.v}, owed : SUBSET Key],
           NEW k, Forget(k)
    PROVE  /\ scan' \in [on : BOOLEAN, v : {scan'.v}, owed : SUBSET Key]
           /\ iter' \in Iterator
           /\ iter'.on = iter.on /\ iter'.table = iter.table /\ iter'.index = iter.index
           /\ iter'.got = iter.got \ {k} /\ iter'.owed = iter.owed \ {k}
           /\ iter'.twice = iter.twice
<1>1. scan' = [scan EXCEPT !.owed = @ \ {k}]
  BY DEF Forget
<1>2. scan' \in [on : BOOLEAN, v : {scan'.v}, owed : SUBSET Key]
  BY <1>1
<1>3. PICK f : f = [iter EXCEPT !.owed = @ \ {k}]
  OBVIOUS
<1>4. f = [on |-> iter.on, table |-> iter.table, index |-> iter.index, got |-> iter.got,
           owed |-> iter.owed \ {k}, twice |-> iter.twice]
  BY <1>3 DEF Iterator
<1>5. iter' = [f EXCEPT !.got = iter.got \ {k}]
  BY <1>3, <1>4, Zenon DEF Forget
<1>6. iter' = [on |-> iter.on, table |-> iter.table, index |-> iter.index,
               got |-> iter.got \ {k}, owed |-> iter.owed \ {k}, twice |-> iter.twice]
  BY <1>4, <1>5
<1> QED
  BY <1>2, <1>6 DEF Iterator

LEMMA AddStep ==
    ASSUME TablesInv, IterInv, NEW k \in Key, Add(k)
    PROVE  TablesInv' /\ IterInv'
<1>1. PICK c : c = RehashStep(d)
  OBVIOUS
<1>2. PICK e : e = ExpandIfNeeded(c)
  OBVIOUS
<1>3. PICK f : f = d'
  OBVIOUS
<1>4. /\ Sound(c) /\ Elements(c) = keys /\ c.iterators = d.iterators
      /\ d.iterators # 0 => c = d
  BY <1>1, InvFacts, RehashStepSound
<1>5. /\ Sound(e) /\ e.ht0.keys = c.ht0.keys /\ e.ht1.keys = c.ht1.keys
      /\ e.iterators = c.iterators /\ Elements(e) = keys
      /\ c.ht0.size # 0 => e.ht0 = c.ht0
      /\ IsRehashing(c) => e = c
      /\ e.ht0.size # 0 \/ IsRehashing(e)
  BY <1>2, <1>4, InvFacts, ExpandIfNeededSound DEF Elements
<1>6. f = IF Found(e, k) THEN e ELSE Put(e, k)
  BY <1>1, <1>2, <1>3, Zenon DEF Add, Put
<1>7. Found(e, k) <=> k \in keys
  BY <1>5, FoundIs
<1>8. /\ Sound(f) /\ Elements(f) = keys \cup {k} /\ f.iterators = e.iterators
      /\ f.ht0.keys \subseteq e.ht0.keys \cup {k} /\ f.ht1.keys \subseteq e.ht1.keys \cup {k}
      /\ f.ht0.size = e.ht0.size /\ f.ht1.size = e.ht1.size
      /\ k \in keys => f = e
  <2>1. CASE k \in keys
    <3>1. f = e
      BY <1>6, <1>7, <2>1
    <3> QED
      BY <1>5, <2>1, <3>1
  <2>2. CASE k \notin keys
    <3>1. f = Put(e, k)
      BY <1>6, <1>7, <2>2
    <3>2. k \notin Elements(e)
      BY <1>5, <2>2
    <3>3. /\ Sound(f) /\ Elements(f) = Elements(e) \cup {k} /\ f.iterators = e.iterators
          /\ f.ht0.keys \subseteq e.ht0.keys \cup {k} /\ f.ht1.keys \subseteq e.ht1.keys \cup {k}
          /\ f.ht0.size = e.ht0.size /\ f.ht1.size = e.ht1.size
      BY <1>5, <3>1, <3>2, InvFacts, PutSound
    <3> QED
      BY <1>5, <2>2, <3>3
  <2> QED
    BY <2>1, <2>2
<1>9. hash' = hash /\ canResize' = canResize /\ scan' = scan /\ iter' = iter
      /\ keys' = keys \cup {k}
  BY DEF Add
<1>10. TablesInv'
  BY <1>3, <1>4, <1>5, <1>8, <1>9, InvFacts, TablesNext
<1>11. ASSUME iter.on, NEW j \in iter.got \cup iter.owed
       PROVE  Ahead(j)' <=> Ahead(j)
  <2>1. c = d
    BY <1>4, <1>11, InvFacts
  <2>2. j \in keys /\ j \in Elements(d) /\ j \in Elements(f)
    BY <1>8, <1>11, InvFacts DEF IterInv
  <2>3. (j \in f.ht0.keys <=> j \in d.ht0.keys) /\ (j \in f.ht1.keys <=> j \in d.ht1.keys)
    <3>1. CASE k \in keys
      BY <1>5, <1>8, <2>1, <3>1
    <3>2. CASE k \notin keys
      <4>1. j # k
        BY <2>2, <3>2
      <4>2. d.ht0.keys \cap d.ht1.keys = {} /\ f.ht0.keys \cap f.ht1.keys = {}
        BY <1>8, InvFacts DEF Sound
      <4> QED
        BY <1>5, <1>8, <2>1, <2>2, <4>1, <4>2 DEF Elements
    <3> QED
      BY <3>1, <3>2
  <2>4. j \in d.ht0.keys => f.ht0.size = d.ht0.size
    <3>1. j \in d.ht0.keys => d.ht0.size # 0
      BY InvFacts, TableFacts
    <3> QED
      BY <1>5, <1>8, <2>1, <3>1
  <2>5. j \in d.ht1.keys => f.ht1.size = d.ht1.size
    <3>1. j \in d.ht1.keys => IsRehashing(d)
      BY InvFacts, TableFacts DEF Sound
    <3> QED
      BY <1>5, <1>8, <2>1, <3>1
  <2> QED
    BY <1>3, <1>9, <2>3, <2>4, <2>5, AheadSame
<1>12. IterInv'
  BY <1>9, <1>11 DEF IterInv
<1> QED
  BY <1>10, <1>12

LEMMA DeleteStep ==
    ASSUME TablesInv, IterInv, NEW k \in Key, Delete(k)
    PROVE  TablesInv' /\ IterInv'
<1>1. PICK e : e = RehashStep(d)
  OBVIOUS
<1>2. PICK f : f = d'
  OBVIOUS
<1>3. /\ Sound(e) /\ Elements(e) = keys /\ e.iterators = d.iterators
      /\ d.iterators # 0 => e = d
  BY <1>1, InvFacts, RehashStepSound
<1>4. f = Take(e, k)
  BY <1>1, <1>2, Zenon DEF Delete, Take
<1>5. /\ Sound(f) /\ Elements(f) = keys \ {k} /\ f.iterators = e.iterators
      /\ f.ht0.keys \subseteq e.ht0.keys /\ f.ht1.keys \subseteq e.ht1.keys
      /\ f.ht0.size = e.ht0.size /\ f.ht1.size = e.ht1.size
  BY <1>3, <1>4, InvFacts, TakeSound
<1>6. hash' = hash /\ canResize' = canResize /\ keys' = keys \ {k} /\ Forget(k)
  BY DEF Delete
<1>7. /\ scan' \in [on : BOOLEAN, v : {scan'.v}, owed : SUBSET Key]
      /\ iter' \in Iterator
      /\ iter'.on = iter.on /\ iter'.table = iter.table /\ iter'.index = iter.index
      /\ iter'.got = iter.got \ {k} /\ iter'.owed = iter.owed \ {k}
      /\ iter'.twice = iter.twice
  BY <1>6, InvFacts, ForgetIs
<1>8. TablesInv'
  BY <1>2, <1>3, <1>5, <1>6, <1>7, InvFacts, TablesNext
<1>9. ASSUME iter.on, NEW j \in (iter.got \cup iter.owed) \ {k}
      PROVE  Ahead(j)' <=> Ahead(j)
  <2>1. e = d
    BY <1>3, <1>9, InvFacts
  <2>2. j \in Elements(d) /\ j \in Elements(f)
    BY <1>5, <1>9, InvFacts DEF IterInv
  <2>3. d.ht0.keys \cap d.ht1.keys = {} /\ f.ht0.keys \cap f.ht1.keys = {}
    BY <1>5, InvFacts DEF Sound
  <2>4. (j \in f.ht0.keys <=> j \in d.ht0.keys) /\ (j \in f.ht1.keys <=> j \in d.ht1.keys)
    BY <1>5, <2>1, <2>2, <2>3 DEF Elements
  <2> QED
    BY <1>2, <1>5, <1>6, <1>7, <2>1, <2>4, AheadSame
<1>10. IterInv'
  BY <1>6, <1>7, <1>9 DEF IterInv
<1> QED
  BY <1>8, <1>10

\* A step that leaves the iterator alone while none runs.
LEMMA QuietStep ==
    ASSUME TablesInv, IterInv, ~iter.on, iter' = iter,
           NEW f, Sound(f), hash' = hash, d' = f, Elements(f) = keys',
           f.iterators = d.iterators,
           keys' \subseteq Key, canResize' \in BOOLEAN,
           scan' \in [on : BOOLEAN, v : {scan'.v}, owed : SUBSET Key]
    PROVE  TablesInv' /\ IterInv'
<1>1. TablesInv'
  BY InvFacts, TablesNext
<1> QED
  BY <1>1 DEF IterInv

LEMMA FindStep ==
    ASSUME TablesInv, IterInv, Find
    PROVE  TablesInv' /\ IterInv'
<1>1. PICK f : f = RehashStep(d)
  OBVIOUS
<1>2. /\ Sound(f) /\ Elements(f) = keys /\ f.iterators = d.iterators
      /\ d.iterators # 0 => f = d
  BY <1>1, InvFacts, RehashStepSound
<1>3. /\ d' = f /\ hash' = hash /\ canResize' = canResize /\ scan' = scan
      /\ iter' = iter /\ keys' = keys
  BY <1>1 DEF Find
<1>4. TablesInv'
  BY <1>2, <1>3, InvFacts, TablesNext
<1>5. iter.on => d' = d
  BY <1>2, <1>3, InvFacts
<1>6. IterInv'
  BY <1>3, <1>5 DEF IterInv, Ahead, Slot
<1> QED
  BY <1>4, <1>6

LEMMA NewDictSound ==
    Sound(NewDict) /\ Elements(NewDict) = {} /\ NewDict.iterators = 0
<1>1. NewDict \in Dictionary
  BY DEF NewDict, Dictionary, Table
<1>2. /\ NewDict.ht0 = NoTable /\ NewDict.ht1 = NoTable /\ NewDict.rehashidx = -1
      /\ NewDict.iterators = 0
  BY DEF NewDict
<1>3. NoTable.keys = {} /\ NoTable.size = 0
  BY DEF NoTable
<1> QED
  BY <1>1, <1>2, <1>3 DEF Sound, IsRehashing, Elements

LEMMA ClearStep ==
    ASSUME TablesInv, IterInv, Clear
    PROVE  TablesInv' /\ IterInv'
<1>1. /\ d' = NewDict /\ hash' = hash /\ canResize' = canResize /\ iter' = iter
      /\ keys' = {} /\ ~iter.on /\ scan' = [scan EXCEPT !.owed = {}]
  BY DEF Clear
<1>2. scan' \in [on : BOOLEAN, v : {scan'.v}, owed : SUBSET Key]
  BY <1>1, InvFacts
<1>3. d.iterators = 0
  BY <1>1, InvFacts
<1> QED
  BY <1>1, <1>2, <1>3, NewDictSound, InvFacts, QuietStep

LEMMA CronResizeStep ==
    ASSUME TablesInv, IterInv, CronResize
    PROVE  TablesInv' /\ IterInv'
<1>1. PICK n : n = IF Cardinality(d.ht0.keys) < InitialSize THEN InitialSize
                   ELSE Cardinality(d.ht0.keys)
  OBVIOUS
<1>2. n \in Nat /\ n <= Pow2[Bits]
  <2>1. Cardinality(d.ht0.keys) \in Nat /\ 2 * Cardinality(d.ht0.keys) <= Pow2[Bits]
    BY InvFacts, TableFacts
  <2>2. InitialSize \in Nat /\ InitialSize <= Pow2[Bits] /\ Pow2[Bits] \in Nat
    BY DictAssumption, SizeFacts
  <2> QED
    BY <1>1, <2>1, <2>2
<1>3. PICK f : f = Expand(d, n)
  OBVIOUS
<1>4. Sound(f) /\ Elements(f) = keys /\ f.iterators = d.iterators
  BY <1>2, <1>3, InvFacts, ExpandSound DEF Elements
<1>5. /\ ~iter.on /\ d' = f /\ hash' = hash /\ canResize' = canResize /\ scan' = scan
      /\ iter' = iter /\ keys' = keys
  BY <1>1, <1>3 DEF CronResize
<1> QED
  BY <1>4, <1>5, InvFacts, QuietStep

LEMMA CronRehashStep ==
    ASSUME TablesInv, IterInv, CronRehash
    PROVE  TablesInv' /\ IterInv'
<1>1. PICK f : f = Rehash(d)
  OBVIOUS
<1>2. /\ ~iter.on /\ IsRehashing(d) /\ d' = f /\ hash' = hash /\ canResize' = canResize
      /\ scan' = scan /\ iter' = iter /\ keys' = keys
  BY <1>1 DEF CronRehash
<1>3. Sound(f) /\ Elements(f) = keys /\ f.iterators = d.iterators
  BY <1>1, <1>2, InvFacts, RehashSound
<1> QED
  BY <1>2, <1>3, InvFacts, QuietStep

LEMMA ResizePolicyStep ==
    ASSUME TablesInv, IterInv, ResizePolicy
    PROVE  TablesInv' /\ IterInv'
<1>1. /\ ~iter.on /\ d' = d /\ hash' = hash /\ canResize' \in BOOLEAN
      /\ scan' = scan /\ iter' = iter /\ keys' = keys
  BY DEF ResizePolicy
<1>2. PICK f : f = d
  OBVIOUS
<1> QED
  BY <1>1, <1>2, InvFacts, QuietStep

\* A call goes on from the cursor, or from 0 with all keys owed.
LEMMA ScanStepIs ==
    ASSUME TablesInv, ScanStep
    PROVE  \E v, o, r :
              /\ IF scan.on THEN v = scan.v /\ o = scan.owed ELSE v = 0 /\ o = keys
              /\ r = Scan(v)
              /\ scan' = [on |-> r.v # 0, v |-> r.v, owed |-> o \ r.got]
<1>1. PICK s : s = IF scan.on THEN scan ELSE [NoScan EXCEPT !.on = TRUE, !.owed = keys]
  OBVIOUS
<1>2. PICK r : r = Scan(s.v)
  OBVIOUS
<1>3. scan' = [s EXCEPT !.v = r.v, !.owed = @ \ r.got, !.on = r.v # 0]
  BY <1>1, <1>2, Zenon DEF ScanStep
<1>4. PICK x, v, o : /\ s = [on |-> x, v |-> v, owed |-> o]
                     /\ IF scan.on THEN v = scan.v /\ o = scan.owed ELSE v = 0 /\ o = keys
  <2>1. CASE scan.on
    <3>1. s = scan
      BY <1>1, <2>1, Zenon
    <3>2. scan = [on |-> scan.on, v |-> scan.v, owed |-> scan.owed]
      BY InvFacts
    <3> QED
      BY <2>1, <3>1, <3>2
  <2>2. CASE ~scan.on
    <3>1. PICK g : g = [NoScan EXCEPT !.on = TRUE]
      OBVIOUS
    <3>2. g = [on |-> TRUE, v |-> 0, owed |-> {}]
      BY <3>1 DEF NoScan
    <3>3. s = [g EXCEPT !.owed = keys]
      BY <1>1, <2>2, <3>1, Zenon
    <3>4. s = [on |-> TRUE, v |-> 0, owed |-> keys]
      BY <3>2, <3>3
    <3> QED
      BY <2>2, <3>4
  <2> QED
    BY <2>1, <2>2
<1>5. PICK g : g = [s EXCEPT !.v = r.v]
  OBVIOUS
<1>6. g = [on |-> x, v |-> r.v, owed |-> o]
  BY <1>4, <1>5
<1>7. PICK h : h = [g EXCEPT !.owed = o \ r.got]
  OBVIOUS
<1>8. h = [on |-> x, v |-> r.v, owed |-> o \ r.got]
  BY <1>6, <1>7
<1>9. g.owed = o /\ s.v = v
  BY <1>4, <1>6
<1>10. scan' = [h EXCEPT !.on = r.v # 0]
  BY <1>3, <1>5, <1>7, <1>9, Zenon
<1>11. scan' = [on |-> r.v # 0, v |-> r.v, owed |-> o \ r.got]
  BY <1>8, <1>10
<1> QED
  BY <1>2, <1>4, <1>9, <1>11

LEMMA ScanStepStep ==
    ASSUME TablesInv, IterInv, ScanStep
    PROVE  TablesInv' /\ IterInv'
<1>1. /\ ~iter.on /\ d' = d /\ hash' = hash /\ canResize' = canResize
      /\ iter' = iter /\ keys' = keys
  BY DEF ScanStep
<1>2. scan' \in [on : BOOLEAN, v : {scan'.v}, owed : SUBSET Key]
  <2>1. PICK v, o, r :
           /\ IF scan.on THEN v = scan.v /\ o = scan.owed ELSE v = 0 /\ o = keys
           /\ scan' = [on |-> r.v # 0, v |-> r.v, owed |-> o \ r.got]
    BY ScanStepIs
  <2>2. o \subseteq Key
    BY <2>1, InvFacts
  <2> QED
    BY <2>1, <2>2
<1>3. PICK f : f = d
  OBVIOUS
<1> QED
  BY <1>1, <1>2, <1>3, InvFacts, QuietStep

LEMMA CountSound ==
    ASSUME NEW e, Sound(e), NEW n \in Nat, NEW f, f = [e EXCEPT !.iterators = n]
    PROVE  /\ Sound(f) /\ Elements(f) = Elements(e) /\ f.iterators = n
           /\ f.ht0 = e.ht0 /\ f.ht1 = e.ht1
<1>1. /\ f \in Dictionary /\ f.ht0 = e.ht0 /\ f.ht1 = e.ht1 /\ f.rehashidx = e.rehashidx
      /\ f.iterators = n
  BY DEF Sound, Dictionary
<1> QED
  BY <1>1 DEF Sound, IsRehashing, Elements

\* dictGetSafeIterator: everything is ahead.
LEMMA IterBeginStep ==
    ASSUME TablesInv, IterInv, IterBegin
    PROVE  TablesInv' /\ IterInv'
<1>1. /\ ~iter.on /\ hash' = hash /\ canResize' = canResize /\ scan' = scan /\ keys' = keys
      /\ d' = [d EXCEPT !.iterators = @ + 1]
  BY DEF IterBegin
<1>2. PICK f : f = [d EXCEPT !.iterators = 1]
  OBVIOUS
<1>3. d' = f
  BY <1>1, <1>2, InvFacts
<1>4. Sound(f) /\ Elements(f) = keys /\ f.iterators = 1 /\ f.ht0 = d.ht0 /\ f.ht1 = d.ht1
  BY <1>2, InvFacts, CountSound
<1>5. iter' = [on |-> TRUE, table |-> 0, index |-> -1, got |-> {}, owed |-> keys,
               twice |-> FALSE]
  <2>1. PICK g : g = [NoIter EXCEPT !.on = TRUE]
    OBVIOUS
  <2>2. g = [on |-> TRUE, table |-> 0, index |-> -1, got |-> {}, owed |-> {},
             twice |-> FALSE]
    BY <2>1 DEF NoIter
  <2>3. iter' = [g EXCEPT !.owed = keys]
    BY <2>1, Zenon DEF IterBegin
  <2> QED
    BY <2>2, <2>3
<1>6. iter' \in Iterator
  <2>1. -1 \in -1 .. Pow2[Bits] - 1
    BY SizeFacts
  <2> QED
    BY <1>5, <2>1, InvFacts DEF Iterator
<1>7. TablesInv'
  BY <1>1, <1>3, <1>4, <1>5, <1>6, InvFacts, TablesNext
<1>8. ASSUME NEW k \in keys PROVE Ahead(k)'
  <2>1. k \in d.ht0.keys \/ k \in d.ht1.keys
    BY InvFacts DEF Elements
  <2>2. k \in d.ht0.keys => Slot(d.ht0, k) > -1
    <3>1. k \in d.ht0.keys => Slot(d.ht0, k) \in 0 .. d.ht0.size - 1
      BY InvFacts, SlotFacts
    <3> QED
      BY <3>1, InvFacts, TableFacts
  <2>3. iter'.table = 0 /\ iter'.index = -1
    BY <1>5
  <2> QED
    BY <1>1, <1>3, <1>4, <2>1, <2>2, <2>3 DEF Ahead, Slot
<1>9. IterInv'
  BY <1>1, <1>5, <1>8 DEF IterInv
<1> QED
  BY <1>7, <1>9

\* dictReleaseIterator.
LEMMA IterEndStep ==
    ASSUME TablesInv, IterInv, IterEnd
    PROVE  TablesInv' /\ IterInv'
<1>1. /\ iter.on /\ iter' = NoIter /\ hash' = hash /\ canResize' = canResize
      /\ scan' = scan /\ keys' = keys /\ d' = [d EXCEPT !.iterators = @ - 1]
  BY DEF IterEnd, IterDone
<1>2. PICK f : f = [d EXCEPT !.iterators = 0]
  OBVIOUS
<1>3. d' = f
  BY <1>1, <1>2, InvFacts
<1>4. Sound(f) /\ Elements(f) = keys /\ f.iterators = 0
  BY <1>2, InvFacts, CountSound
<1>5. NoIter \in Iterator /\ ~NoIter.on /\ ~NoIter.twice
  BY SizeFacts DEF NoIter, Iterator
<1> QED
  BY <1>1, <1>3, <1>4, <1>5, InvFacts, TablesNext DEF IterInv

Moved(table, index, got, owed, twice) ==
    [iter EXCEPT !.table = table, !.index = index, !.got = got, !.owed = owed,
                 !.twice = twice]

LEMMA MovedIs ==
    ASSUME iter \in Iterator, NEW table, NEW index, NEW got, NEW owed, NEW twice, NEW f,
           f = Moved(table, index, got, owed, twice)
    PROVE  f = [on |-> iter.on, table |-> table, index |-> index, got |-> got,
                owed |-> owed, twice |-> twice]
<1>1. PICK a : a = [iter EXCEPT !.table = table]
  OBVIOUS
<1>2. a = [on |-> iter.on, table |-> table, index |-> iter.index, got |-> iter.got,
           owed |-> iter.owed, twice |-> iter.twice]
  BY <1>1 DEF Iterator
<1>3. PICK b : b = [a EXCEPT !.index = index]
  OBVIOUS
<1>4. b = [on |-> iter.on, table |-> table, index |-> index, got |-> iter.got,
           owed |-> iter.owed, twice |-> iter.twice]
  BY <1>2, <1>3
<1>5. PICK c : c = [b EXCEPT !.got = got]
  OBVIOUS
<1>6. c = [on |-> iter.on, table |-> table, index |-> index, got |-> got,
           owed |-> iter.owed, twice |-> iter.twice]
  BY <1>4, <1>5
<1>7. PICK e : e = [c EXCEPT !.owed = owed]
  OBVIOUS
<1>8. e = [on |-> iter.on, table |-> table, index |-> index, got |-> got,
           owed |-> owed, twice |-> iter.twice]
  BY <1>6, <1>7
<1>9. f = [e EXCEPT !.twice = twice]
  BY <1>1, <1>3, <1>5, <1>7, Zenon DEF Moved
<1> QED
  BY <1>8, <1>9

\* dictNext: the next bucket was ahead, and is not any more.
LEMMA IterNextStep ==
    ASSUME TablesInv, IterInv, IterNext
    PROVE  TablesInv' /\ IterInv'
<1> DEFINE more == iter.index + 1 < IterTable.size
<1>2. PICK table, index :
         /\ table = IF more THEN iter.table ELSE 1
         /\ index = IF more THEN iter.index + 1 ELSE 0
  OBVIOUS
<1>3. PICK u : u = IF table = 0 THEN d.ht0 ELSE d.ht1
  OBVIOUS
<1>4. PICK b : b = Bucket(u, index)
  OBVIOUS
<1>5. /\ iter.on /\ hash' = hash /\ canResize' = canResize /\ scan' = scan /\ keys' = keys
      /\ d' = d /\ (more \/ (iter.table = 0 /\ IsRehashing(d)))
  BY <1>2 DEF IterNext
<1>6. iter' = [iter EXCEPT !.table = table, !.index = index, !.got = iter.got \cup b,
                           !.owed = iter.owed \ b,
                           !.twice = iter.twice \/ b \cap iter.got # {}]
  BY <1>2, <1>3, <1>4, Zenon DEF IterNext
<1>1. more <=> iter.index + 1 < IterTable.size
  OBVIOUS
<1> HIDE DEF more
<1>7. iter' = [on |-> iter.on, table |-> table, index |-> index, got |-> iter.got \cup b,
               owed |-> iter.owed \ b, twice |-> iter.twice \/ b \cap iter.got # {}]
  <2>1. PICK got, owed, twice :
           /\ got = iter.got \cup b /\ owed = iter.owed \ b
           /\ twice = (iter.twice \/ b \cap iter.got # {})
    OBVIOUS
  <2>2. PICK f : f = iter'
    OBVIOUS
  <2>3. f = Moved(table, index, got, owed, twice)
    BY <1>6, <2>1, <2>2, Zenon DEF Moved
  <2>4. iter \in Iterator
    BY InvFacts
  <2>5. f = [on |-> iter.on, table |-> table, index |-> index, got |-> got, owed |-> owed,
             twice |-> twice]
    BY <2>3, <2>4, MovedIs
  <2> QED
    BY <2>1, <2>2, <2>5
<1>8. /\ iter.table \in {0, 1} /\ iter.index \in Int /\ iter.index >= -1
      /\ iter.got \subseteq Key /\ iter.owed \subseteq Key /\ ~iter.twice
  BY InvFacts, SizeFacts DEF Iterator, IterInv
<1>9. /\ table \in {0, 1} /\ u \in Table /\ index \in Int /\ index >= 0
      /\ table = 0 => iter.table = 0
  BY <1>2, <1>3, <1>8, InvFacts
<1>10. index \in 0 .. Pow2[Bits] - 1
  <2>1. CASE more
    <3>1. u = IterTable
      BY <1>2, <1>3, <1>8, <2>1 DEF IterTable
    <3>2. index < u.size /\ u.size \in Nat /\ u.size <= Pow2[Bits]
      BY <1>1, <1>2, <1>9, <2>1, <3>1, TableFacts
    <3> QED
      BY <1>9, <3>2, SizeFacts
  <2>2. CASE ~more
    BY <1>2, <2>2, SizeFacts
  <2> QED
    BY <2>1, <2>2
<1>11. b = {k \in u.keys : Slot(u, k) = index} /\ b \subseteq keys /\ b \subseteq Key
  <2>1. b = {k \in u.keys : Slot(u, k) = index}
    BY <1>4 DEF Bucket, Slot
  <2>2. u.keys \subseteq keys
    BY <1>3, InvFacts DEF Elements
  <2> QED
    BY <2>1, <2>2, InvFacts
<1>12. \A k : k \in d.ht0.keys => Slot(d.ht0, k) \in 0 .. d.ht0.size - 1
  BY InvFacts, SlotFacts
<1>13. \A k : k \in d.ht1.keys => Slot(d.ht1, k) \in 0 .. d.ht1.size - 1
  BY InvFacts, SlotFacts
<1>14. d.ht0.size \in Nat /\ d.ht1.size \in Nat /\ d.ht0.keys \cap d.ht1.keys = {}
  BY InvFacts, TableFacts DEF Sound
<1>15. ASSUME NEW k \in keys PROVE Ahead(k) <=> Ahead(k)' \/ k \in b
  <2>1. Ahead(k)' <=> \/ k \in d.ht0.keys /\ table = 0 /\ Slot(d.ht0, k) > index
                      \/ k \in d.ht1.keys /\ (table = 0 \/ Slot(d.ht1, k) > index)
    <3>1. iter'.table = table /\ iter'.index = index
      BY <1>7
    <3> QED
      BY <1>5, <3>1 DEF Ahead, Slot
  <2>2. CASE more /\ iter.table = 0
    <3>1. table = 0 /\ index = iter.index + 1 /\ u = d.ht0
      BY <1>2, <1>3, <2>2
    <3> QED
      BY <1>8, <1>11, <1>12, <1>14, <2>1, <2>2, <3>1 DEF Ahead
  <2>3. CASE more /\ iter.table = 1
    <3>1. table = 1 /\ index = iter.index + 1 /\ u = d.ht1
      BY <1>2, <1>3, <2>3
    <3> QED
      BY <1>8, <1>11, <1>13, <1>14, <2>1, <2>3, <3>1 DEF Ahead
  <2>4. CASE ~more
    <3>1. table = 1 /\ index = 0 /\ u = d.ht1 /\ iter.table = 0
      BY <1>2, <1>3, <1>5, <2>4
    <3>2. iter.index + 1 >= d.ht0.size
      BY <1>1, <1>8, <1>14, <2>4, <3>1 DEF IterTable
    <3>3. k \in d.ht0.keys => ~(Slot(d.ht0, k) > iter.index)
      BY <1>8, <1>12, <1>14, <3>2
    <3>4. k \in d.ht1.keys => Slot(d.ht1, k) > 0 \/ k \in b
      BY <1>11, <1>13, <1>14, <3>1
    <3> QED
      BY <1>11, <2>1, <3>1, <3>3, <3>4 DEF Ahead
  <2> QED
    BY <1>8, <2>2, <2>3, <2>4
<1>16. ASSUME NEW k \in b PROVE ~Ahead(k)'
  <2>1. Ahead(k)' <=> \/ k \in d.ht0.keys /\ table = 0 /\ Slot(d.ht0, k) > index
                      \/ k \in d.ht1.keys /\ (table = 0 \/ Slot(d.ht1, k) > index)
    <3>1. iter'.table = table /\ iter'.index = index
      BY <1>7
    <3> QED
      BY <1>5, <3>1 DEF Ahead, Slot
  <2>2. CASE table = 0
    BY <1>3, <1>9, <1>11, <1>14, <2>1, <2>2
  <2>3. CASE table = 1
    BY <1>3, <1>9, <1>11, <1>14, <2>1, <2>3
  <2> QED
    BY <1>9, <2>2, <2>3
<1>17. /\ iter.got \subseteq keys /\ iter.owed \subseteq keys
       /\ \A k \in iter.owed : Ahead(k)
       /\ \A k \in iter.got : ~Ahead(k)
  BY <1>5 DEF IterInv
<1>18. b \cap iter.got = {}
  BY <1>11, <1>15, <1>17
<1>19. iter' \in Iterator /\ iter'.on = iter.on
  BY <1>5, <1>7, <1>8, <1>9, <1>10, <1>11, SizeFacts, InvFacts DEF Iterator
<1>20. TablesInv'
  <2>1. PICK f : f = d
    OBVIOUS
  <2> QED
    BY <1>5, <1>19, <2>1, InvFacts, TablesNext
<1>21. IterInv'
  <2>1. /\ iter'.got = iter.got \cup b /\ iter'.owed = iter.owed \ b
        /\ iter'.twice = (iter.twice \/ b \cap iter.got # {})
    BY <1>7
  <2>2. ~iter'.twice
    BY <1>8, <1>18, <2>1
  <2>3. \A k \in iter'.owed : Ahead(k)'
    BY <1>15, <1>17, <2>1
  <2>4. \A k \in iter'.got : ~Ahead(k)'
    BY <1>15, <1>16, <1>17, <2>1
  <2> QED
    BY <1>5, <1>11, <1>17, <2>1, <2>2, <2>3, <2>4 DEF IterInv
<1> QED
  BY <1>20, <1>21

-----------------------------------------------------------------------------
(* The tables and KEYS.                                                    *)

DictInv == TablesInv /\ IterInv

LEMMA InitInv == Init => DictInv
<1> SUFFICES ASSUME Init PROVE DictInv
  OBVIOUS
<1>1. /\ hash \in Hashes /\ d = NewDict /\ canResize = TRUE /\ scan = NoScan
      /\ iter = NoIter /\ keys = {}
  BY DEF Init
<1>2. Sound(d) /\ Elements(d) = keys /\ d.iterators = 0
  BY <1>1, NewDictSound
<1>3. NoIter \in Iterator /\ ~NoIter.on /\ ~NoIter.twice
  BY SizeFacts DEF NoIter, Iterator
<1>4. scan \in [on : BOOLEAN, v : {scan.v}, owed : SUBSET Key]
  BY <1>1 DEF NoScan
<1>5. TypeOK
  BY <1>1, <1>2, <1>3, <1>4 DEF TypeOK, Sound, Dictionary, Iterator
<1>6. TablesInv
  BY <1>2, <1>5, TablesAre
<1> QED
  BY <1>1, <1>3, <1>6 DEF DictInv, IterInv

LEMMA StepInv == DictInv /\ [Next]_vars => DictInv'
<1> SUFFICES ASSUME TablesInv, IterInv, [Next]_vars PROVE TablesInv' /\ IterInv'
  BY DEF DictInv
<1>1. CASE \E k \in Key : Add(k)
  BY <1>1, AddStep
<1>2. CASE \E k \in Key : Delete(k)
  BY <1>2, DeleteStep
<1>3. CASE Find
  BY <1>3, FindStep
<1>4. CASE Clear
  BY <1>4, ClearStep
<1>5. CASE CronResize
  BY <1>5, CronResizeStep
<1>6. CASE CronRehash
  BY <1>6, CronRehashStep
<1>7. CASE ResizePolicy
  BY <1>7, ResizePolicyStep
<1>8. CASE IterBegin
  BY <1>8, IterBeginStep
<1>9. CASE IterNext
  BY <1>9, IterNextStep
<1>10. CASE IterEnd
  BY <1>10, IterEndStep
<1>11. CASE ScanStep
  BY <1>11, ScanStepStep
<1>12. CASE UNCHANGED vars
  <2>1. /\ d' = d /\ hash' = hash /\ canResize' = canResize /\ scan' = scan
        /\ iter' = iter /\ keys' = keys
    BY <1>12 DEF vars
  <2>2. PICK f : f = d
    OBVIOUS
  <2>3. TablesInv'
    BY <2>1, <2>2, InvFacts, TablesNext
  <2>4. IterInv'
    BY <2>1 DEF IterInv, Ahead, Slot
  <2> QED
    BY <2>3, <2>4
<1> QED
  BY <1>1, <1>2, <1>3, <1>4, <1>5, <1>6, <1>7, <1>8, <1>9, <1>10, <1>11, <1>12 DEF Next

LEMMA InvKeysOnce == DictInv => KeysOnce
<1> SUFFICES ASSUME TablesInv, IterInv, IterDone PROVE iter.owed = {}
  BY DEF DictInv, KeysOnce, IterInv
<1>1. /\ iter.table \in {0, 1} /\ iter.index \in Int
      /\ d.ht0.size \in Nat /\ d.ht1.size \in Nat
      /\ ~IsRehashing(d) => d.ht1.keys = {}
  BY InvFacts, SizeFacts, TableFacts DEF Iterator, Sound
<1>2. ASSUME NEW k \in iter.owed PROVE FALSE
  <2>1. Ahead(k) /\ iter.on
    BY <1>2 DEF IterInv, IterDone
  <2>2. CASE iter.table = 0
    <3>1. iter.index + 1 >= d.ht0.size /\ ~IsRehashing(d)
      BY <2>2 DEF IterDone, IterTable
    <3>2. k \in d.ht0.keys /\ Slot(d.ht0, k) > iter.index
      BY <1>1, <2>1, <3>1 DEF Ahead
    <3>3. Slot(d.ht0, k) \in 0 .. d.ht0.size - 1
      BY <3>2, InvFacts, SlotFacts
    <3> QED
      BY <1>1, <3>1, <3>2, <3>3
  <2>3. CASE iter.table = 1
    <3>1. iter.index + 1 >= d.ht1.size
      BY <2>3 DEF IterDone, IterTable
    <3>2. k \in d.ht1.keys /\ Slot(d.ht1, k) > iter.index
      BY <2>1, <2>3 DEF Ahead
    <3>3. Slot(d.ht1, k) \in 0 .. d.ht1.size - 1
      BY <3>2, InvFacts, SlotFacts
    <3> QED
      BY <1>1, <3>1, <3>2, <3>3
  <2> QED
    BY <1>1, <2>2, <2>3
<1> QED
  BY <1>2

\* At every moment of a resize the two tables are one dictionary: dictFind finds the
\* keys that were added and not deleted and no others, no key is in both tables, and
\* nothing is left behind the rehash index.
THEOREM TablesHold == Spec => []TablesInv
<1>1. DictInv => TablesInv
  BY DEF DictInv
<1> QED
  BY <1>1, InitInv, StepInv, PTL DEF Spec

\* KEYS returns every key that stays for the whole command, and none twice, also in
\* the middle of a rehashing and with keys added and deleted meanwhile.
THEOREM KeysReturned == Spec => []KeysOnce
<1> QED
  BY InvKeysOnce, InitInv, StepInv, PTL DEF Spec

-----------------------------------------------------------------------------
(* The cursor of SCAN: arithmetic.                                         *)

\* Induction up to n over a set T of numbers.
LEMMA UpTo ==
    ASSUME NEW T, NEW n \in Nat, 0 \in T, \A i \in 0 .. n - 1 : i \in T => i + 1 \in T
    PROVE  \A i \in 0 .. n : i \in T
<1> DEFINE B == {i \in 0 .. n : i \notin T}
<1> SUFFICES ASSUME B # {} PROVE FALSE
  OBVIOUS
<1>1. B \subseteq Nat
  OBVIOUS
<1>2. PICK m \in B : \A i \in B : m <= i
  BY <1>1, Least
<1>3. m # 0 /\ m \in 1 .. n /\ m \notin T
  OBVIOUS
<1>4. m - 1 \in 0 .. n - 1 /\ m - 1 \in 0 .. n /\ ~ (m <= m - 1)
  BY <1>3
<1>5. m - 1 \in T
  BY <1>2, <1>4
<1>6. (m - 1) + 1 \in T
  BY <1>4, <1>5
<1> QED BY <1>3, <1>6

\* Quotient and remainder are the only ones.
LEMMA DivideIs ==
    ASSUME NEW x \in Nat, NEW p \in Nat \ {0}, NEW a \in Nat, NEW r \in 0 .. p - 1,
           x = a * p + r
    PROVE  x \div p = a /\ x % p = r
OBVIOUS

LEMMA Divide ==
    ASSUME NEW x \in Nat, NEW p \in Nat \ {0}
    PROVE  x \div p \in Nat /\ x % p \in 0 .. p - 1 /\ x = (x \div p) * p + (x % p)
OBVIOUS

\* A remainder is its own remainder.
LEMMA Small ==
    ASSUME NEW x \in Nat, NEW p \in Nat \ {0}, x < p
    PROVE  x \div p = 0 /\ x % p = x
<1>1. x = 0 * p + x /\ x \in 0 .. p - 1 /\ 0 \in Nat
  OBVIOUS
<1> QED BY <1>1, DivideIs

\* The remainders by p and by 2 * p differ by a bit.
LEMMA Halves ==
    ASSUME NEW x \in Nat, NEW p \in Nat \ {0}
    PROVE  LET bit == (x \div p) % 2 IN
           /\ bit \in {0, 1}
           /\ x % (2 * p) = IF bit = 0 THEN x % p ELSE (x % p) + p
           /\ x % (2 * p) < 2 * p
           /\ bit = 0 <=> x % (2 * p) < p
           /\ (x % (2 * p)) % p = x % p
<1> DEFINE a == x \div p
           r == x % p
           b == a % 2
           c == a \div 2
<1>1. a \in Nat /\ r \in 0 .. p - 1 /\ x = a * p + r
  BY Divide
<1> HIDE DEF a, r
<1>2. c \in Nat /\ b \in 0 .. 1 /\ a = c * 2 + b
  BY <1>1, Divide
<1> HIDE DEF b, c
<1>3. 2 * p \in Nat \ {0} /\ c * (2 * p) = (c * 2) * p
  BY <1>2
<1>4. CASE b = 0
  <2>1. x = c * (2 * p) + r /\ r \in 0 .. 2 * p - 1
    BY <1>1, <1>2, <1>3, <1>4
  <2>2. x % (2 * p) = r
    BY <1>2, <1>3, <2>1, DivideIs
  <2>3. r % p = r
    BY <1>1, Small
  <2>4. x % (2 * p) < 2 * p /\ x % (2 * p) < p
    BY <1>1, <2>2
  <2> QED BY <1>4, <2>2, <2>3, <2>4 DEF a, r, b
<1>5. CASE b = 1
  <2>1. (c * 2 + 1) * p = (c * 2) * p + p
    BY <1>2
  <2>2. x = c * (2 * p) + (r + p) /\ r + p \in 0 .. 2 * p - 1
    BY <1>1, <1>2, <1>3, <1>5, <2>1
  <2>3. x % (2 * p) = r + p
    BY <1>2, <1>3, <2>2, DivideIs
  <2>4. r + p = 1 * p + r /\ r + p \in Nat
    BY <1>1
  <2>5. (r + p) % p = r
    BY <1>1, <2>4, DivideIs
  <2>6. x % (2 * p) < 2 * p /\ ~ (x % (2 * p) < p)
    BY <1>1, <2>3
  <2> QED BY <1>5, <2>3, <2>5, <2>6 DEF a, r, b
<1> QED BY <1>2, <1>4, <1>5

\* f doubles, up to n.
Doubles(f, n) == f = [i \in 0 .. n |-> IF i = 0 THEN 1 ELSE 2 * f[i - 1]]

\* The powers of two.
LEMMA Powers ==
    /\ Pow2[0] = 1
    /\ \A i \in 0 .. Bits - 1 : Pow2[i + 1] = 2 * Pow2[i]
    /\ \A i \in 0 .. Bits : Pow2[i] \in Nat \ {0}
<1>0. Bits \in Nat
  BY DictAssumption
<1> DEFINE T == {i \in 0 .. Bits : \E f : Doubles(f, i)}
<1>1. 0 \in T
  <2>1. Doubles([i \in 0 .. 0 |-> 1], 0)
    BY DEF Doubles
  <2> QED BY <1>0, <2>1
<1>2. ASSUME NEW i \in 0 .. Bits - 1, i \in T PROVE i + 1 \in T
  <2>1. PICK f : Doubles(f, i)
    BY <1>2
  <2> DEFINE g == [j \in 0 .. i + 1 |-> IF j = i + 1 THEN 2 * f[i] ELSE f[j]]
  <2>2. Doubles(g, i + 1)
    <3> SUFFICES ASSUME NEW j \in 0 .. i + 1
                 PROVE  g[j] = IF j = 0 THEN 1 ELSE 2 * g[j - 1]
      BY DEF Doubles
    <3>1. CASE j = i + 1
      BY <1>0, <3>1
    <3>2. CASE j # i + 1
      BY <1>0, <2>1, <3>2 DEF Doubles
    <3> QED BY <3>1, <3>2
  <2> QED BY <1>0, <2>2
<1> HIDE DEF T
<1>3. Bits \in T
  BY <1>0, <1>1, <1>2, UpTo
<1>4. PICK f : Doubles(f, Bits)
  BY <1>3 DEF T
<1>5. Doubles(Pow2, Bits)
  BY <1>4 DEF Pow2, Doubles
<1>6. Pow2[0] = 1
  BY <1>0, <1>5 DEF Doubles
<1>7. ASSUME NEW i \in 0 .. Bits - 1 PROVE Pow2[i + 1] = 2 * Pow2[i]
  <2>1. i + 1 \in 0 .. Bits /\ i + 1 # 0 /\ (i + 1) - 1 = i
    BY <1>0
  <2> QED BY <1>5, <2>1 DEF Doubles
<1> DEFINE U == {i \in 0 .. Bits : Pow2[i] \in Nat \ {0}}
<1>8. 0 \in U
  BY <1>0, <1>6
<1>9. ASSUME NEW i \in 0 .. Bits - 1, i \in U PROVE i + 1 \in U
  BY <1>0, <1>7, <1>9
<1> HIDE DEF U
<1>10. \A i \in 0 .. Bits : i \in U
  BY <1>0, <1>8, <1>9, UpTo
<1> QED BY <1>6, <1>7, <1>10 DEF U

-----------------------------------------------------------------------------
(* The cursor of SCAN: reversing the bits.                                 *)

\* Bit i of v, and the remainders by the powers around it.
LEMMA BitIs ==
    ASSUME NEW v \in Nat, NEW i \in 0 .. Bits - 1
    PROVE  /\ Bit(v, i) \in {0, 1}
           /\ v % Pow2[i + 1] = IF Bit(v, i) = 0 THEN v % Pow2[i] ELSE (v % Pow2[i]) + Pow2[i]
           /\ v % Pow2[i + 1] < Pow2[i + 1]
           /\ Bit(v, i) = 0 <=> v % Pow2[i + 1] < Pow2[i]
           /\ (v % Pow2[i + 1]) % Pow2[i] = v % Pow2[i]
<1>1. PICK p : p = Pow2[i] /\ p \in Nat \ {0} /\ Pow2[i + 1] = 2 * p
  BY Powers, DictAssumption
<1>2. Bit(v, i) = (v \div p) % 2
  BY <1>1 DEF Bit
<1>3. PICK b : b = (v \div p) % 2
  OBVIOUS
<1>4. /\ b \in {0, 1}
      /\ v % (2 * p) = IF b = 0 THEN v % p ELSE (v % p) + p
      /\ v % (2 * p) < 2 * p
      /\ b = 0 <=> v % (2 * p) < p
      /\ (v % (2 * p)) % p = v % p
  BY ONLY <1>1, <1>3, v \in Nat, Halves
<1>5. PICK x, y : x = v % (2 * p) /\ y = v % p
  OBVIOUS
<1>6. /\ b \in {0, 1} /\ x = IF b = 0 THEN y ELSE y + p
      /\ x < 2 * p /\ (b = 0 <=> x < p) /\ x % p = y
  BY ONLY <1>4, <1>5
<1>7. v % Pow2[i + 1] = x /\ v % Pow2[i] = y /\ Bit(v, i) = b
  BY ONLY <1>1, <1>2, <1>3, <1>5
<1> QED BY ONLY <1>1, <1>6, <1>7

\* Powers grow, and each divides the largest.
LEMMA PowersGrow ==
    /\ \A i \in 0 .. Bits : \A j \in i .. Bits : Pow2[i] <= Pow2[j]
    /\ \A j \in 0 .. Bits : Pow2[Bits] = Pow2[Bits - j] * Pow2[j]
<1>0. Bits \in Nat
  BY DictAssumption
<1>1. ASSUME NEW i \in 0 .. Bits PROVE \A j \in i .. Bits : Pow2[i] <= Pow2[j]
  <2> DEFINE T == {n \in 0 .. Bits - i : Pow2[i] <= Pow2[i + n]}
  <2>1. 0 \in T /\ Bits - i \in Nat
    BY <1>0, Powers
  <2>2. ASSUME NEW n \in 0 .. (Bits - i) - 1, n \in T PROVE n + 1 \in T
    <3>1. i + n \in 0 .. Bits - 1 /\ i + (n + 1) = (i + n) + 1 /\ n + 1 \in 0 .. Bits - i
      BY <1>0
    <3>2. /\ Pow2[i + (n + 1)] = 2 * Pow2[i + n] /\ Pow2[i + n] \in Nat /\ Pow2[i] \in Nat
          /\ Pow2[i] <= Pow2[i + n]
      BY <1>0, <2>2, <3>1, Powers
    <3> QED BY <3>1, <3>2
  <2> HIDE DEF T
  <2>3. \A n \in 0 .. Bits - i : n \in T
    BY <2>1, <2>2, UpTo
  <2>4. ASSUME NEW j \in i .. Bits PROVE Pow2[i] <= Pow2[j]
    <3>1. j - i \in 0 .. Bits - i /\ i + (j - i) = j
      BY <1>0
    <3> QED BY <2>3, <3>1 DEF T
  <2> QED BY <2>4
<1> DEFINE U == {j \in 0 .. Bits : Pow2[Bits] = Pow2[Bits - j] * Pow2[j]}
<1>2. 0 \in U
  BY <1>0, Powers
<1>3. ASSUME NEW j \in 0 .. Bits - 1, j \in U PROVE j + 1 \in U
  <2>1. /\ j + 1 \in 0 .. Bits /\ Bits - (j + 1) \in 0 .. Bits - 1
        /\ (Bits - (j + 1)) + 1 = Bits - j /\ j \in 0 .. Bits /\ Bits - (j + 1) \in 0 .. Bits
    BY <1>0
  <2>2. PICK p, q : p = Pow2[j] /\ q = Pow2[Bits - (j + 1)] /\ p \in Nat /\ q \in Nat
    BY <2>1, Powers
  <2>3. Pow2[j + 1] = 2 * p /\ Pow2[Bits - j] = 2 * q
    BY <2>1, <2>2, Powers
  <2>4. (2 * q) * p = q * (2 * p)
    BY <2>2
  <2> QED BY <1>3, <2>1, <2>2, <2>3, <2>4
<1> HIDE DEF U
<1>4. \A j \in 0 .. Bits : j \in U
  BY <1>0, <1>2, <1>3, UpTo
<1> QED BY <1>1, <1>4 DEF U

\* What has the same remainder by a power has it by the smaller ones.
LEMMA Coarser ==
    ASSUME NEW v \in Nat, NEW w \in Nat, NEW i \in 0 .. Bits, NEW j \in i .. Bits,
           v % Pow2[j] = w % Pow2[j]
    PROVE  v % Pow2[i] = w % Pow2[i]
<1>0. Bits \in Nat
  BY DictAssumption
<1> DEFINE T == {n \in 0 .. Bits - i :
                    v % Pow2[i + n] = w % Pow2[i + n] => v % Pow2[i] = w % Pow2[i]}
<1>1. 0 \in T /\ Bits - i \in Nat
  BY <1>0
<1>2. ASSUME NEW n \in 0 .. (Bits - i) - 1, n \in T PROVE n + 1 \in T
  <2>1. i + n \in 0 .. Bits - 1 /\ i + (n + 1) = (i + n) + 1 /\ n + 1 \in 0 .. Bits - i
    BY <1>0
  <2>2. (v % Pow2[(i + n) + 1]) % Pow2[i + n] = v % Pow2[i + n]
    BY <2>1, BitIs
  <2>3. (w % Pow2[(i + n) + 1]) % Pow2[i + n] = w % Pow2[i + n]
    BY <2>1, BitIs
  <2>4. v % Pow2[i + n] = w % Pow2[i + n] => v % Pow2[i] = w % Pow2[i]
    BY <1>2
  <2> QED BY <2>1, <2>2, <2>3, <2>4
<1> HIDE DEF T
<1>3. \A n \in 0 .. Bits - i : n \in T
  BY <1>1, <1>2, UpTo
<1>4. j - i \in 0 .. Bits - i /\ i + (j - i) = j
  BY <1>0
<1> QED BY <1>3, <1>4 DEF T

\* A word is its bits.
LEMMA SameBits ==
    ASSUME NEW v \in Word, NEW w \in Word, \A i \in 0 .. Bits - 1 : Bit(v, i) = Bit(w, i)
    PROVE  v = w
<1>0. Bits \in Nat /\ v \in Nat /\ w \in Nat
  BY DictAssumption DEF Word
<1> DEFINE T == {i \in 0 .. Bits : v % Pow2[i] = w % Pow2[i]}
<1>1. 0 \in T
  <2>1. v % 1 = 0 /\ w % 1 = 0
    BY <1>0
  <2> QED BY <1>0, <2>1, Powers
<1>2. ASSUME NEW i \in 0 .. Bits - 1, i \in T PROVE i + 1 \in T
  <2>1. v % Pow2[i + 1] = IF Bit(v, i) = 0 THEN v % Pow2[i] ELSE (v % Pow2[i]) + Pow2[i]
    BY <1>0, BitIs
  <2>2. w % Pow2[i + 1] = IF Bit(w, i) = 0 THEN w % Pow2[i] ELSE (w % Pow2[i]) + Pow2[i]
    BY <1>0, BitIs
  <2>3. v % Pow2[i] = w % Pow2[i] /\ Bit(v, i) = Bit(w, i) /\ i + 1 \in 0 .. Bits
    BY <1>0, <1>2
  <2> QED BY <2>1, <2>2, <2>3
<1> HIDE DEF T
<1>3. Bits \in T
  BY <1>0, <1>1, <1>2, UpTo
<1>4. v % Pow2[Bits] = v /\ w % Pow2[Bits] = w
  <2>1. PICK p : p = Pow2[Bits] /\ p \in Nat \ {0}
    BY <1>0, Powers
  <2>2. v < p /\ w < p
    BY <1>0, <2>1 DEF Word
  <2> QED BY <1>0, <2>1, <2>2, Small
<1> QED BY <1>3, <1>4 DEF T

-----------------------------------------------------------------------------

\* g adds up the lowest n bits of v, the lowest with the largest weight.
Adds(g, v, n) ==
    /\ g \in [0 .. n -> Nat]
    /\ g[0] = 0
    /\ \A i \in 0 .. n - 1 :
        g[i + 1] = IF Bit(v, i) = 0 THEN g[i] ELSE g[i] + Pow2[Bits - (i + 1)]

\* The sums for each word; the last one is the word reversed.
Part == [v \in Word |-> CHOOSE g : Adds(g, v, Bits)]

\* The sums exist.
LEMMA PartIs ==
    ASSUME NEW v \in Word
    PROVE  Adds(Part[v], v, Bits)
<1>0. Bits \in Nat
  BY DictAssumption
<1> DEFINE T == {n \in 0 .. Bits : \E g : Adds(g, v, n)}
<1>1. 0 \in T
  <2>1. Adds([i \in 0 .. 0 |-> 0], v, 0)
    BY DEF Adds
  <2> QED BY <1>0, <2>1
<1>2. ASSUME NEW n \in 0 .. Bits - 1, n \in T PROVE n + 1 \in T
  <2>1. PICK g : Adds(g, v, n)
    BY <1>2
  <2>2. PICK x : x = IF Bit(v, n) = 0 THEN g[n] ELSE g[n] + Pow2[Bits - (n + 1)]
    OBVIOUS
  <2>3. x \in Nat
    <3>1. Pow2[Bits - (n + 1)] \in Nat
      BY <1>0, Powers
    <3>2. g[n] \in Nat
      BY <1>0, <2>1 DEF Adds
    <3> QED BY <2>2, <3>1, <3>2
  <2> DEFINE f == [i \in 0 .. n + 1 |-> IF i = n + 1 THEN x ELSE g[i]]
  <2>4. f \in [0 .. n + 1 -> Nat]
    BY <2>1, <2>3 DEF Adds
  <2>5. f[0] = 0
    BY <1>0, <2>1 DEF Adds
  <2>6. ASSUME NEW i \in 0 .. (n + 1) - 1
        PROVE  f[i + 1] = IF Bit(v, i) = 0 THEN f[i] ELSE f[i] + Pow2[Bits - (i + 1)]
    <3>0. n \in Nat /\ i \in 0 .. n
      BY <1>0
    <3>1. CASE i = n
      <4>1. f[i + 1] = x /\ f[i] = g[n]
        BY <3>0, <3>1
      <4> QED BY <2>2, <3>1, <4>1
    <3>2. CASE i # n
      <4>1. i \in 0 .. n - 1 /\ f[i + 1] = g[i + 1] /\ f[i] = g[i]
        BY <3>0, <3>2
      <4> QED BY <2>1, <4>1 DEF Adds
    <3> QED BY <3>1, <3>2
  <2> HIDE DEF f
  <2>7. Adds(f, v, n + 1)
    BY <2>4, <2>5, <2>6 DEF Adds
  <2> QED BY <1>0, <2>7
<1> HIDE DEF T
<1>3. Bits \in T
  BY <1>0, <1>1, <1>2, UpTo
<1>4. \E g : Adds(g, v, Bits)
  BY <1>3 DEF T
<1> QED BY <1>4 DEF Part

\* One step of the sums: the interval that starts there and is as long as the
\* weight that is left is cut in halves.
LEMMA PartStep ==
    ASSUME NEW v \in Word, NEW i \in 0 .. Bits - 1
    PROVE  \E q \in Nat \ {0} :
               /\ Pow2[Bits - (i + 1)] = q /\ Pow2[Bits - i] = 2 * q
               /\ Part[v][i] \in Nat
               /\ Part[v][i + 1] = IF Bit(v, i) = 0 THEN Part[v][i] ELSE Part[v][i] + q
<1>1. /\ Bits - (i + 1) \in 0 .. Bits - 1 /\ Bits - (i + 1) \in 0 .. Bits
      /\ (Bits - (i + 1)) + 1 = Bits - i /\ i \in 0 .. Bits
  BY DictAssumption
<1>2. PICK q \in Nat \ {0} : q = Pow2[Bits - (i + 1)]
  BY <1>1, Powers
<1>3. Pow2[Bits - i] = 2 * q
  BY <1>1, <1>2, Powers
<1>4. Part[v][i] \in Nat
  BY <1>1, PartIs DEF Adds
<1>5. Part[v][i + 1] = IF Bit(v, i) = 0 THEN Part[v][i] ELSE Part[v][i] + q
  BY <1>2, PartIs DEF Adds
<1> QED BY <1>2, <1>3, <1>4, <1>5

\* The intervals are nested.
LEMMA PartNested ==
    ASSUME NEW v \in Word, NEW i \in 0 .. Bits, NEW j \in i .. Bits
    PROVE  /\ Part[v][i] \in Nat /\ Part[v][j] \in Nat
           /\ Pow2[Bits - i] \in Nat \ {0} /\ Pow2[Bits - j] \in Nat \ {0}
           /\ Part[v][i] <= Part[v][j]
           /\ Part[v][j] + Pow2[Bits - j] <= Part[v][i] + Pow2[Bits - i]
<1>0. Bits \in Nat
  BY DictAssumption
<1>1. \A n \in 0 .. Bits : Part[v][n] \in Nat /\ Pow2[Bits - n] \in Nat \ {0}
  <2> SUFFICES ASSUME NEW n \in 0 .. Bits PROVE Part[v][n] \in Nat /\ Pow2[Bits - n] \in Nat \ {0}
    OBVIOUS
  <2>1. Part[v][n] \in Nat
    BY PartIs DEF Adds
  <2>2. Bits - n \in 0 .. Bits
    BY <1>0
  <2> QED BY <2>1, <2>2, Powers
<1> DEFINE T == {n \in 0 .. Bits - i :
                    /\ Part[v][i] <= Part[v][i + n]
                    /\ Part[v][i + n] + Pow2[Bits - (i + n)] <= Part[v][i] + Pow2[Bits - i]}
<1>2. 0 \in T /\ Bits - i \in Nat
  BY <1>0, <1>1
<1>3. ASSUME NEW n \in 0 .. (Bits - i) - 1, n \in T PROVE n + 1 \in T
  <2>1. i + n \in 0 .. Bits - 1 /\ i + (n + 1) = (i + n) + 1 /\ n + 1 \in 0 .. Bits - i
    BY <1>0
  <2>2. PICK m : m = i + n
    OBVIOUS
  <2>3. PICK q \in Nat \ {0} :
            /\ Pow2[Bits - (m + 1)] = q /\ Pow2[Bits - m] = 2 * q
            /\ Part[v][m] \in Nat
            /\ Part[v][m + 1] = IF Bit(v, m) = 0 THEN Part[v][m] ELSE Part[v][m] + q
    BY <2>1, <2>2, PartStep
  <2>4. PICK x, y, a, b : x = Part[v][m] /\ y = Part[v][m + 1] /\ a = Part[v][i]
                          /\ b = Pow2[Bits - i]
    OBVIOUS
  <2>5. /\ x \in Nat /\ a \in Nat /\ b \in Nat /\ q \in Nat
        /\ y = x \/ y = x + q
        /\ a <= x /\ x + 2 * q <= a + b
    BY <1>0, <1>1, <1>3, <2>2, <2>3, <2>4
  <2>6. a <= y /\ y + q <= a + b
    BY ONLY <2>5
  <2> QED BY <2>1, <2>2, <2>3, <2>4, <2>6
<1> HIDE DEF T
<1>4. \A n \in 0 .. Bits - i : n \in T
  BY <1>2, <1>3, UpTo
<1>5. j - i \in 0 .. Bits - i /\ i + (j - i) = j /\ j \in 0 .. Bits
  BY <1>0
<1> QED BY <1>1, <1>4, <1>5 DEF T

\* The sum of the lowest i bits depends on nothing else.
LEMMA PartSame ==
    ASSUME NEW v \in Word, NEW w \in Word, NEW i \in 0 .. Bits, v % Pow2[i] = w % Pow2[i]
    PROVE  Part[v][i] = Part[w][i]
<1>0. Bits \in Nat /\ v \in Nat /\ w \in Nat
  BY DictAssumption DEF Word
<1> DEFINE T == {n \in 0 .. Bits : v % Pow2[n] = w % Pow2[n] => Part[v][n] = Part[w][n]}
<1>1. 0 \in T
  BY <1>0, PartIs DEF Adds
<1>2. ASSUME NEW n \in 0 .. Bits - 1, n \in T PROVE n + 1 \in T
  <2> SUFFICES ASSUME v % Pow2[n + 1] = w % Pow2[n + 1] PROVE Part[v][n + 1] = Part[w][n + 1]
    BY <1>0
  <2>1. v % Pow2[n] = w % Pow2[n]
    <3>1. (v % Pow2[n + 1]) % Pow2[n] = v % Pow2[n]
      BY <1>0, BitIs
    <3>2. (w % Pow2[n + 1]) % Pow2[n] = w % Pow2[n]
      BY <1>0, BitIs
    <3> QED BY <3>1, <3>2
  <2>2. Bit(v, n) = Bit(w, n)
    <3>1. Bit(v, n) \in {0, 1} /\ (Bit(v, n) = 0 <=> v % Pow2[n + 1] < Pow2[n])
      BY <1>0, BitIs
    <3>2. Bit(w, n) \in {0, 1} /\ (Bit(w, n) = 0 <=> w % Pow2[n + 1] < Pow2[n])
      BY <1>0, BitIs
    <3> QED BY <3>1, <3>2
  <2>3. Part[v][n] = Part[w][n]
    BY <1>2, <2>1
  <2>4. Part[v][n + 1] = IF Bit(v, n) = 0 THEN Part[v][n] ELSE Part[v][n] + Pow2[Bits - (n + 1)]
    BY PartIs DEF Adds
  <2>5. Part[w][n + 1] = IF Bit(w, n) = 0 THEN Part[w][n] ELSE Part[w][n] + Pow2[Bits - (n + 1)]
    BY PartIs DEF Adds
  <2> QED BY <2>2, <2>3, <2>4, <2>5
<1> HIDE DEF T
<1>3. \A n \in 0 .. Bits : n \in T
  BY <1>0, <1>1, <1>2, UpTo
<1> QED BY <1>3 DEF T

\* The intervals of words that differ in their lowest i bits do not meet.
LEMMA PartApart ==
    ASSUME NEW v \in Word, NEW w \in Word, NEW i \in 0 .. Bits, v % Pow2[i] # w % Pow2[i]
    PROVE  \/ Part[v][i] + Pow2[Bits - i] <= Part[w][i]
           \/ Part[w][i] + Pow2[Bits - i] <= Part[v][i]
<1>0. Bits \in Nat /\ v \in Nat /\ w \in Nat
  BY DictAssumption DEF Word
<1> DEFINE T == {n \in 0 .. Bits : v % Pow2[n] # w % Pow2[n] =>
                    \/ Part[v][n] + Pow2[Bits - n] <= Part[w][n]
                    \/ Part[w][n] + Pow2[Bits - n] <= Part[v][n]}
<1>1. 0 \in T
  <2>1. v % 1 = 0 /\ w % 1 = 0
    BY <1>0
  <2> QED BY <1>0, <2>1, Powers
<1>2. ASSUME NEW n \in 0 .. Bits - 1, n \in T PROVE n + 1 \in T
  <2> SUFFICES ASSUME v % Pow2[n + 1] # w % Pow2[n + 1]
               PROVE  \/ Part[v][n + 1] + Pow2[Bits - (n + 1)] <= Part[w][n + 1]
                      \/ Part[w][n + 1] + Pow2[Bits - (n + 1)] <= Part[v][n + 1]
    BY <1>0
  <2>1. PICK q \in Nat \ {0} :
            /\ Pow2[Bits - (n + 1)] = q /\ Pow2[Bits - n] = 2 * q
            /\ Part[v][n] \in Nat
            /\ Part[v][n + 1] = IF Bit(v, n) = 0 THEN Part[v][n] ELSE Part[v][n] + q
    BY PartStep
  <2>2. /\ Part[w][n] \in Nat
        /\ Part[w][n + 1] = IF Bit(w, n) = 0 THEN Part[w][n] ELSE Part[w][n] + q
    BY <2>1, PartStep
  <2>3. PICK x, y, a, b : x = Part[v][n] /\ y = Part[w][n]
                          /\ a = Part[v][n + 1] /\ b = Part[w][n + 1]
    OBVIOUS
  <2>4. CASE v % Pow2[n] # w % Pow2[n]
    <3>1. /\ x \in Nat /\ y \in Nat /\ q \in Nat
          /\ a \in {x, x + q} /\ b \in {y, y + q}
          /\ x + 2 * q <= y \/ y + 2 * q <= x
      BY <1>2, <2>1, <2>2, <2>3, <2>4
    <3>2. a + q <= b \/ b + q <= a
      BY ONLY <3>1
    <3> QED BY <2>1, <2>3, <3>2
  <2>5. CASE v % Pow2[n] = w % Pow2[n]
    <3>1. x = y
      BY <1>0, <2>3, <2>5, PartSame
    <3>2. Bit(v, n) # Bit(w, n) /\ Bit(v, n) \in {0, 1} /\ Bit(w, n) \in {0, 1}
      <4>1. /\ Bit(v, n) \in {0, 1}
            /\ v % Pow2[n + 1] = IF Bit(v, n) = 0 THEN v % Pow2[n] ELSE (v % Pow2[n]) + Pow2[n]
        BY <1>0, BitIs
      <4>2. /\ Bit(w, n) \in {0, 1}
            /\ w % Pow2[n + 1] = IF Bit(w, n) = 0 THEN w % Pow2[n] ELSE (w % Pow2[n]) + Pow2[n]
        BY <1>0, BitIs
      <4> QED BY <2>5, <4>1, <4>2
    <3>3. x \in Nat /\ q \in Nat /\ ((a = x /\ b = x + q) \/ (a = x + q /\ b = x))
      BY <2>1, <2>2, <2>3, <3>1, <3>2
    <3>4. a + q <= b \/ b + q <= a
      BY ONLY <3>3
    <3> QED BY <2>1, <2>3, <3>4
  <2> QED BY <2>4, <2>5
<1> HIDE DEF T
<1>3. \A n \in 0 .. Bits : n \in T
  BY <1>0, <1>1, <1>2, UpTo
<1> QED BY <1>3 DEF T

-----------------------------------------------------------------------------

\* The sums are multiples of the weight that is left.
LEMMA PartMultiple ==
    ASSUME NEW v \in Word, NEW i \in 0 .. Bits
    PROVE  \E a \in Nat : Part[v][i] = a * Pow2[Bits - i]
<1>0. Bits \in Nat
  BY DictAssumption
<1> DEFINE T == {n \in 0 .. Bits : \E a \in Nat : Part[v][n] = a * Pow2[Bits - n]}
<1>1. 0 \in T
  <2>1. Part[v][0] = 0 /\ Pow2[Bits - 0] \in Nat
    BY <1>0, PartIs, Powers DEF Adds
  <2>2. Part[v][0] = 0 * Pow2[Bits - 0]
    BY <2>1
  <2> QED BY <1>0, <2>2
<1>2. ASSUME NEW n \in 0 .. Bits - 1, n \in T PROVE n + 1 \in T
  <2>1. PICK q \in Nat \ {0} :
            /\ Pow2[Bits - (n + 1)] = q /\ Pow2[Bits - n] = 2 * q
            /\ Part[v][n] \in Nat
            /\ Part[v][n + 1] = IF Bit(v, n) = 0 THEN Part[v][n] ELSE Part[v][n] + q
    BY PartStep
  <2>2. PICK a \in Nat : Part[v][n] = a * (2 * q)
    BY <1>2, <2>1
  <2>3. a * (2 * q) = (2 * a) * q /\ a * (2 * q) + q = (2 * a + 1) * q
    OBVIOUS
  <2>4. 2 * a \in Nat /\ 2 * a + 1 \in Nat /\ n + 1 \in 0 .. Bits
    BY <1>0
  <2>5. CASE Bit(v, n) = 0
    <3>1. Part[v][n + 1] = (2 * a) * Pow2[Bits - (n + 1)]
      BY <2>1, <2>2, <2>3, <2>5
    <3> QED BY <2>4, <3>1
  <2>6. CASE Bit(v, n) # 0
    <3>1. Part[v][n + 1] = (2 * a + 1) * Pow2[Bits - (n + 1)]
      BY <2>1, <2>2, <2>3, <2>6
    <3> QED BY <2>4, <3>1
  <2> QED BY <2>5, <2>6
<1> HIDE DEF T
<1>3. \A n \in 0 .. Bits : n \in T
  BY <1>0, <1>1, <1>2, UpTo
<1> QED BY <1>3 DEF T

\* The bits of the last sum are those of the word in reverse order.
LEMMA PartBits ==
    ASSUME NEW v \in Word, NEW i \in 0 .. Bits - 1
    PROVE  Bit(Part[v][Bits], Bits - (i + 1)) = Bit(v, i)
<1>0. Bits \in Nat /\ v \in Nat
  BY DictAssumption DEF Word
<1>1. PICK q \in Nat \ {0} :
          /\ Pow2[Bits - (i + 1)] = q /\ Pow2[Bits - i] = 2 * q
          /\ Part[v][i] \in Nat
          /\ Part[v][i + 1] = IF Bit(v, i) = 0 THEN Part[v][i] ELSE Part[v][i] + q
  BY PartStep
<1>2. i + 1 \in 0 .. Bits /\ Bits \in i + 1 .. Bits /\ i \in 0 .. Bits /\ Bits - Bits = 0
  BY <1>0
<1>3. /\ Part[v][i + 1] \in Nat /\ Part[v][Bits] \in Nat
      /\ Part[v][i + 1] <= Part[v][Bits]
      /\ Part[v][Bits] + 1 <= Part[v][i + 1] + q
  BY <1>1, <1>2, PartNested, Powers
<1>4. PICK a \in Nat : Part[v][i] = a * (2 * q)
  BY <1>1, <1>2, PartMultiple
<1>5. PICK x, y : x = Part[v][Bits] /\ y = Part[v][i + 1]
  OBVIOUS
<1>6. PICK b \in {0, 1} : b = Bit(v, i)
  BY <1>0, BitIs
<1>7. y = (2 * a + b) * q
  <2>1. a * (2 * q) = (2 * a) * q /\ a * (2 * q) + q = (2 * a + 1) * q /\ (2 * a) * q = (2 * a + 0) * q
    OBVIOUS
  <2> QED BY <1>1, <1>4, <1>5, <1>6, <2>1
<1>8. PICK r : r = x - y
  OBVIOUS
<1>9. r \in 0 .. q - 1 /\ x = y + r /\ x \in Nat
  <2>1. x \in Nat /\ y \in Nat /\ q \in Nat /\ y <= x /\ x + 1 <= y + q /\ r = x - y
    BY <1>3, <1>5, <1>8
  <2> QED BY ONLY <2>1
<1>10. x = (2 * a + b) * q + r /\ 2 * a + b \in Nat
  BY <1>6, <1>7, <1>9
<1>11. x \div q = 2 * a + b
  BY <1>9, <1>10, DivideIs
<1>12. (2 * a + b) % 2 = b
  <2>1. 2 * a + b = a * 2 + b /\ b \in 0 .. 2 - 1 /\ 2 \in Nat \ {0}
    BY <1>6
  <2> QED BY <1>10, <2>1, DivideIs
<1>13. Bit(x, Bits - (i + 1)) = (x \div q) % 2
  BY <1>1 DEF Bit
<1> QED BY <1>5, <1>6, <1>11, <1>12, <1>13

\* rev: the last sum; its bits are the bits in reverse order, and reversing
\* twice gives the word back.
LEMMA RevIs ==
    ASSUME NEW v \in Word
    PROVE  Rev[v] \in Word /\ Rev[v] = Part[v][Bits] /\ Rev[Rev[v]] = v
<1>0. Bits \in Nat
  BY DictAssumption
<1>1. ASSUME NEW u \in Word PROVE Part[u][Bits] \in Word
  <2>1. 0 \in 0 .. Bits /\ Bits \in 0 .. Bits /\ Bits - Bits = 0 /\ Bits - 0 = Bits
    BY <1>0
  <2>2. /\ Part[u][0] \in Nat /\ Part[u][Bits] \in Nat /\ Pow2[Bits] \in Nat
        /\ Part[u][Bits] + 1 <= Part[u][0] + Pow2[Bits] /\ Part[u][0] = 0
    BY <2>1, PartNested, Powers, PartIs DEF Adds
  <2> QED BY <2>2 DEF Word
<1>2. ASSUME NEW u \in Word, NEW i \in 0 .. Bits - 1
      PROVE  Bit(Part[u][Bits], i) = Bit(u, Bits - 1 - i)
  <2>1. Bits - 1 - i \in 0 .. Bits - 1 /\ Bits - ((Bits - 1 - i) + 1) = i
    BY <1>0
  <2> QED BY <2>1, PartBits
<1>3. ASSUME NEW u \in Word PROVE Rev[u] = Part[u][Bits]
  <2> DEFINE r == CHOOSE r \in Word : \A i \in 0 .. Bits - 1 : Bit(r, i) = Bit(u, Bits - 1 - i)
  <2>1. r \in Word /\ \A i \in 0 .. Bits - 1 : Bit(r, i) = Bit(u, Bits - 1 - i)
    BY <1>1, <1>2
  <2>2. Rev[u] = r
    BY DEF Rev
  <2> HIDE DEF r
  <2>3. \A i \in 0 .. Bits - 1 : Bit(r, i) = Bit(Part[u][Bits], i)
    BY <1>2, <2>1
  <2>4. r = Part[u][Bits]
    BY <1>1, <2>1, <2>3, SameBits
  <2> QED BY <2>2, <2>4
<1>4. Rev[v] \in Word /\ Rev[Rev[v]] \in Word
  BY <1>1, <1>3
<1>5. ASSUME NEW i \in 0 .. Bits - 1 PROVE Bit(Rev[Rev[v]], i) = Bit(v, i)
  <2>1. Bits - 1 - i \in 0 .. Bits - 1 /\ Bits - 1 - (Bits - 1 - i) = i
    BY <1>0
  <2>2. Bit(Rev[Rev[v]], i) = Bit(Rev[v], Bits - 1 - i)
    BY <1>2, <1>3, <1>4
  <2>3. Bit(Rev[v], Bits - 1 - i) = Bit(v, i)
    BY <1>2, <1>3, <2>1
  <2> QED BY <2>2, <2>3
<1>6. Rev[Rev[v]] = v
  BY <1>4, <1>5, SameBits
<1> QED BY <1>3, <1>4, <1>6

-----------------------------------------------------------------------------
(* The cursor of SCAN: the words that share a bucket of a table follow     *)
(* each other in the order of the reversed bits.                           *)

\* The first of them has no bits but those of the bucket.
LEMMA BlockFirst ==
    ASSUME NEW v \in Word, NEW b \in 0 .. Bits
    PROVE  LET r == v % Pow2[b] IN
           r \in Word /\ r < Pow2[b] /\ r % Pow2[b] = r /\ Rev[r] = Part[v][b]
<1>0. Bits \in Nat /\ v \in Nat
  BY DictAssumption DEF Word
<1>1. PICK p \in Nat \ {0} : p = Pow2[b]
  BY Powers
<1>2. PICK r : r = v % p
  OBVIOUS
<1>3. r \in 0 .. p - 1 /\ r \in Nat /\ r < p
  BY <1>0, <1>1, <1>2, Divide
<1>4. p <= Pow2[Bits] /\ Pow2[Bits] \in Nat
  BY <1>0, <1>1, PowersGrow, Powers
<1>5. r \in Word
  BY <1>3, <1>4 DEF Word
<1>6. r % p = r
  BY <1>3, Small
<1>7. Part[r][b] = Part[v][b]
  BY <1>1, <1>2, <1>5, <1>6, PartSame
<1> DEFINE T == {n \in 0 .. Bits - b : Part[r][b + n] = Part[r][b]}
<1>8. 0 \in T /\ Bits - b \in Nat
  BY <1>0
<1>9. ASSUME NEW n \in 0 .. (Bits - b) - 1, n \in T PROVE n + 1 \in T
  <2>1. b + n \in 0 .. Bits - 1 /\ b + (n + 1) = (b + n) + 1 /\ n + 1 \in 0 .. Bits - b
        /\ b + n \in b .. Bits /\ b + n \in 0 .. Bits
    BY <1>0
  <2>2. PICK m : m = b + n
    OBVIOUS
  <2>3. PICK t \in Nat \ {0} : t = Pow2[m]
    BY <2>1, <2>2, Powers
  <2>4. p <= t
    BY <1>1, <2>1, <2>2, <2>3, PowersGrow
  <2>5. r < t
    BY <1>3, <2>4
  <2>6. r \div t = 0
    BY <1>3, <2>5, Small
  <2>7. Bit(r, m) = 0
    BY <2>3, <2>6 DEF Bit
  <2>8. Part[r][m + 1] = Part[r][m]
    BY <1>5, <2>1, <2>2, <2>7, PartIs DEF Adds
  <2> QED BY <1>9, <2>1, <2>2, <2>8
<1> HIDE DEF T
<1>10. \A n \in 0 .. Bits - b : n \in T
  BY <1>8, <1>9, UpTo
<1>11. Part[r][Bits] = Part[r][b]
  <2>1. Bits - b \in 0 .. Bits - b /\ b + (Bits - b) = Bits
    BY <1>0
  <2> QED BY <1>10, <2>1 DEF T
<1>12. Rev[r] = Part[v][b]
  BY <1>5, <1>7, <1>11, RevIs
<1> QED BY <1>1, <1>2, <1>3, <1>5, <1>6, <1>12

\* The last of them has all the other bits.
LEMMA BlockLast ==
    ASSUME NEW v \in Word, NEW b \in 0 .. Bits
    PROVE  LET h == (v % Pow2[b]) + (Pow2[Bits] - Pow2[b]) IN
           h \in Word /\ Rev[h] + 1 = Part[v][b] + Pow2[Bits - b]
<1>0. Bits \in Nat /\ v \in Nat
  BY DictAssumption DEF Word
<1>1. PICK p \in Nat \ {0}, s \in Nat \ {0} : p = Pow2[b] /\ s = Pow2[Bits]
  BY <1>0, Powers
<1>2. PICK r : r = v % p
  OBVIOUS
<1>3. r \in 0 .. p - 1
  BY <1>0, <1>1, <1>2, Divide
<1>4. p <= s
  BY <1>0, <1>1, PowersGrow
<1>5. PICK h : h = r + (s - p)
  OBVIOUS
<1>6. PICK e : e = p - r
  OBVIOUS
<1>7. h \in Nat /\ h < s /\ e \in 1 .. p /\ h = s - e
  <2>1. p \in Nat /\ s \in Nat /\ r \in 0 .. p - 1 /\ p <= s /\ h = r + (s - p) /\ e = p - r
    BY <1>3, <1>4, <1>5, <1>6
  <2> QED BY ONLY <2>1
<1>8. h \in Word
  BY <1>1, <1>7 DEF Word
\* A power that divides s.
<1>9. ASSUME NEW t \in Nat \ {0}, NEW c \in Nat, s = c * t, p <= t
      PROVE  h % t = t - e /\ t - e \in 0 .. t - 1
  <2>1. c # 0
    BY <1>9
  <2>2. PICK c1 \in Nat : c = c1 + 1
    <3>1. c - 1 \in Nat /\ c = (c - 1) + 1
      BY <2>1
    <3> QED BY <3>1
  <2>3. (c1 + 1) * t = c1 * t + t /\ c1 * t \in Nat
    OBVIOUS
  <2>4. PICK x : x = c1 * t
    OBVIOUS
  <2>5. s = x + t /\ e \in 1 .. p /\ p <= t /\ t \in Nat /\ p \in Nat /\ h = s - e /\ x \in Nat
    BY <1>7, <1>9, <2>2, <2>3, <2>4
  <2>6. h = x + (t - e) /\ t - e \in 0 .. t - 1
    BY ONLY <2>5
  <2>7. h = c1 * t + (t - e)
    BY <2>4, <2>6
  <2> QED BY <1>7, <2>6, <2>7, DivideIs
<1>10. \A n \in 0 .. Bits : \E c \in Nat : s = c * Pow2[n]
  <2> SUFFICES ASSUME NEW n \in 0 .. Bits PROVE \E c \in Nat : s = c * Pow2[n]
    OBVIOUS
  <2>1. Bits - n \in 0 .. Bits
    BY <1>0
  <2>2. s = Pow2[Bits - n] * Pow2[n] /\ Pow2[Bits - n] \in Nat
    BY <1>1, <2>1, PowersGrow, Powers
  <2> QED BY <2>2
<1>11. Part[h][b] = Part[v][b]
  <2>1. h % p = p - e
    BY <1>1, <1>9, <1>10
  <2>2. p - e = r
    BY <1>3, <1>6
  <2> QED BY <1>1, <1>2, <1>8, <2>1, <2>2, PartSame
<1> DEFINE T == {n \in 0 .. Bits - b :
                    Part[h][b + n] + Pow2[Bits - (b + n)] = Part[h][b] + Pow2[Bits - b]}
<1>12. 0 \in T /\ Bits - b \in Nat
  BY <1>0
<1>13. ASSUME NEW n \in 0 .. (Bits - b) - 1, n \in T PROVE n + 1 \in T
  <2>1. b + n \in 0 .. Bits - 1 /\ b + (n + 1) = (b + n) + 1 /\ n + 1 \in 0 .. Bits - b
        /\ b + n \in b .. Bits /\ b + n \in 0 .. Bits /\ (b + n) + 1 \in 0 .. Bits
    BY <1>0
  <2>2. PICK m : m = b + n
    OBVIOUS
  <2>3. PICK t \in Nat \ {0} : t = Pow2[m] /\ Pow2[m + 1] = 2 * t
    BY <2>1, <2>2, Powers
  <2>4. p <= t
    BY <1>1, <2>1, <2>2, <2>3, PowersGrow
  <2>5. PICK c \in Nat : s = c * (2 * t)
    BY <1>10, <2>1, <2>2, <2>3
  <2>6. 2 * t \in Nat \ {0} /\ p <= 2 * t
    BY <2>4
  <2>7. h % (2 * t) = 2 * t - e
    BY <1>9, <2>5, <2>6
  <2>8. ~ (2 * t - e < t)
    BY <1>7, <2>4
  <2>9. Bit(h, m) # 0
    <3>1. Bit(h, m) = 0 <=> h % Pow2[m + 1] < Pow2[m]
      BY <1>7, <2>1, <2>2, BitIs
    <3> QED BY <2>3, <2>7, <2>8, <3>1
  <2>10. PICK q \in Nat \ {0} :
            /\ Pow2[Bits - (m + 1)] = q /\ Pow2[Bits - m] = 2 * q
            /\ Part[h][m] \in Nat
            /\ Part[h][m + 1] = IF Bit(h, m) = 0 THEN Part[h][m] ELSE Part[h][m] + q
    BY <1>8, <2>1, <2>2, PartStep
  <2>11. Part[h][m + 1] + Pow2[Bits - (m + 1)] = Part[h][m] + Pow2[Bits - m]
    BY <2>9, <2>10
  <2> QED BY <1>13, <2>1, <2>2, <2>11
<1> HIDE DEF T
<1>14. \A n \in 0 .. Bits - b : n \in T
  BY <1>12, <1>13, UpTo
<1>15. Part[h][Bits] + 1 = Part[h][b] + Pow2[Bits - b]
  <2>1. Bits - b \in 0 .. Bits - b /\ b + (Bits - b) = Bits /\ Bits - Bits = 0
    BY <1>0
  <2> QED BY <1>14, <2>1, Powers DEF T
<1> QED BY <1>1, <1>2, <1>5, <1>8, <1>11, <1>15, RevIs

\* The words of a bucket of a table of this size are q words in a row.
LEMMA Blocks ==
    ASSUME NEW b \in 0 .. Bits
    PROVE  LET size == Pow2[b]
               q == Pow2[Bits - b]
               W == Pow2[Bits]
           IN /\ q \in Nat \ {0}
              /\ \A v \in Word :
                  /\ v % size \in Word /\ v % size < size /\ (v % size) % size = v % size
                  /\ (v % size) + (W - size) \in Word
                  /\ Rev[(v % size) + (W - size)] + 1 = Rev[v % size] + q
                  /\ Rev[v % size] + q <= W
                  /\ \A w \in Word :
                      w % size = v % size
                      <=> Rev[v % size] <= Rev[w] /\ Rev[w] < Rev[v % size] + q
<1>0. Bits \in Nat
  BY DictAssumption
<1> DEFINE size == Pow2[b]
           q == Pow2[Bits - b]
           W == Pow2[Bits]
<1>1. q \in Nat \ {0} /\ W \in Nat \ {0}
  BY <1>0, Powers
<1>2. ASSUME NEW v \in Word
      PROVE  /\ v % size \in Word /\ v % size < size /\ (v % size) % size = v % size
             /\ (v % size) + (W - size) \in Word
             /\ Rev[(v % size) + (W - size)] + 1 = Rev[v % size] + q
             /\ Rev[v % size] + q <= W
             /\ \A w \in Word : w % size = v % size
                    <=> Rev[v % size] <= Rev[w] /\ Rev[w] < Rev[v % size] + q
  <2>1. /\ v % size \in Word /\ v % size < size /\ (v % size) % size = v % size
        /\ Rev[v % size] = Part[v][b]
    BY BlockFirst
  <2>2. /\ (v % size) + (W - size) \in Word
        /\ Rev[(v % size) + (W - size)] + 1 = Part[v][b] + q
    BY BlockLast
  <2>3. Part[v][b] + q <= W
    <3>1. 0 \in 0 .. Bits /\ b \in 0 .. Bits /\ Bits - 0 = Bits
      BY <1>0
    <3>2. Part[v][0] = 0
      BY PartIs DEF Adds
    <3>3. Part[v][b] + q <= 0 + W
      BY <3>1, <3>2, PartNested
    <3> QED BY <1>1, <3>3
  <2>4. ASSUME NEW w \in Word
        PROVE  /\ Part[w][b] \in Nat /\ Rev[w] \in Nat
               /\ Part[w][b] <= Rev[w] /\ Rev[w] + 1 <= Part[w][b] + q
    <3>1. Bits \in b .. Bits /\ Bits - Bits = 0
      BY <1>0
    <3> QED BY <3>1, PartNested, Powers, RevIs
  <2>5. ASSUME NEW w \in Word, w % size = v % size
        PROVE  Part[v][b] <= Rev[w] /\ Rev[w] < Part[v][b] + q
    <3>1. Part[w][b] = Part[v][b]
      BY <2>5, PartSame
    <3>2. PICK x, y : x = Part[w][b] /\ y = Rev[w]
      OBVIOUS
    <3>3. x \in Nat /\ y \in Nat /\ q \in Nat /\ x <= y /\ y + 1 <= x + q
      BY <1>1, <2>4, <3>2
    <3>4. x <= y /\ y < x + q
      BY ONLY <3>3
    <3> QED BY <3>1, <3>2, <3>4
  <2>6. ASSUME NEW w \in Word, w % size # v % size, Part[v][b] <= Rev[w],
               Rev[w] < Part[v][b] + q
        PROVE  FALSE
    <3>1. Part[v][b] + q <= Part[w][b] \/ Part[w][b] + q <= Part[v][b]
      BY <2>6, PartApart
    <3>2. PICK x, y, z : x = Part[w][b] /\ y = Rev[w] /\ z = Part[v][b]
      OBVIOUS
    <3>3. /\ x \in Nat /\ y \in Nat /\ q \in Nat /\ z \in Nat
          /\ x <= y /\ y + 1 <= x + q /\ z <= y /\ y < z + q
          /\ z + q <= x \/ x + q <= z
      BY <1>1, <2>4, <2>6, <3>1, <3>2
    <3> QED BY ONLY <3>3
  <2> HIDE DEF size, q, W
  <2>7. Rev[v % size] + q <= W
    BY <2>1, <2>3
  <2>8. Rev[(v % size) + (W - size)] + 1 = Rev[v % size] + q
    BY <2>1, <2>2
  <2>9. \A w \in Word : w % size = v % size
            <=> Rev[v % size] <= Rev[w] /\ Rev[w] < Rev[v % size] + q
    BY <2>1, <2>5, <2>6
  <2> QED BY <2>1, <2>2, <2>7, <2>8, <2>9
<1> QED BY <1>1, <1>2

-----------------------------------------------------------------------------
(* The cursor of SCAN: one step.                                           *)

\* Factors can be cancelled.
LEMMA Cancel ==
    ASSUME NEW p \in Nat, NEW x \in Nat, NEW y \in Nat, x * p = y * p, p > 0
    PROVE  x = y
OBVIOUS

\* Every table has a power of two of buckets.
LEMMA SizesArePowers ==
    ASSUME NEW s \in Sizes
    PROVE  \E b \in 0 .. Bits : s = Pow2[b]
<1>0. Bits \in Nat /\ InitialSize \in Nat
  BY DictAssumption, SizeFacts
<1>1. PICK i \in 0 .. Bits : s = InitialSize * Pow2[i]
  BY DEF Sizes
<1>2. s \in Nat \ {0} /\ s <= Pow2[Bits]
  BY SizeFacts
<1>3. PICK j \in 0 .. Bits : Pow2[Bits] = InitialSize * Pow2[j]
  BY DictAssumption DEF Sizes
<1>4. PICK a \in 0 .. Bits : a = Bits - j
  BY <1>0
<1>5. InitialSize = Pow2[a]
  <2>1. Pow2[Bits] = Pow2[a] * Pow2[j]
    BY <1>4, PowersGrow
  <2>2. PICK x, p : x = Pow2[a] /\ p = Pow2[j] /\ x \in Nat /\ p \in Nat /\ p > 0
    BY Powers
  <2>3. InitialSize * p = x * p
    BY <1>3, <2>1, <2>2
  <2>4. InitialSize = x
    BY <1>0, <2>2, <2>3, Cancel
  <2> QED BY <2>2, <2>4
<1> DEFINE T == {n \in 0 .. j : Pow2[a] * Pow2[n] = Pow2[a + n]}
<1>6. 0 \in T
  BY <1>0, Powers
<1>7. ASSUME NEW n \in 0 .. j - 1, n \in T PROVE n + 1 \in T
  <2>1. /\ n \in 0 .. Bits - 1 /\ a + n \in 0 .. Bits - 1 /\ a + (n + 1) = (a + n) + 1
        /\ n + 1 \in 0 .. j /\ n \in 0 .. Bits
    BY <1>0, <1>4
  <2>2. PICK x, y : x = Pow2[a] /\ y = Pow2[n] /\ x \in Nat /\ y \in Nat
    BY <2>1, Powers
  <2>3. Pow2[n + 1] = 2 * y /\ Pow2[(a + n) + 1] = 2 * Pow2[a + n] /\ Pow2[a + n] = x * y
    BY <1>7, <2>1, <2>2, Powers
  <2>4. x * (2 * y) = 2 * (x * y)
    BY ONLY <2>2
  <2> QED BY <2>1, <2>2, <2>3, <2>4
<1> HIDE DEF T
<1>8. \A n \in 0 .. j : n \in T
  BY <1>0, <1>6, <1>7, UpTo
<1>9. CASE i <= j
  <2>1. i \in 0 .. j /\ a + i \in 0 .. Bits
    BY <1>0, <1>4, <1>9
  <2>2. s = Pow2[a + i]
    BY <1>1, <1>5, <1>8, <2>1 DEF T
  <2> QED BY <2>1, <2>2
<1>10. CASE ~ (i <= j)
  <2>1. j + 1 \in 0 .. Bits /\ i \in j + 1 .. Bits /\ j \in 0 .. Bits - 1
    BY <1>0, <1>10
  <2>2. Pow2[j + 1] <= Pow2[i] /\ Pow2[j + 1] = 2 * Pow2[j]
    BY <2>1, PowersGrow, Powers
  <2>3. PICK x, p, t, w : x = InitialSize /\ p = Pow2[j] /\ t = Pow2[i] /\ w = Pow2[Bits]
    OBVIOUS
  <2>4. x \in Nat /\ p \in Nat /\ t \in Nat /\ w \in Nat /\ w > 0 /\ 2 * p <= t
        /\ w = x * p /\ s = x * t /\ s <= w /\ s \in Nat
    BY <1>0, <1>1, <1>2, <1>3, <2>2, <2>3, Powers
  <2>5. PICK e \in Nat : t = 2 * p + e
    <3>1. t - 2 * p \in Nat /\ t = 2 * p + (t - 2 * p)
      BY <2>4
    <3> QED BY <3>1
  <2>6. x * t = 2 * (x * p) + x * e /\ x * e \in Nat
    BY <2>4, <2>5
  <2>7. PICK y \in Nat : y = x * e
    BY <2>6
  <2>8. s = 2 * w + y /\ s <= w /\ w > 0 /\ w \in Nat /\ y \in Nat
    BY <2>4, <2>6, <2>7
  <2> QED BY ONLY <2>8
<1> QED BY <1>9, <1>10

\* Where the words of the bucket of v end, in a table of Pow2[b] buckets.
End(v, b) == Rev[v % Pow2[b]] + Pow2[Bits - b]

\* Where a word is in its bucket.
LEMMA EndIs ==
    ASSUME NEW v \in Word, NEW b \in 0 .. Bits
    PROVE  /\ Pow2[Bits] \in Nat \ {0}
           /\ v % Pow2[b] \in Word /\ Rev[v % Pow2[b]] \in Nat
           /\ Rev[v] \in Nat /\ End(v, b) \in Nat
           /\ Rev[v % Pow2[b]] <= Rev[v] /\ Rev[v] < End(v, b)
           /\ End(v, b) <= Pow2[Bits]
           /\ \A w \in Word :
                w % Pow2[b] = v % Pow2[b] <=> Rev[v % Pow2[b]] <= Rev[w] /\ Rev[w] < End(v, b)
<1>1. /\ v % Pow2[b] \in Word /\ Pow2[Bits - b] \in Nat
      /\ Rev[v % Pow2[b]] + Pow2[Bits - b] <= Pow2[Bits]
      /\ \A w \in Word : w % Pow2[b] = v % Pow2[b]
            <=> Rev[v % Pow2[b]] <= Rev[w] /\ Rev[w] < Rev[v % Pow2[b]] + Pow2[Bits - b]
  BY Blocks
<1>2. Rev[v] \in Nat /\ Rev[v % Pow2[b]] \in Nat
  BY <1>1, RevIs DEF Word
<1>3. Pow2[Bits] \in Nat \ {0}
  BY SizeFacts
<1> QED BY <1>1, <1>2, <1>3 DEF End

\* The last word of the bucket of v.
LEMMA LastWord ==
    ASSUME NEW v \in Word, NEW b \in 0 .. Bits
    PROVE  LET h == (v % Pow2[b]) + (Pow2[Bits] - Pow2[b]) IN
           /\ h \in Word /\ Rev[h] \in Nat /\ Rev[h] + 1 = End(v, b)
           /\ h % Pow2[b] = v % Pow2[b]
<1>1. PICK h : h = (v % Pow2[b]) + (Pow2[Bits] - Pow2[b])
  OBVIOUS
<1>2. h \in Word /\ Rev[h] + 1 = End(v, b)
  BY <1>1, Blocks DEF End
<1>3. Rev[h] \in Nat
  BY <1>2, RevIs DEF Word
<1>4. PICK x, y, z, e : x = Rev[v % Pow2[b]] /\ y = Rev[v] /\ z = Rev[h] /\ e = End(v, b)
  OBVIOUS
<1>5. x \in Nat /\ y \in Nat /\ z \in Nat /\ e \in Nat /\ x <= y /\ y < e /\ z + 1 = e
  BY <1>2, <1>3, <1>4, EndIs
<1>6. x <= z /\ z < e
  BY ONLY <1>5
<1>7. h % Pow2[b] = v % Pow2[b]
  BY <1>2, <1>4, <1>6, EndIs
<1> QED BY <1>1, <1>2, <1>3, <1>7

\* Reversing keeps words apart.
LEMMA RevOne ==
    ASSUME NEW v \in Word, NEW w \in Word, Rev[v] = Rev[w]
    PROVE  v = w
BY RevIs

\* 0 is the first word.
LEMMA RevZero == 0 \in Word /\ Rev[0] = 0
<1>1. 0 \in Word /\ 0 \in 0 .. Bits
  BY SizeFacts, DictAssumption DEF Word
<1>2. 0 % Pow2[0] = 0
  BY Powers
<1>3. Rev[0] = Part[0][0]
  BY <1>1, <1>2, BlockFirst
<1> QED BY <1>1, <1>3, PartIs DEF Adds

\* The cursor goes to the word after the bucket, and behind the last one to 0.
LEMMA AdvanceIs ==
    ASSUME NEW v \in Word, NEW b \in 0 .. Bits
    PROVE  /\ Advance(v, Pow2[b]) \in Word
           /\ End(v, b) = Pow2[Bits] => Advance(v, Pow2[b]) = 0
           /\ End(v, b) # Pow2[Bits] => Rev[Advance(v, Pow2[b])] = End(v, b)
<1>1. PICK h, W, e : /\ h = (v % Pow2[b]) + (Pow2[Bits] - Pow2[b])
                     /\ W = Pow2[Bits] /\ e = End(v, b)
  OBVIOUS
<1>2. h \in Word /\ Rev[h] \in Nat /\ Rev[h] + 1 = e
  BY <1>1, LastWord
<1>3. e \in Nat /\ W \in Nat \ {0} /\ e <= W
  BY <1>1, EndIs
<1>4. Advance(v, Pow2[b]) = Rev[e % W]
  BY <1>1, <1>2 DEF Advance
<1>5. CASE e = W
  <2>1. e % W = 0
    <3>1. e = 1 * W + 0 /\ 0 \in 0 .. W - 1 /\ 1 \in Nat
      BY <1>3, <1>5
    <3> QED BY <1>3, <3>1, DivideIs
  <2> QED BY <1>1, <1>4, <1>5, <2>1, RevZero
<1>6. CASE e # W
  <2>1. e < W
    BY <1>3, <1>6
  <2>2. e % W = e /\ e \in Word
    BY <1>1, <1>3, <2>1, Small DEF Word
  <2>3. Rev[e] \in Word /\ Rev[Rev[e]] = e
    BY <2>2, RevIs
  <2> QED BY <1>1, <1>4, <1>6, <2>2, <2>3
<1> QED BY <1>5, <1>6

\* The word after a bucket is the first of its own.
LEMMA FirstWord ==
    ASSUME NEW v \in Word, NEW w \in Word, NEW b \in 0 .. Bits, Rev[w] = End(v, b)
    PROVE  w % Pow2[b] = w
<1> DEFINE r == w % Pow2[b]
<1>1. PICK h : h \in Word /\ Rev[h] \in Nat /\ Rev[h] + 1 = End(v, b) /\ h % Pow2[b] = v % Pow2[b]
  BY LastWord
<1>2. /\ r \in Word /\ Rev[r] \in Nat /\ Rev[w] \in Nat /\ End(w, b) \in Nat
      /\ Rev[r] <= Rev[w] /\ Rev[w] < End(w, b)
      /\ h % Pow2[b] = r <=> Rev[r] <= Rev[h] /\ Rev[h] < End(w, b)
  BY <1>1, EndIs
<1>3. CASE Rev[r] = Rev[w]
  BY <1>2, <1>3, RevOne
<1>4. CASE Rev[r] # Rev[w]
  <2>1. PICK x, y, z, e : x = Rev[r] /\ y = Rev[w] /\ z = Rev[h] /\ e = End(w, b)
    OBVIOUS
  <2>2. x \in Nat /\ y \in Nat /\ z \in Nat /\ e \in Nat /\ x <= y /\ y < e /\ x # y /\ z + 1 = y
    BY <1>1, <1>2, <1>4, <2>1
  <2>3. x <= z /\ z < e
    BY ONLY <2>2
  <2>4. v % Pow2[b] = r
    BY <1>1, <1>2, <2>1, <2>3
  <2>5. End(v, b) = End(w, b)
    BY <2>4 DEF End
  <2>6. y < y
    BY <1>2, <2>1, <2>5
  <2> QED BY <2>2, <2>6
<1> QED BY <1>3, <1>4

-----------------------------------------------------------------------------
(* The cursor of SCAN: the loop over the larger table.                     *)

\* The loop goes on after cursor w.
Goes(w, s, l) == (Advance(w, l) % l) \div s # 0

LEMMA WholeQuotient ==
    ASSUME NEW x \in Nat, NEW p \in Nat \ {0}
    PROVE  x \div p = 0 <=> x % p = x
<1>1. PICK a, r : a = x \div p /\ r = x % p
  OBVIOUS
<1>2. a \in Nat /\ r \in Nat /\ r < p /\ x = a * p + r
  BY <1>1, Divide
<1>3. a = 0 <=> a * p = 0
  BY <1>2, Cancel
<1> QED BY <1>1, <1>2, <1>3

\* It goes on within the bucket of the smaller table, and stops at its end.
LEMMA LoopTurn ==
    ASSUME NEW i \in 0 .. Bits, NEW j \in i .. Bits, NEW w \in Word
    PROVE  LET n == Advance(w, Pow2[j]) IN
           /\ n \in Word
           /\ Goes(w, Pow2[i], Pow2[j]) =>
                /\ Rev[n] = End(w, j) /\ Rev[n] > Rev[w]
                /\ End(n, i) = End(w, i)
           /\ ~ Goes(w, Pow2[i], Pow2[j]) =>
                /\ End(w, j) = End(w, i)
                /\ End(w, i) = Pow2[Bits] => n = 0
                /\ End(w, i) # Pow2[Bits] => Rev[n] = End(w, i)
<1> DEFINE n == Advance(w, Pow2[j])
           s == Pow2[i]
           l == Pow2[j]
<1>0. Bits \in Nat /\ j \in 0 .. Bits
  BY DictAssumption
<1>1. PICK W \in Nat \ {0} : W = Pow2[Bits]
  BY SizeFacts
<1>2. s \in Nat \ {0} /\ l \in Nat \ {0}
  BY <1>0, Powers
<1>3. PICK h : h \in Word /\ Rev[h] \in Nat /\ Rev[h] + 1 = End(w, j) /\ h % l = w % l
  BY <1>0, LastWord
<1>4. h % s = w % s
  <2>1. h \in Nat /\ w \in Nat
    BY <1>3 DEF Word
  <2> QED BY <1>3, <2>1, Coarser
<1>5. /\ Rev[w] \in Nat /\ End(w, j) \in Nat /\ End(w, i) \in Nat
      /\ Rev[w] < End(w, j) /\ Rev[w] < End(w, i) /\ End(w, i) <= W /\ End(w, j) <= W
      /\ Rev[w % s] \in Nat /\ Rev[w % s] <= Rev[w] /\ w % s \in Word
  BY <1>0, <1>1, EndIs
<1>6. Rev[h] < End(w, i)
  BY <1>3, <1>4, EndIs
<1>7. End(w, j) <= End(w, i)
  <2>1. PICK x, a, b : x = Rev[h] /\ a = End(w, j) /\ b = End(w, i)
    OBVIOUS
  <2>2. x \in Nat /\ a \in Nat /\ b \in Nat /\ x + 1 = a /\ x < b
    BY <1>3, <1>5, <1>6, <2>1
  <2>3. a <= b
    BY ONLY <2>2
  <2> QED BY <2>1, <2>3
<1>8. CASE End(w, j) = W
  <2>1. n = 0 /\ n \in Word
    BY <1>0, <1>1, <1>8, AdvanceIs
  <2>2. (0 % l) \div s = 0
    <3>1. 0 % l = 0 /\ 0 \div s = 0
      BY <1>2, Small
    <3> QED BY <3>1
  <2>3. ~ Goes(w, s, l)
    BY <2>1, <2>2 DEF Goes
  <2>4. End(w, i) = W
    BY <1>5, <1>7, <1>8
  <2> QED BY <1>1, <1>8, <2>1, <2>3, <2>4
<1>9. CASE End(w, j) # W
  <2>1. n \in Word /\ Rev[n] = End(w, j)
    BY <1>0, <1>1, <1>9, AdvanceIs
  <2>2. n % l = n
    BY <1>0, <2>1, FirstWord
  <2> HIDE DEF n
  <2>3. n \in Nat
    BY <2>1 DEF Word
  <2>4. Goes(w, s, l) <=> n \div s # 0
    BY <2>2 DEF Goes, n
  <2>5. n \div s = 0 <=> n % s = n
    BY <1>2, <2>3, WholeQuotient
  <2>6. /\ n % s \in Word /\ Rev[n % s] \in Nat /\ Rev[n] \in Nat /\ End(n, i) \in Nat
        /\ Rev[n % s] <= Rev[n] /\ Rev[n] < End(n, i)
        /\ h % s = n % s <=> Rev[n % s] <= Rev[h] /\ Rev[h] < End(n, i)
    BY <1>3, <2>1, EndIs
  <2>7. CASE n % s # n
    <3>1. Goes(w, s, l)
      BY <2>4, <2>5, <2>7
    <3>2. Rev[n % s] # Rev[n]
      BY <2>1, <2>6, <2>7, RevOne
    <3>3. PICK x, y, z, e : x = Rev[n % s] /\ y = Rev[n] /\ z = Rev[h] /\ e = End(n, i)
      OBVIOUS
    <3>4. /\ x \in Nat /\ y \in Nat /\ z \in Nat /\ e \in Nat /\ x <= y /\ x # y /\ y < e
          /\ z + 1 = y
      BY <1>3, <2>1, <2>6, <3>2, <3>3
    <3>5. x <= z /\ z < e
      BY ONLY <3>4
    <3>6. n % s = w % s
      BY <1>4, <2>6, <3>3, <3>5
    <3>7. End(n, i) = End(w, i)
      BY <3>6 DEF End
    <3>8. Rev[n] > Rev[w]
      BY <1>5, <2>1
    <3> QED BY <2>1, <3>1, <3>7, <3>8 DEF n
  <2>8. CASE n % s = n
    <3>1. ~ Goes(w, s, l)
      BY <2>4, <2>5, <2>8
    <3>2. End(w, j) = End(w, i)
      <4> SUFFICES ASSUME End(w, j) # End(w, i) PROVE FALSE
        OBVIOUS
      <4>1. PICK x, y, z, e, f : /\ x = Rev[w % s] /\ y = Rev[w] /\ z = Rev[n]
                                 /\ e = End(w, j) /\ f = End(w, i)
        OBVIOUS
      <4>2. /\ x \in Nat /\ y \in Nat /\ z \in Nat /\ e \in Nat /\ f \in Nat
            /\ x <= y /\ y < e /\ e <= f /\ e # f /\ z = e
        BY <1>5, <1>7, <2>1, <2>6, <4>1
      <4>3. x <= z /\ z < f /\ x # z
        BY ONLY <4>2
      <4>4. n % s = w % s
        BY <2>1, <4>1, <4>3, EndIs
      <4>5. x = z
        BY <2>8, <4>1, <4>4
      <4> QED BY <4>3, <4>5
    <3> QED BY <1>1, <1>9, <2>1, <3>1, <3>2 DEF n
  <2> QED BY <2>7, <2>8
<1> QED BY <1>8, <1>9

\* Cursors that leave a bucket of the smaller table leave it to the same word.
LEMMA SameEnd ==
    ASSUME NEW i \in 0 .. Bits, NEW w \in Word, NEW n \in Word,
           \/ n = 0 /\ End(w, i) = Pow2[Bits]
           \/ Rev[n] = End(w, i) /\ End(w, i) # Pow2[Bits]
    PROVE  Advance(w, Pow2[i]) = n
<1>1. CASE n = 0 /\ End(w, i) = Pow2[Bits]
  BY <1>1, AdvanceIs
<1>2. CASE Rev[n] = End(w, i) /\ End(w, i) # Pow2[Bits]
  <2>1. Advance(w, Pow2[i]) \in Word /\ Rev[Advance(w, Pow2[i])] = Rev[n]
    BY <1>2, AdvanceIs
  <2> QED BY <2>1, RevOne
<1> QED BY <1>1, <1>2

LEMMA SameAdvance ==
    ASSUME NEW i \in 0 .. Bits, NEW w \in Word, NEW n \in Word, End(n, i) = End(w, i)
    PROVE  Advance(w, Pow2[i]) = Advance(n, Pow2[i])
<1>1. PICK a : a = Advance(n, Pow2[i])
  OBVIOUS
<1>2. /\ a \in Word
      /\ End(w, i) = Pow2[Bits] => a = 0
      /\ End(w, i) # Pow2[Bits] => Rev[a] = End(w, i)
  BY <1>1, AdvanceIs
<1> QED BY <1>1, <1>2, SameEnd

\* The keys of table t whose hashes are, in the order of the reversed bits, from the
\* start of the bucket of w to the end of the bucket of w in a table of Pow2[i].
Span(t, w, i) ==
    {k \in t.keys : Rev[w % t.size] <= Rev[hash[k]] /\ Rev[hash[k]] < End(w, i)}

LEMMA BucketIs ==
    ASSUME hash \in Hashes, NEW t \in Table, NEW j \in 0 .. Bits, t.size = Pow2[j],
           NEW w \in Word
    PROVE  Bucket(t, w % t.size) = Span(t, w, j)
<1>1. ASSUME NEW k \in t.keys
      PROVE  hash[k] % t.size = w % t.size
                <=> Rev[w % t.size] <= Rev[hash[k]] /\ Rev[hash[k]] < End(w, j)
  <2>1. k \in Key
    BY TableFacts
  <2>2. hash[k] \in Word
    BY <2>1, DictAssumption
  <2> QED BY <2>2, EndIs
<1> QED BY <1>1 DEF Bucket, Span

\* One turn of the loop joins its bucket to the rest.
LEMMA SpanTurn ==
    ASSUME hash \in Hashes, NEW t \in Table, NEW i \in 0 .. Bits, NEW j \in i .. Bits,
           t.size = Pow2[j], NEW w \in Word, NEW n, n = Advance(w, Pow2[j])
    PROVE  Span(t, w, i) = IF Goes(w, Pow2[i], Pow2[j])
                           THEN Bucket(t, w % t.size) \cup Span(t, n, i)
                           ELSE Bucket(t, w % t.size)
<1>0. Bits \in Nat /\ j \in 0 .. Bits
  BY DictAssumption
<1>1. Bucket(t, w % t.size) = Span(t, w, j)
  BY <1>0, BucketIs
<1>2. CASE ~ Goes(w, Pow2[i], Pow2[j])
  <2>1. End(w, j) = End(w, i)
    BY <1>2, LoopTurn
  <2> QED BY <1>1, <1>2, <2>1 DEF Span
<1>3. CASE Goes(w, Pow2[i], Pow2[j])
  <2>1. n \in Word /\ Rev[n] = End(w, j) /\ End(n, i) = End(w, i)
    BY <1>3, LoopTurn
  <2>2. n % t.size = n
    BY <1>0, <2>1, FirstWord
  <2>3. /\ Rev[w % Pow2[j]] \in Nat /\ Rev[w] \in Nat /\ End(w, j) \in Nat /\ End(w, i) \in Nat
        /\ Rev[w % Pow2[j]] <= Rev[w] /\ Rev[w] < End(w, j)
        /\ Rev[n] < End(n, i)
    BY <1>0, <2>1, EndIs
  <2>4. PICK a, b, c : a = Rev[w % t.size] /\ b = End(w, j) /\ c = End(w, i)
    OBVIOUS
  <2>5. a \in Nat /\ b \in Nat /\ c \in Nat /\ a <= b /\ b <= c
    <3>1. PICK r : r = Rev[w]
      OBVIOUS
    <3>2. a \in Nat /\ b \in Nat /\ c \in Nat /\ r \in Nat /\ a <= r /\ r < b /\ b < c
      BY <2>1, <2>3, <2>4, <3>1
    <3> QED BY ONLY <3>2
  <2>6. ASSUME NEW k \in t.keys
        PROVE  a <= Rev[hash[k]] /\ Rev[hash[k]] < c <=>
                 \/ a <= Rev[hash[k]] /\ Rev[hash[k]] < b
                 \/ b <= Rev[hash[k]] /\ Rev[hash[k]] < c
    <3>1. hash[k] \in Word
      BY TableFacts, DictAssumption
    <3>2. PICK x : x = Rev[hash[k]]
      OBVIOUS
    <3>3. x \in Nat
      BY <1>0, <3>1, <3>2, EndIs
    <3>4. a <= x /\ x < c <=> (a <= x /\ x < b) \/ (b <= x /\ x < c)
      BY ONLY <2>5, <3>3
    <3> QED BY <3>2, <3>4
  <2>7. Span(t, w, i) = {k \in t.keys : a <= Rev[hash[k]] /\ Rev[hash[k]] < c}
    BY <2>4 DEF Span
  <2>8. Span(t, w, j) = {k \in t.keys : a <= Rev[hash[k]] /\ Rev[hash[k]] < b}
    BY <2>4 DEF Span
  <2>9. Span(t, n, i) = {k \in t.keys : b <= Rev[hash[k]] /\ Rev[hash[k]] < c}
    BY <2>1, <2>2, <2>4 DEF Span
  <2>10. Span(t, w, i) = Span(t, w, j) \cup Span(t, n, i)
    BY <2>6, <2>7, <2>8, <2>9
  <2> QED BY <1>1, <1>3, <2>10
<1> QED BY <1>2, <1>3

\* The body of the loop of dictScan over the larger table, with f for the rest of it.
Turn(f, small, large, w) ==
    LET b == Bucket(large, w % large.size)
        n == Advance(w, large.size)
    IN  IF Goes(w, small.size, large.size)
        THEN [got |-> b \cup f[n].got, v |-> f[n].v]
        ELSE [got |-> b, v |-> n]

\* What the loop gives: the keys to the end of the smaller table's bucket, and the
\* cursor behind it.
Walk(large, i) ==
    [w \in Word |-> [got |-> Span(large, w, i), v |-> Advance(w, Pow2[i])]]

LEMMA ExpansionsDef ==
    ASSUME NEW small, NEW large, NEW v
    PROVE  Expansions(small, large, v)
             = (CHOOSE f : f = [w \in Word |-> Turn(f, small, large, w)])[v]
<1>1. ASSUME NEW w \in Word
      PROVE  [u \in Word |-> Advance(u, large.size)][w] = Advance(w, large.size)
  OBVIOUS
<1> QED BY <1>1 DEF Expansions, Turn, Goes

\* A turn of the loop on that.
LEMMA WalkTurn ==
    ASSUME hash \in Hashes, NEW small, NEW large \in Table,
           NEW i \in 0 .. Bits, NEW j \in i .. Bits,
           small.size = Pow2[i], large.size = Pow2[j], NEW w \in Word,
           NEW f, Goes(w, Pow2[i], Pow2[j]) =>
                    f[Advance(w, Pow2[j])] = Walk(large, i)[Advance(w, Pow2[j])]
    PROVE  Turn(f, small, large, w) = Walk(large, i)[w]
<1>1. PICK n : n = Advance(w, Pow2[j])
  OBVIOUS
<1>2. PICK b : b = Bucket(large, w % large.size)
  OBVIOUS
<1>3. n \in Word
  BY <1>1, LoopTurn
<1>4. Walk(large, i)[w] = [got |-> Span(large, w, i), v |-> Advance(w, Pow2[i])]
  BY DEF Walk
<1>5. CASE Goes(w, Pow2[i], Pow2[j])
  <2>1. f[n] = [got |-> Span(large, n, i), v |-> Advance(n, Pow2[i])]
    BY <1>1, <1>3, <1>5 DEF Walk
  <2>2. Span(large, w, i) = b \cup Span(large, n, i)
    BY <1>1, <1>2, <1>5, SpanTurn
  <2>3. Advance(w, Pow2[i]) = Advance(n, Pow2[i])
    <3>1. End(n, i) = End(w, i)
      BY <1>1, <1>5, LoopTurn
    <3> QED BY <1>3, <3>1, SameAdvance
  <2>4. Turn(f, small, large, w) = [got |-> b \cup f[n].got, v |-> f[n].v]
    BY <1>1, <1>2, <1>5 DEF Turn
  <2>5. f[n].got = Span(large, n, i) /\ f[n].v = Advance(n, Pow2[i])
    BY <2>1
  <2> QED BY <1>4, <2>2, <2>3, <2>4, <2>5
<1>6. CASE ~ Goes(w, Pow2[i], Pow2[j])
  <2>1. Span(large, w, i) = b
    BY <1>1, <1>2, <1>6, SpanTurn
  <2>2. Advance(w, Pow2[i]) = n
    <3>1. /\ End(w, i) = Pow2[Bits] => n = 0
          /\ End(w, i) # Pow2[Bits] => Rev[n] = End(w, i)
      BY <1>1, <1>6, LoopTurn
    <3> QED BY <1>3, <3>1, SameEnd
  <2>3. Turn(f, small, large, w) = [got |-> b, v |-> n]
    BY <1>1, <1>2, <1>6 DEF Turn
  <2> QED BY <1>4, <2>1, <2>2, <2>3
<1> QED BY <1>5, <1>6

\* The loop comes to an end, as the cursor only goes forward in the larger table, and
\* there is one function that it computes.
LEMMA ExpansionsIs ==
    ASSUME hash \in Hashes, NEW small, NEW large \in Table,
           NEW i \in 0 .. Bits, NEW j \in i .. Bits,
           small.size = Pow2[i], large.size = Pow2[j], NEW v \in Word
    PROVE  Expansions(small, large, v) = [got |-> Span(large, v, i), v |-> Advance(v, Pow2[i])]
<1> DEFINE g == Walk(large, i)
<1>1. g = [w \in Word |-> g[w]]
  BY DEF Walk
<1> HIDE DEF g
<1>2. g = [w \in Word |-> Turn(g, small, large, w)]
  <2>1. ASSUME NEW w \in Word PROVE Turn(g, small, large, w) = g[w]
    BY WalkTurn DEF g
  <2> QED BY <1>1, <2>1
<1>3. PICK f : /\ f = CHOOSE h : h = [w \in Word |-> Turn(h, small, large, w)]
               /\ f = [w \in Word |-> Turn(f, small, large, w)]
  BY <1>2
<1>4. ASSUME NEW x \in Word, f[x] # g[x] PROVE FALSE
  <2> DEFINE T == {Pow2[Bits] - Rev[w] : w \in {u \in Word : f[u] # g[u]}}
  <2>1. \A u \in Word : Rev[u] \in Nat /\ Rev[u] < Pow2[Bits] /\ Pow2[Bits] \in Nat
    <3>1. ASSUME NEW u \in Word PROVE Rev[u] \in Word
      BY RevIs
    <3> QED BY <3>1, SizeFacts DEF Word
  <2>2. T \subseteq Nat /\ T # {}
    BY <1>4, <2>1
  <2>3. PICK m \in T : \A y \in T : m <= y
    <3> HIDE DEF T
    <3> QED BY <2>2, Least
  <2>4. PICK w \in Word : f[w] # g[w] /\ m = Pow2[Bits] - Rev[w]
    BY <2>3
  <2>5. PICK n : n = Advance(w, Pow2[j])
    OBVIOUS
  <2>6. ASSUME Goes(w, Pow2[i], Pow2[j]) PROVE f[n] = g[n]
    <3>1. n \in Word /\ Rev[n] > Rev[w]
      BY <2>5, <2>6, LoopTurn
    <3> SUFFICES ASSUME f[n] # g[n] PROVE FALSE
      OBVIOUS
    <3>2. Pow2[Bits] - Rev[n] \in T
      BY <3>1
    <3>3. m <= Pow2[Bits] - Rev[n]
      BY <2>3, <3>2
    <3>4. Rev[w] \in Nat /\ Rev[n] \in Nat /\ Pow2[Bits] \in Nat
      BY <2>1, <3>1
    <3> QED BY <2>4, <3>1, <3>3, <3>4
  <2>7. Turn(f, small, large, w) = g[w]
    BY <2>5, <2>6, WalkTurn DEF g
  <2>8. f[w] = Turn(f, small, large, w)
    BY <1>3
  <2> QED BY <2>4, <2>7, <2>8
<1>5. f[v] = g[v]
  BY <1>4
<1>6. Expansions(small, large, v) = f[v]
  BY <1>3, ExpansionsDef
<1> QED BY <1>5, <1>6 DEF g, Walk

-----------------------------------------------------------------------------
(* What one call of dictScan returns.                                      *)

LEMMA PairScan ==
    ASSUME hash \in Hashes, NEW small \in Table, NEW large \in Table,
           small # NoTable, large # NoTable, small.size <= large.size, NEW v \in Word
    PROVE  \E i \in 0 .. Bits :
              /\ Bucket(small, v % small.size) = Span(small, v, i)
              /\ Expansions(small, large, v)
                    = [got |-> Span(large, v, i), v |-> Advance(v, Pow2[i])]
<1>1. small.size \in Sizes /\ large.size \in Sizes
  BY DEF Table
<1>2. PICK a \in 0 .. Bits : small.size = Pow2[a]
  BY <1>1, SizesArePowers
<1>3. PICK j \in 0 .. Bits : large.size = Pow2[j]
  BY <1>1, SizesArePowers
<1>4. PICK i \in 0 .. Bits : small.size = Pow2[i] /\ i <= j
  <2>1. CASE a <= j
    BY <1>2, <2>1
  <2>2. CASE ~ (a <= j)
    <3>1. a \in Nat /\ j \in Nat /\ Bits \in Nat /\ a \in j .. Bits
      BY <2>2, DictAssumption
    <3>2. Pow2[j] <= Pow2[a] /\ Pow2[j] \in Nat /\ Pow2[a] \in Nat
      BY <3>1, PowersGrow, Powers
    <3>3. Pow2[a] = Pow2[j]
      BY <1>2, <1>3, <3>2
    <3> QED BY <1>2, <3>1, <3>3
  <2> QED BY <2>1, <2>2
<1>5. j \in i .. Bits
  BY <1>4, DictAssumption
<1>6. Bucket(small, v % small.size) = Span(small, v, i)
  BY <1>4, BucketIs
<1>7. Expansions(small, large, v) = [got |-> Span(large, v, i), v |-> Advance(v, Pow2[i])]
  BY <1>3, <1>4, <1>5, ExpansionsIs
<1> QED BY <1>6, <1>7

\* The call with cursor v visits, in the order of the reversed bits, everything from v
\* to e, and leaves the cursor at e, or at 0 when nothing is left.
Visits(r, v, e) ==
    /\ r.v \in Word /\ e \in Nat /\ Rev[v] < e /\ e <= Pow2[Bits]
    /\ e = Pow2[Bits] => r.v = 0
    /\ e # Pow2[Bits] => Rev[r.v] = e
    /\ \A k \in keys : Rev[v] <= Rev[hash[k]] /\ Rev[hash[k]] < e => k \in r.got

\* The keys from v on are in the span of its bucket.
LEMMA InSpan ==
    ASSUME hash \in Hashes, NEW t \in Table, t # NoTable, NEW v \in Word, NEW i \in 0 .. Bits,
           NEW k \in t.keys, Rev[v] <= Rev[hash[k]], Rev[hash[k]] < End(v, i)
    PROVE  k \in Span(t, v, i)
<1>1. t.size \in Sizes
  BY DEF Table
<1>2. PICK j \in 0 .. Bits : t.size = Pow2[j]
  BY <1>1, SizesArePowers
<1>3. hash[k] \in Word
  BY TableFacts, DictAssumption
<1>4. Rev[v % t.size] \in Nat /\ Rev[v] \in Nat /\ Rev[v % t.size] <= Rev[v]
  BY <1>2, EndIs
<1>5. Rev[hash[k]] \in Nat
  BY <1>2, <1>3, EndIs
<1>6. Rev[v % t.size] <= Rev[hash[k]]
  <2>1. PICK x, y, z : x = Rev[v % t.size] /\ y = Rev[v] /\ z = Rev[hash[k]]
    OBVIOUS
  <2>2. x \in Nat /\ y \in Nat /\ z \in Nat /\ x <= y /\ y <= z
    BY <1>4, <1>5, <2>1
  <2>3. x <= z
    BY ONLY <2>2
  <2> QED BY <2>1, <2>3
<1> QED BY <1>6 DEF Span

LEMMA ScanIs ==
    ASSUME TablesInv, NEW v \in Word
    PROVE  \E e : Visits(Scan(v), v, e)
<1>0. /\ Sound(d) /\ Elements(d) = keys /\ hash \in Hashes
      /\ d.ht0 \in Table /\ d.ht1 \in Table
  BY InvFacts
<1>1. CASE Elements(d) = {}
  <2>1. Scan(v) = [got |-> {}, v |-> 0]
    BY <1>1 DEF Scan
  <2>2. 0 \in Word /\ Pow2[Bits] \in Nat /\ Rev[v] \in Word
    BY RevZero, SizeFacts, RevIs
  <2>3. Rev[v] < Pow2[Bits]
    BY <2>2 DEF Word
  <2> QED BY <1>0, <1>1, <2>1, <2>2, <2>3 DEF Visits
<1>2. CASE Elements(d) # {} /\ ~ IsRehashing(d)
  <2>1. d.ht0.keys = keys
    BY <1>0, <1>2, TableFacts DEF Elements, Sound
  <2>2. d.ht0 # NoTable
    BY <1>0, <1>2, <2>1, TableFacts
  <2>3. d.ht0.size \in Sizes
    BY <1>0, <2>2 DEF Table
  <2>4. PICK b \in 0 .. Bits : d.ht0.size = Pow2[b]
    BY <2>3, SizesArePowers
  <2>5. PICK r : r = Scan(v)
    OBVIOUS
  <2>6. r.got = Bucket(d.ht0, v % d.ht0.size) /\ r.v = Advance(v, Pow2[b])
    BY <1>2, <2>4, <2>5 DEF Scan
  <2>7. r.got = Span(d.ht0, v, b)
    BY <1>0, <2>4, <2>6, BucketIs
  <2>8. ASSUME NEW k \in keys, Rev[v] <= Rev[hash[k]], Rev[hash[k]] < End(v, b)
        PROVE  k \in r.got
    BY <1>0, <2>1, <2>2, <2>7, <2>8, InSpan
  <2>9. /\ r.v \in Word
        /\ End(v, b) = Pow2[Bits] => r.v = 0
        /\ End(v, b) # Pow2[Bits] => Rev[r.v] = End(v, b)
    BY <2>6, AdvanceIs
  <2>10. End(v, b) \in Nat /\ Rev[v] < End(v, b) /\ End(v, b) <= Pow2[Bits]
    BY EndIs
  <2>11. Visits(r, v, End(v, b))
    BY <2>8, <2>9, <2>10 DEF Visits
  <2> QED BY <2>5, <2>11
<1>3. CASE Elements(d) # {} /\ IsRehashing(d)
  <2>1. d.ht0 # NoTable /\ d.ht1 # NoTable /\ d.ht0.size \in Nat /\ d.ht1.size \in Nat
    BY <1>0, <1>3, TableFacts DEF Sound
  <2>2. PICK small, large :
           /\ small = IF d.ht0.size > d.ht1.size THEN d.ht1 ELSE d.ht0
           /\ large = IF d.ht0.size > d.ht1.size THEN d.ht0 ELSE d.ht1
    OBVIOUS
  <2>3. /\ small \in Table /\ large \in Table /\ small # NoTable /\ large # NoTable
        /\ small.size <= large.size
        /\ small.keys \cup large.keys = keys
    BY <1>0, <2>1, <2>2 DEF Elements
  <2>4. PICK r : r = Scan(v)
    OBVIOUS
  <2>5. PICK x : x = Expansions(small, large, v)
    OBVIOUS
  <2>6. r = [got |-> Bucket(small, v % small.size) \cup x.got, v |-> x.v]
    BY <1>3, <2>2, <2>4, <2>5, Zenon DEF Scan
  <2>7. PICK i \in 0 .. Bits :
           /\ Bucket(small, v % small.size) = Span(small, v, i)
           /\ x = [got |-> Span(large, v, i), v |-> Advance(v, Pow2[i])]
    BY <1>0, <2>3, <2>5, PairScan
  <2>8. x.got = Span(large, v, i) /\ x.v = Advance(v, Pow2[i])
    BY <2>7
  <2>9. r.got = Span(small, v, i) \cup Span(large, v, i) /\ r.v = Advance(v, Pow2[i])
    BY <2>6, <2>7, <2>8
  <2>10. ASSUME NEW k \in keys, Rev[v] <= Rev[hash[k]], Rev[hash[k]] < End(v, i)
         PROVE  k \in r.got
    <3>1. CASE k \in small.keys
      BY <1>0, <2>3, <2>9, <2>10, <3>1, InSpan
    <3>2. CASE k \in large.keys
      BY <1>0, <2>3, <2>9, <2>10, <3>2, InSpan
    <3> QED BY <2>3, <3>1, <3>2
  <2>11. /\ r.v \in Word
         /\ End(v, i) = Pow2[Bits] => r.v = 0
         /\ End(v, i) # Pow2[Bits] => Rev[r.v] = End(v, i)
    BY <2>9, AdvanceIs
  <2>12. End(v, i) \in Nat /\ Rev[v] < End(v, i) /\ End(v, i) <= Pow2[Bits]
    BY EndIs
  <2>13. Visits(r, v, End(v, i))
    BY <2>10, <2>11, <2>12 DEF Visits
  <2> QED BY <2>4, <2>13
<1> QED BY <1>1, <1>2, <1>3

-----------------------------------------------------------------------------
(* The invariant of a scan.                                                *)

\* What a scan owes is ahead of its cursor, in the order of the reversed bits: that
\* order does not change with the tables.
ScanInv ==
    /\ scan.v \in Word
    /\ ~scan.on => scan.v = 0 /\ scan.owed = {}
    /\ \A k \in scan.owed : k \in keys /\ Rev[scan.v] <= Rev[hash[k]]

\* A cursor that is not 0 again goes forward.
Forward == scan.on /\ scan'.on /\ scan'.v # scan.v => Rev[scan'.v] > Rev[scan.v]

LEMMA ScanStepOwed ==
    ASSUME TablesInv, ScanInv, ScanStep
    PROVE  ScanInv' /\ Forward
<1>1. d' = d /\ hash' = hash /\ keys' = keys
  BY DEF ScanStep
<1>2. PICK v, o, r :
         /\ IF scan.on THEN v = scan.v /\ o = scan.owed ELSE v = 0 /\ o = keys
         /\ r = Scan(v)
         /\ scan' = [on |-> r.v # 0, v |-> r.v, owed |-> o \ r.got]
  BY ScanStepIs
<1>3. ASSUME NEW k \in keys PROVE hash[k] \in Word /\ Rev[hash[k]] \in Nat
  <2>1. k \in Key /\ hash \in Hashes
    BY InvFacts
  <2>2. hash[k] \in Word
    BY <2>1, DictAssumption
  <2>3. Rev[hash[k]] \in Word
    BY <2>2, RevIs
  <2> QED BY <2>2, <2>3 DEF Word
<1>4. v \in Word /\ \A k \in o : k \in keys /\ Rev[v] <= Rev[hash[k]]
  <2>1. CASE scan.on
    BY <1>2, <2>1 DEF ScanInv
  <2>2. CASE ~scan.on
    BY <1>2, <1>3, <2>2, RevZero
  <2> QED BY <2>1, <2>2
<1>5. PICK e : Visits(r, v, e)
  BY <1>2, <1>4, ScanIs
<1>6. scan'.v = r.v /\ scan'.owed = o \ r.got /\ (scan'.on <=> r.v # 0)
  BY <1>2
<1>7. Rev[v] \in Nat
  <2>1. Rev[v] \in Word
    BY <1>4, RevIs
  <2> QED BY <2>1 DEF Word
<1>8. r.v \in Word /\ e \in Nat /\ Rev[v] < e
  BY <1>5 DEF Visits
<1>9. ASSUME NEW k \in o \ r.got PROVE Rev[hash[k]] >= e
  <2>1. k \in keys /\ Rev[v] <= Rev[hash[k]] /\ Rev[hash[k]] \in Nat
    BY <1>3, <1>4
  <2>2. ~ (Rev[hash[k]] < e)
    BY <1>5, <2>1 DEF Visits
  <2> QED BY <1>8, <2>1, <2>2
<1>10. CASE e = Pow2[Bits]
  <2>1. r.v = 0
    BY <1>5, <1>10 DEF Visits
  <2>2. ASSUME NEW k \in o \ r.got PROVE FALSE
    <3>1. k \in keys
      BY <1>4
    <3>2. Rev[hash[k]] \in Word
      BY <1>3, <3>1, RevIs
    <3>3. Rev[hash[k]] < Pow2[Bits] /\ Rev[hash[k]] \in Nat
      BY <3>2, SizeFacts DEF Word
    <3>4. Rev[hash[k]] >= e
      BY <1>9
    <3> QED BY <1>8, <1>10, <3>3, <3>4
  <2>3. o \ r.got = {}
    BY <2>2
  <2> QED BY <1>6, <1>8, <2>1, <2>3 DEF ScanInv, Forward
<1>11. CASE e # Pow2[Bits]
  <2>1. Rev[r.v] = e
    BY <1>5, <1>11 DEF Visits
  <2>2. r.v # 0
    BY <1>7, <1>8, <2>1, RevZero
  <2>3. ASSUME NEW k \in o \ r.got PROVE k \in keys /\ Rev[r.v] <= Rev[hash[k]]
    <3>1. k \in keys /\ Rev[hash[k]] \in Nat /\ Rev[hash[k]] >= e
      BY <1>3, <1>4, <1>9
    <3> QED BY <1>8, <2>1, <3>1
  <2>4. scan'.on
    BY <1>6, <2>2
  <2>5. \A k \in scan'.owed : k \in keys' /\ Rev[scan'.v] <= Rev[hash'[k]]
    BY <1>1, <1>6, <2>3
  <2>6. ScanInv'
    BY <1>6, <1>8, <2>4, <2>5 DEF ScanInv
  <2>7. scan.on => Rev[scan'.v] > Rev[scan.v]
    BY <1>2, <1>6, <1>7, <1>8, <2>1
  <2> QED BY <2>6, <2>7 DEF Forward
<1> QED BY <1>10, <1>11

\* Every other step leaves the cursor alone, and what goes is no longer owed.
LEMMA OtherStepOwed ==
    ASSUME ScanInv, hash' = hash, scan'.v = scan.v, scan'.on = scan.on,
           scan'.owed \subseteq scan.owed,
           \A k \in scan'.owed : k \in keys => k \in keys'
    PROVE  ScanInv' /\ Forward
BY DEF ScanInv, Forward

LEMMA ScanNext ==
    ASSUME TablesInv, ScanInv, [Next]_vars
    PROVE  ScanInv' /\ Forward
<1>0. scan \in [on : BOOLEAN, v : {scan.v}, owed : SUBSET Key]
  BY InvFacts
<1>1. CASE \E k \in Key : Add(k)
  <2>1. PICK k \in Key : scan' = scan /\ hash' = hash /\ keys' = keys \cup {k}
    BY <1>1 DEF Add
  <2> QED BY <2>1, OtherStepOwed
<1>2. CASE \E k \in Key : Delete(k)
  <2>1. PICK k \in Key : /\ scan' = [scan EXCEPT !.owed = @ \ {k}]
                         /\ hash' = hash /\ keys' = keys \ {k}
    BY <1>2 DEF Delete, Forget
  <2>2. scan'.v = scan.v /\ scan'.on = scan.on /\ scan'.owed = scan.owed \ {k}
    BY <1>0, <2>1
  <2> QED BY <2>1, <2>2, OtherStepOwed
<1>3. CASE Clear
  <2>1. hash' = hash /\ scan' = [scan EXCEPT !.owed = {}]
    BY <1>3 DEF Clear
  <2>2. scan'.v = scan.v /\ scan'.on = scan.on /\ scan'.owed = {}
    BY <1>0, <2>1
  <2> QED BY <2>1, <2>2, OtherStepOwed
<1>4. CASE ScanStep
  BY <1>4, ScanStepOwed
<1>5. CASE \/ Find \/ CronResize \/ CronRehash \/ ResizePolicy \/ IterBegin \/ IterNext
           \/ IterEnd \/ UNCHANGED vars
  <2>1. scan' = scan /\ hash' = hash /\ keys' = keys
    <3>1. CASE Find
      BY <3>1 DEF Find
    <3>2. CASE CronResize
      BY <3>2 DEF CronResize
    <3>3. CASE CronRehash
      BY <3>3 DEF CronRehash
    <3>4. CASE ResizePolicy
      BY <3>4 DEF ResizePolicy
    <3>5. CASE IterBegin
      BY <3>5 DEF IterBegin
    <3>6. CASE IterNext
      BY <3>6 DEF IterNext
    <3>7. CASE IterEnd
      BY <3>7 DEF IterEnd
    <3>8. CASE UNCHANGED vars
      BY <3>8 DEF vars
    <3> QED BY <1>5, <3>1, <3>2, <3>3, <3>4, <3>5, <3>6, <3>7, <3>8
  <2> QED BY <2>1, OtherStepOwed
<1> QED BY <1>1, <1>2, <1>3, <1>4, <1>5 DEF Next

LEMMA ScanInit == Init => ScanInv
<1> SUFFICES ASSUME Init PROVE ScanInv
  OBVIOUS
<1>1. scan.v = 0 /\ scan.owed = {}
  BY DEF Init, NoScan
<1> QED BY <1>1, RevZero DEF ScanInv

\* A SCAN that came to its end has returned every key that was there from its first
\* call to its last, whatever grew, shrank or was half moved in between; its cursor
\* stays a word.
THEOREM ScanReturnsAll == Spec => []ScanComplete
<1>1. Init => DictInv /\ ScanInv
  BY InitInv, ScanInit
<1>2. DictInv /\ ScanInv /\ [Next]_vars => DictInv' /\ ScanInv'
  BY StepInv, ScanNext DEF DictInv
<1>3. ScanInv => ScanComplete
  BY DEF ScanInv, ScanComplete
<1> QED BY <1>1, <1>2, <1>3, PTL DEF Spec

\* The cursor of a scan only moves forward in the order of the reversed bits, when
\* tables change under it too.
THEOREM ScanMovesForward == Spec => ScanForward
<1>1. Init => DictInv /\ ScanInv
  BY InitInv, ScanInit
<1>2. DictInv /\ ScanInv /\ [Next]_vars => DictInv' /\ ScanInv'
  BY StepInv, ScanNext DEF DictInv
<1>3. DictInv /\ ScanInv /\ [Next]_vars
        => [scan.on /\ scan'.on /\ scan'.v # scan.v => Rev[scan'.v] > Rev[scan.v]]_vars
  BY ScanNext DEF DictInv, Forward
<1> QED BY <1>1, <1>2, <1>3, PTL DEF Spec, ScanForward
=============================================================================
