-------------------------- MODULE BlockCacheProofs --------------------------
(***************************************************************************)
(* Machine-checked proofs about BlockCache, for every number of threads,   *)
(* readers, shards and slots, every capacity and every hash: a cache never *)
(* outgrows its capacity nor keeps a block twice (WithinCapacity), and     *)
(* every read gives the bytes of its own table (ReadsItsOwnTable).         *)
(*                                                                         *)
(* The argument: a cache's place and a key inside the range of one of its  *)
(* readers name one block of one table, of whatever reader was ever opened *)
(* (Owners); so an entry or a slot stored under such a name can be trusted *)
(* by whoever finds it (Names), and a thread that has a block in hand has  *)
(* the one its read is at (Calls).                                         *)
(***************************************************************************)
EXTENDS BlockCache, TLAPS, FiniteSetTheorems

Data == [table : Tables, number : Nat]
Byte == [of : Data, at : Nat]
CacheType == [cap : Nat \ {0},
              shards : UNION {[0 .. n - 1 -> Seq(Entry)] : n \in 1 .. MaxShards}]

SlotType == [cache : Nat, key : Nat, data : Data \cup {None}]
ReaderType == [table : Tables, cache : Nat \ {0}, id : Nat, key : Nat, open : BOOLEAN]

Typed ==
  /\ readers \in Seq(ReaderType)
  /\ caches \in Seq(CacheType)
  /\ nextKey \in Nat
  /\ local \in [Threads -> [BOOLEAN -> [0 .. LocalBlocks - 1 -> SlotType]]]
  /\ pc \in [Threads -> {"idle", "slot", "find", "fill", "insert", "copy"}]
  /\ job \in [Threads -> [kind : {"byte", "range"}, reader : Nat, first : Nat, end : Nat]]
  /\ block \in [Threads -> Data \cup {None}]
  /\ out \in [Threads -> Seq(Byte)]
  /\ raised \in [Threads -> BOOLEAN]
  /\ reads \in 0 .. MaxReads

\* Readers of one cache share it and have ranges of keys apart.
Owners ==
  /\ Len(caches) >= 1
  /\ \A n \in DOMAIN readers :
       /\ readers[n].cache \in DOMAIN caches
       /\ readers[n].id = readers[n].cache
       /\ readers[n].cache = 1 => MayShare(readers[n].table) /\ readers[n].key + KeyRange <= nextKey
       /\ readers[n].cache # 1 => readers[n].key = 0
  /\ \A m, n \in DOMAIN readers :
       m # n /\ readers[m].cache = readers[n].cache =>
         /\ readers[n].cache = 1
         /\ \/ readers[m].key + KeyRange <= readers[n].key
            \/ readers[n].key + KeyRange <= readers[m].key

\* A key reader n may look for, and the block it looks for under it.
MayAsk(n, key) ==
  /\ readers[n].key <= key
  /\ readers[n].cache = 1 => key < readers[n].key + KeyRange
BlockAt(n, key) == [table |-> readers[n].table, number |-> key - readers[n].key]

\* The data is what every reader of the cache means by the key.
Names(cache, key, data) ==
  /\ cache = 1 => key < nextKey
  /\ \A n \in DOMAIN readers :
       readers[n].cache = cache /\ MayAsk(n, key) => data = BlockAt(n, key)

Distinct(lru) == \A i, j \in DOMAIN lru : lru[i].index = lru[j].index => i = j

\* A shard may have become this list: within its share, no key twice, all rightly named.
Right(lru, c, s) ==
  /\ lru \in Seq(Entry)
  /\ Len(lru) <= ShardCap(caches[c].cap, s)
  /\ Distinct(lru)
  /\ \A i \in DOMAIN lru : Names(c, lru[i].index, lru[i].data)

Shards ==
  \A c \in DOMAIN caches :
    /\ DOMAIN caches[c].shards = 0 .. ShardCount(caches[c].cap) - 1
    /\ \A s \in DOMAIN caches[c].shards : Right(caches[c].shards[s], c, s)

SlotRight(slot) ==
  slot.cache # 0 => slot.cache <= Len(caches) /\ Names(slot.cache, slot.key, slot.data)
Slots ==
  \A t \in Threads, bank \in BOOLEAN, s \in 0 .. LocalBlocks - 1 : SlotRight(local[t][bank][s])

\* A read is of an open reader, inside its table and not at its end yet.
CallOf(t) ==
  /\ job[t].reader # 0 =>
       /\ job[t].reader \in DOMAIN readers
       /\ job[t].first < job[t].end /\ job[t].end <= Table(t).bytes
  /\ job[t].kind = "byte" /\ job[t].reader # 0 => job[t].end = job[t].first + 1
  /\ pc[t] # "idle" =>
       /\ job[t].reader # 0 /\ Reader(t).open
       /\ ~ raised[t]
       /\ At(t) < job[t].end
  /\ pc[t] = "slot" => job[t].kind = "byte"
  /\ pc[t] \in {"insert", "copy"} => block[t] = [table |-> Table(t), number |-> BlockNo(t)]
Calls == \A t \in Threads : CallOf(t)

IInv == Typed /\ Owners /\ Shards /\ Slots /\ Calls /\ ReadsItsOwnTable

\* ReadsItsOwnTable, thread by thread.
ReadRight(t) ==
  job[t].reader # 0 =>
    LET n == job[t].reader
    IN  /\ \A i \in 1 .. Len(out[t]) :
             out[t][i] = [of |-> Holds(n, At(t) - Len(out[t]) + i - 1),
                          at |-> (job[t].first + i - 1) % Table(t).block]
        /\ raised[t] => BlockNo(t) \in Table(t).bad
        /\ pc[t] = "idle" /\ ~ raised[t] => Len(out[t]) = job[t].end - job[t].first
-----------------------------------------------------------------------------
\* Division of naturals, by its two defining facts.

\* Dividing leaves a remainder below the divisor.
LEMMA DivMod ==
  ASSUME NEW a \in Nat, NEW b \in Nat \ {0}
  PROVE  a \div b \in Nat /\ a % b \in Nat /\ a % b < b /\ a = b * (a \div b) + (a % b)
  OBVIOUS

\* Quotient and remainder are the only such pair.
LEMMA DivModUnique ==
  ASSUME NEW a \in Nat, NEW b \in Nat \ {0}, NEW q \in Nat, NEW r \in Nat, r < b, a = b * q + r
  PROVE  a \div b = q /\ a % b = r
  OBVIOUS

\* Going on inside a block leaves the block number and moves the offset.
LEMMA DivModNext ==
  ASSUME NEW a \in Nat, NEW b \in Nat \ {0}, NEW i \in Nat, (a % b) + i < b
  PROVE  (a + i) \div b = a \div b /\ (a + i) % b = (a % b) + i
  <1> DEFINE q == a \div b
             r == a % b
  <1>1. q \in Nat /\ r \in Nat /\ r + i < b /\ a = b * q + r
    BY DivMod
  <1> HIDE DEF q, r
  <1>2. a + i = b * q + (r + i) /\ r + i \in Nat /\ a + i \in Nat
    BY <1>1
  <1>3. (a + i) \div b = q /\ (a + i) % b = r + i
    BY <1>1, <1>2, DivModUnique
  <1> QED BY <1>3 DEF q, r

\* Below a product of the divisor the quotient is below the other factor.
LEMMA DivBelow ==
  ASSUME NEW a \in Nat, NEW b \in Nat \ {0}, NEW n \in Nat, a < b * n
  PROVE  a \div b < n
  <1> DEFINE q == a \div b
             r == a % b
  <1>1. q \in Nat /\ r \in Nat /\ a = b * q + r
    BY DivMod
  <1> HIDE DEF q, r
  <1>2. b * q < b * n
    <2>1. b * q \in Nat /\ b * n \in Nat
      BY <1>1
    <2> QED BY <1>1, <2>1
  <1>3. ~ (q >= n)
    BY <1>1, <1>2
  <1> QED BY <1>1, <1>3 DEF q

\* A mixed key scales to a place below n: shards and slots exist.
LEMMA ScaledBelow ==
  ASSUME NEW key \in Nat, NEW n \in Nat \ {0}
  PROVE  Scaled(Mix(key), n) \in 0 .. n - 1
  <1> DEFINE k == key * Golden
             m == k % MixRange
             p == m * n
  <1>1. k \in Nat /\ MixRange \in Nat \ {0}
    BY CacheAssumption
  <1>2. m \in Nat /\ m < MixRange
    <2> HIDE DEF k
    <2> QED BY <1>1, DivMod
  <1>3. p \in Nat /\ p < MixRange * n
    <2> HIDE DEF m
    <2> QED BY <1>1, <1>2
  <1>4. p \div MixRange \in Nat /\ p \div MixRange < n
    <2> HIDE DEF p
    <2> QED BY <1>1, <1>3, DivMod, DivBelow
  <1> QED BY <1>4 DEF Scaled, Mix

-----------------------------------------------------------------------------
\* Sizes.

\* A cache has at least one shard and no more than it has blocks.
LEMMA ShardCountBounds ==
  ASSUME NEW cap \in Nat \ {0}
  PROVE  ShardCount(cap) \in 1 .. MaxShards /\ ShardCount(cap) <= cap /\ ShardCount(cap) \in Nat \ {0}
  BY CacheAssumption DEF ShardCount, Smaller

\* Every shard may hold a block, so making room in a full shard is enough.
LEMMA ShardCapPositive ==
  ASSUME NEW cap \in Nat \ {0}, NEW s \in Nat
  PROVE  ShardCap(cap, s) \in Nat \ {0}
  <1> DEFINE n == ShardCount(cap)
             q == cap \div n
             r == cap % n
  <1>1. n \in Nat \ {0} /\ n <= cap
    BY ShardCountBounds
  <1>2. q \in Nat /\ r \in Nat /\ r < n /\ cap = n * q + r
    <2> HIDE DEF n
    <2> QED BY <1>1, DivMod
  <1> HIDE DEF n, q, r
  <1>3. q # 0
    <2> SUFFICES ASSUME q = 0 PROVE FALSE
      OBVIOUS
    <2>1. n * q = 0
      BY <1>1
    <2> QED BY <1>1, <1>2, <2>1
  <1> QED BY <1>2, <1>3 DEF ShardCap, n, q, r

\* A reader's own cache has room for a block.
LEMMA OwnBlocksPositive ==
  ASSUME NEW table \in Tables
  PROVE  OwnBlocks(table) \in Nat \ {0}
  <1> DEFINE m == Smaller(CacheBytes, table.bytes)
  <1>1. m \in Nat /\ table.block \in Nat \ {0}
    BY CacheAssumption DEF Smaller
  <1>2. m \div table.block \in Nat
    <2> HIDE DEF m
    <2> QED BY <1>1, DivMod
  <1> QED BY <1>2 DEF OwnBlocks, Larger

\* A new cache is well typed, has its shards and nothing in them.
LEMMA NewCacheRight ==
  ASSUME NEW cap \in Nat \ {0}
  PROVE  /\ NewCache(cap) \in CacheType
         /\ NewCache(cap).cap = cap
         /\ DOMAIN NewCache(cap).shards = 0 .. ShardCount(cap) - 1
         /\ \A s \in 0 .. ShardCount(cap) - 1 : NewCache(cap).shards[s] = <<>>
  <1>1. ShardCount(cap) \in 1 .. MaxShards
    BY ShardCountBounds
  <1>2. [s \in 0 .. ShardCount(cap) - 1 |-> <<>>] \in [0 .. ShardCount(cap) - 1 -> Seq(Entry)]
    OBVIOUS
  <1>3. NewCache(cap).shards \in UNION {[0 .. n - 1 -> Seq(Entry)] : n \in 1 .. MaxShards}
    BY <1>1, <1>2 DEF NewCache
  <1> QED BY <1>3 DEF NewCache, CacheType

\* The share of shard s, and the shares of the shards before it.
Share(q, r, s) == q + (IF s < r THEN 1 ELSE 0)
Start(q, r, s) == s * q + Smaller(s, r)

\* A shard's blocks end where the next shard's begin.
LEMMA StartsApart ==
  ASSUME NEW q \in Nat, NEW r \in Nat, NEW s \in Nat, NEW t \in Nat, s < t
  PROVE  /\ Start(q, r, s) \in Nat
         /\ Share(q, r, s) \in Nat
         /\ Start(q, r, s) + Share(q, r, s) <= Start(q, r, t)
  <1>1. PICK d \in Nat : t = s + 1 + d
    <2>1. t - s - 1 \in Nat /\ t = s + 1 + (t - s - 1)
      OBVIOUS
    <2> QED BY <2>1
  <1>2. t * q = s * q + q + d * q
    BY <1>1
  <1>3. s * q \in Nat /\ t * q \in Nat /\ d * q \in Nat
    OBVIOUS
  <1> QED BY <1>2, <1>3 DEF Start, Share, Smaller

\* block_cache.cpp:21: shards that each keep to their share keep to the cache's capacity.
LEMMA SharesAddUp ==
  ASSUME NEW cache, cache.cap \in Nat \ {0},
         DOMAIN cache.shards = 0 .. ShardCount(cache.cap) - 1,
         \A s \in DOMAIN cache.shards :
           cache.shards[s] \in Seq(Entry) /\ Len(cache.shards[s]) <= ShardCap(cache.cap, s)
  PROVE  Cardinality(EntriesOf(cache)) <= cache.cap
  <1> DEFINE cap == cache.cap
             n == ShardCount(cap)
             q == cap \div n
             r == cap % n
             E == EntriesOf(cache)
             f == [e \in E |-> Start(q, r, e[1]) + e[2]]
  <1>1. n \in Nat \ {0}
    BY ShardCountBounds
  <1>2. q \in Nat /\ r \in Nat /\ r < n /\ cap = n * q + r
    <2> HIDE DEF n
    <2> QED BY <1>1, DivMod
  <1>3. \A e \in E : /\ e = <<e[1], e[2]>>
                     /\ e[1] \in Nat /\ e[1] < n
                     /\ e[2] \in Nat /\ 1 <= e[2]
                     /\ e[2] <= Share(q, r, e[1])
    <2>1. \A s : ShardCap(cap, s) = Share(q, r, s)
      BY DEF ShardCap, Share
    <2>2. SUFFICES ASSUME NEW e \in E
                   PROVE  /\ e = <<e[1], e[2]>>
                          /\ e[1] \in Nat /\ e[1] < n
                          /\ e[2] \in Nat /\ 1 <= e[2]
                          /\ e[2] <= Share(q, r, e[1])
      OBVIOUS
    <2>3. e \in (DOMAIN cache.shards) \X (1 .. cap + 1) /\ e[2] \in DOMAIN cache.shards[e[1]]
      BY DEF EntriesOf
    <2> HIDE DEF E, n, q, r
    <2>4. e = <<e[1], e[2]>> /\ e[1] \in DOMAIN cache.shards /\ e[2] \in 1 .. cap + 1
      BY <2>3
    <2>5. e[1] \in 0 .. n - 1
      BY <2>4 DEF n
    <2>6. e[2] <= ShardCap(cap, e[1])
      <3>1. /\ cache.shards[e[1]] \in Seq(Entry)
            /\ Len(cache.shards[e[1]]) <= ShardCap(cap, e[1])
        BY <2>4
      <3>2. e[2] <= Len(cache.shards[e[1]]) /\ Len(cache.shards[e[1]]) \in Nat
        BY <2>3, <3>1
      <3>3. ShardCap(cap, e[1]) \in Nat
        <4>1. e[1] \in Nat /\ cap \in Nat \ {0}
          BY <1>1, <2>5
        <4> QED BY <4>1, ShardCapPositive
      <3> QED BY <2>4, <3>1, <3>2, <3>3
    <2> QED BY <1>1, <2>1, <2>4, <2>5, <2>6
  <1>4. Start(q, r, n) = cap
    BY <1>1, <1>2 DEF Start, Smaller
  <1> HIDE DEF n, q, r, E, f, cap
  <1>5. \A e \in E : f[e] \in 1 .. cap
    <2> SUFFICES ASSUME NEW e \in E PROVE f[e] \in 1 .. cap
      OBVIOUS
    <2>1. f[e] = Start(q, r, e[1]) + e[2]
      BY DEF f
    <2>2. e[1] \in Nat /\ n \in Nat /\ e[1] < n
      BY <1>1, <1>3
    <2>3. /\ Start(q, r, e[1]) \in Nat
          /\ Start(q, r, e[1]) + Share(q, r, e[1]) <= Start(q, r, n)
      BY <1>2, <2>2, StartsApart
    <2>4. Share(q, r, e[1]) \in Nat
      BY <1>2, <2>2, StartsApart
    <2> QED BY <1>2, <1>3, <1>4, <2>1, <2>3, <2>4 DEF cap
  <1>6. ASSUME NEW d \in E, NEW e \in E, d[1] < e[1]
        PROVE  f[d] < f[e]
    <2>1. f[d] = Start(q, r, d[1]) + d[2] /\ f[e] = Start(q, r, e[1]) + e[2]
      BY DEF f
    <2>2. d[1] \in Nat /\ e[1] \in Nat
      BY <1>3
    <2>3. /\ Start(q, r, d[1]) \in Nat /\ Start(q, r, e[1]) \in Nat
          /\ Start(q, r, d[1]) + Share(q, r, d[1]) <= Start(q, r, e[1])
          /\ Share(q, r, d[1]) \in Nat
      <3>1. n \in Nat /\ e[1] < n
        BY <1>1, <1>3
      <3> QED BY <1>2, <1>6, <2>2, <3>1, StartsApart
    <2> QED BY <1>2, <1>3, <2>1, <2>3
  <1>7. \A d, e \in E : f[d] = f[e] => d = e
    <2> SUFFICES ASSUME NEW d \in E, NEW e \in E, f[d] = f[e] PROVE d = e
      OBVIOUS
    <2>1. f[d] \in Nat /\ f[e] \in Nat
      BY <1>5 DEF cap
    <2>2. ~ (d[1] < e[1]) /\ ~ (e[1] < d[1])
      BY <1>6, <2>1
    <2>3. d[1] = e[1]
      BY <1>1, <1>3, <2>2
    <2>4. Start(q, r, d[1]) \in Nat
      <3>1. d[1] \in Nat /\ n \in Nat /\ d[1] < n
        BY <1>1, <1>3
      <3> QED BY <1>2, <3>1, StartsApart
    <2>5. d[2] = e[2]
      BY <1>3, <2>3, <2>4 DEF f
    <2> QED BY <1>3, <2>3, <2>5
  <1>8. f \in Injection(E, 1 .. cap)
    <2>1. f \in [E -> 1 .. cap]
      BY <1>5 DEF f
    <2> QED BY <1>7, <2>1 DEF Injection, IsInjective
  <1>9. IsFiniteSet(1 .. cap) /\ Cardinality(1 .. cap) = cap
    BY FS_Interval DEF cap
  <1> QED BY <1>8, <1>9, FS_Injection DEF E, cap

-----------------------------------------------------------------------------
\* The lists of a shard.

\* The entry found under a key is one of the list's.
LEMMA PlaceFound ==
  ASSUME NEW lru, NEW key, Has(lru, key)
  PROVE  /\ Place(lru, key) \in DOMAIN lru
         /\ lru[Place(lru, key)].index = key
  BY DEF Has, Place

\* Moving an entry to the front leaves a right list right.
LEMMA ToFrontRight ==
  ASSUME NEW lru, NEW key, NEW c, NEW s, Right(lru, c, s), Has(lru, key)
  PROVE  Right(ToFront(lru, key), c, s)
  <1> DEFINE p == Place(lru, key)
             new == ToFront(lru, key)
             from == [i \in 1 .. Len(lru) |-> CameFrom(p, i)]
  <1>1. lru \in Seq(Entry) /\ Len(lru) \in Nat /\ DOMAIN lru = 1 .. Len(lru)
    BY DEF Right
  <1>2. p \in 1 .. Len(lru)
    BY <1>1, PlaceFound
  <1> HIDE DEF p
  <1>3. \A i \in 1 .. Len(lru) : from[i] \in 1 .. Len(lru) /\ new[i] = lru[from[i]]
    BY <1>1, <1>2 DEF ToFront, CameFrom, p
  <1>4. \A i, j \in 1 .. Len(lru) : from[i] = from[j] => i = j
    BY <1>1, <1>2 DEF CameFrom
  <1>5. DOMAIN new = 1 .. Len(lru)
    BY <1>1 DEF ToFront
  <1> HIDE DEF new, from
  <1>6. \A i \in 1 .. Len(lru) : lru[i] \in Entry
    BY <1>1
  <1>7. new \in Seq(Entry) /\ Len(new) = Len(lru)
    <2>1. new = [i \in 1 .. Len(lru) |-> new[i]]
      BY <1>1 DEF new, ToFront
    <2>2. new \in [1 .. Len(lru) -> Entry]
      BY <1>3, <1>5, <1>6, <2>1
    <2> QED BY <1>1, <2>2
  <1>8. Distinct(new)
    BY <1>1, <1>3, <1>4, <1>5 DEF Right, Distinct
  <1> QED BY <1>1, <1>3, <1>5, <1>7, <1>8 DEF Right, new

\* A new block at the front, the last one gone if the shard was full: still right.
LEMMA PutRight ==
  ASSUME NEW lru, NEW c, NEW s, NEW e \in Entry, Right(lru, c, s),
         ~ Has(lru, e.index), Names(c, e.index, e.data),
         ShardCap(caches[c].cap, s) \in Nat \ {0}
  PROVE  Right(<<e>> \o MakeRoom(lru, ShardCap(caches[c].cap, s)), c, s)
  <1> DEFINE cap == ShardCap(caches[c].cap, s)
             kept == MakeRoom(lru, cap)
             new == <<e>> \o kept
  <1>1. lru \in Seq(Entry) /\ Len(lru) \in Nat /\ DOMAIN lru = 1 .. Len(lru)
        /\ Len(lru) <= cap /\ cap \in Nat \ {0}
    BY DEF Right
  <1> HIDE DEF cap
  <1>2. /\ kept \in Seq(Entry) /\ Len(kept) \in Nat /\ Len(kept) <= Len(lru) /\ Len(kept) < cap
        /\ \A i \in 1 .. Len(kept) : kept[i] = lru[i]
    <2>1. CASE Len(lru) >= cap
      <3>1. Len(lru) - 1 \in Nat /\ kept = SubSeq(lru, 1, Len(lru) - 1)
        BY <1>1, <2>1 DEF MakeRoom, cap
      <3>2. Len(kept) = Len(lru) - 1 /\ kept \in Seq(Entry)
        BY <1>1, <3>1
      <3>3. \A i \in 1 .. Len(kept) : kept[i] = lru[i]
        <4> DEFINE m == Len(lru) - 1
        <4>1. m \in Nat /\ Len(kept) = m /\ kept = SubSeq(lru, 1, m)
          BY <3>1, <3>2
        <4> HIDE DEF m
        <4>2. \A i \in 1 .. m : SubSeq(lru, 1, m)[i] = lru[i]
          BY <1>1, <4>1
        <4> QED BY <4>1, <4>2
      <3> QED BY <1>1, <3>1, <3>2, <3>3
    <2>2. CASE ~ (Len(lru) >= cap)
      <3>1. kept = lru
        BY <2>2 DEF MakeRoom
      <3> QED BY <1>1, <2>2, <3>1 DEF cap
    <2> QED BY <2>1, <2>2
  <1> HIDE DEF kept
  <1>3. /\ new \in Seq(Entry) /\ Len(new) = Len(kept) + 1
        /\ DOMAIN new = 1 .. Len(kept) + 1
        /\ new[1] = e
        /\ \A i \in 2 .. Len(new) : i - 1 \in DOMAIN lru /\ new[i] = lru[i - 1]
    <2>1. /\ new \in Seq(Entry) /\ Len(new) = Len(kept) + 1
          /\ DOMAIN new = 1 .. Len(kept) + 1
          /\ new[1] = e
      BY <1>2
    <2>2. \A i \in 2 .. Len(new) : new[i] = kept[i - 1]
      BY <1>2, <2>1
    <2>3. \A i \in 2 .. Len(new) : i - 1 \in 1 .. Len(kept) /\ i - 1 \in DOMAIN lru
      BY <1>1, <1>2, <2>1
    <2> QED BY <1>2, <2>1, <2>2, <2>3
  <1> HIDE DEF new
  <1>4. Distinct(new)
    <2>1. \A i \in 2 .. Len(new) : new[i].index # e.index
      BY <1>3 DEF Has
    <2>2. SUFFICES ASSUME NEW i \in 1 .. Len(new), NEW j \in 1 .. Len(new), new[i].index = new[j].index
                   PROVE  i = j
      BY <1>3 DEF Distinct
    <2>3. CASE i = 1
      BY <1>2, <1>3, <2>1, <2>2, <2>3
    <2>4. CASE j = 1
      BY <1>2, <1>3, <2>1, <2>2, <2>4
    <2>5. CASE i # 1 /\ j # 1
      <3>1. /\ new[i] = lru[i - 1] /\ i - 1 \in DOMAIN lru
            /\ new[j] = lru[j - 1] /\ j - 1 \in DOMAIN lru
        BY <1>2, <1>3, <2>5
      <3> QED BY <2>2, <3>1 DEF Right, Distinct
    <2> QED BY <2>3, <2>4, <2>5
  <1>5. \A i \in DOMAIN new : Names(c, new[i].index, new[i].data)
    <2> SUFFICES ASSUME NEW i \in DOMAIN new PROVE Names(c, new[i].index, new[i].data)
      OBVIOUS
    <2>1. CASE i = 1
      BY <1>3, <2>1
    <2>2. CASE i # 1
      <3>1. new[i] = lru[i - 1] /\ i - 1 \in DOMAIN lru
        BY <1>2, <1>3, <2>2
      <3> QED BY <3>1 DEF Right
    <2> QED BY <2>1, <2>2
  <1> QED BY <1>1, <1>2, <1>3, <1>4, <1>5 DEF Right, cap, kept, new

-----------------------------------------------------------------------------
\* A call under way.

\* The block thread t is about.
Sought(t) == [table |-> Table(t), number |-> BlockNo(t)]

\* What a call under way is about: a block of the reader's table, under a key the reader may ask for.
LEMMA CallFacts ==
  ASSUME Typed, Owners, NEW t \in Threads, CallOf(t), pc[t] # "idle"
  PROVE  /\ job[t].reader \in DOMAIN readers
         /\ Table(t) \in Tables
         /\ Table(t).block \in Nat \ {0} /\ Table(t).bytes \in Nat
         /\ At(t) \in Nat /\ At(t) < job[t].end /\ job[t].end \in Nat /\ At(t) < Table(t).bytes
         /\ BlockNo(t) \in Nat
         /\ Sought(t) \in Data
         /\ Key(t) \in Nat
         /\ Reader(t).cache \in DOMAIN caches /\ Reader(t).id = Reader(t).cache
         /\ MayAsk(job[t].reader, Key(t))
         /\ BlockAt(job[t].reader, Key(t)) = Sought(t)
  <1> DEFINE n == job[t].reader
  <1>1. n \in DOMAIN readers
    BY DEF CallOf
  <1>2. /\ readers[n].table \in Tables /\ readers[n].cache \in Nat \ {0}
        /\ readers[n].id \in Nat /\ readers[n].key \in Nat
    <2>1. readers \in Seq(ReaderType)
      BY DEF Typed
    <2>2. readers[n] \in ReaderType
      BY <1>1, <2>1
    <2> QED BY <2>2 DEF ReaderType
  <1>3. readers[n].table.block \in Nat \ {0} /\ readers[n].table.bytes \in Nat
    BY <1>2, CacheAssumption
  <1>4. Len(out[t]) \in Nat /\ job[t].first \in Nat /\ job[t].end \in Nat
    BY DEF Typed
  <1>5. At(t) \in Nat /\ At(t) < job[t].end /\ At(t) < readers[n].table.bytes
    BY <1>1, <1>3, <1>4 DEF CallOf, At, Table, Reader
  <1>6. At(t) \div readers[n].table.block \in Nat
    BY <1>3, <1>5, DivMod
  <1>7. readers[n].cache = 1 => At(t) \div readers[n].table.block < KeyRange
    <2> SUFFICES ASSUME readers[n].cache = 1
                 PROVE  At(t) \div readers[n].table.block < KeyRange
      OBVIOUS
    <2> DEFINE b == readers[n].table.block
               k == KeyRange - 1
    <2>1. MayShare(readers[n].table)
      BY <1>1 DEF Owners
    <2>2. k \in Nat /\ b \in Nat \ {0}
      BY <1>3, CacheAssumption
    <2>3. At(t) < b * k
      <3>1. readers[n].table.bytes <= k * b
        BY <2>1 DEF MayShare
      <3> HIDE DEF k, b
      <3>2. k * b = b * k /\ b * k \in Nat
        BY <2>2
      <3> QED BY <1>3, <1>5, <3>1, <3>2
    <2> HIDE DEF b, k
    <2>4. At(t) \div b < k
      BY <1>5, <2>2, <2>3, DivBelow
    <2> QED BY <1>6, <2>4, CacheAssumption DEF b, k
  <1>8. Table(t) = readers[n].table /\ BlockNo(t) = At(t) \div readers[n].table.block
        /\ Key(t) = readers[n].key + BlockNo(t) /\ Reader(t) = readers[n]
    BY DEF Table, Reader, BlockNo, Key
  <1>9. readers[n].cache \in DOMAIN caches /\ readers[n].id = readers[n].cache
    BY <1>1 DEF Owners
  <1> DEFINE no == At(t) \div readers[n].table.block
  <1>10. no \in Nat /\ (readers[n].cache = 1 => no < KeyRange) /\ BlockNo(t) = no
    BY <1>6, <1>7, <1>8
  <1> HIDE DEF no, n
  <1>11. Key(t) \in Nat /\ MayAsk(n, Key(t)) /\ Key(t) - readers[n].key = no
    BY <1>2, <1>8, <1>10, CacheAssumption DEF MayAsk
  <1>12. BlockAt(n, Key(t)) = Sought(t)
    BY <1>8, <1>10, <1>11 DEF BlockAt, Sought
  <1>13. Sought(t) \in Data
    BY <1>2, <1>8, <1>10 DEF Sought, Data
  <1> QED BY <1>1, <1>2, <1>3, <1>4, <1>5, <1>8, <1>9, <1>10, <1>11, <1>12, <1>13 DEF n

\* The bytes taken from the right block are the table's, up to the block's or the read's end.
LEMMA WantedRight ==
  ASSUME Typed, Owners, NEW t \in Threads, CallOf(t), pc[t] # "idle"
  PROVE  LET w == Wanted(t, Sought(t))
         IN  /\ w \in Seq(Byte)
             /\ Len(w) \in Nat \ {0}
             /\ At(t) + Len(w) <= job[t].end
             /\ \A i \in 1 .. Len(w) :
                  w[i] = [of |-> Holds(job[t].reader, At(t) + i - 1),
                          at |-> (At(t) + i - 1) % Table(t).block]
  <1> DEFINE a == At(t)
             b == Table(t).block
             o == a % b
             left == Smaller(job[t].end - a, b - o)
             w == [i \in 1 .. left |-> [of |-> Sought(t), at |-> o + i - 1]]
  <1>1. a \in Nat /\ b \in Nat \ {0} /\ a < job[t].end /\ job[t].end \in Nat /\ Sought(t) \in Data
    BY CallFacts
  <1>2. o \in Nat /\ o < b
    <2> HIDE DEF a, b
    <2> QED BY <1>1, DivMod
  <1>3. Wanted(t, Sought(t)) = w
    BY DEF Wanted
  <1>4. BlockNo(t) = a \div b /\ Table(t) = readers[job[t].reader].table
    BY DEF BlockNo, Table, Reader
  <1> HIDE DEF a, b, o
  <1>5. left \in Nat \ {0} /\ left <= job[t].end - a /\ left <= b - o
    BY <1>1, <1>2 DEF Smaller
  <1> HIDE DEF left
  <1>6. \A i \in 1 .. left : [of |-> Sought(t), at |-> o + i - 1] \in Byte
    BY <1>1, <1>2, <1>5 DEF Byte
  <1>7. w \in Seq(Byte) /\ Len(w) = left
    BY <1>5, <1>6
  <1>8. ASSUME NEW i \in 1 .. left
        PROVE  /\ Sought(t) = Holds(job[t].reader, a + i - 1)
               /\ o + i - 1 = (a + i - 1) % b
    <2> DEFINE j == i - 1
    <2>1. j \in Nat /\ o + j < b /\ a + i - 1 = a + j /\ o + i - 1 = o + j
      BY <1>1, <1>2, <1>5
    <2> HIDE DEF j
    <2>2. (a + j) \div b = a \div b /\ (a + j) % b = o + j
      BY <1>1, <2>1, DivModNext DEF o
    <2>3. Sought(t) = Holds(job[t].reader, a + j)
      BY <1>4, <2>2 DEF Sought, Holds, b
    <2> QED BY <2>1, <2>2, <2>3
  <1>9. \A i \in 1 .. left : w[i] = [of |-> Holds(job[t].reader, a + i - 1), at |-> (a + i - 1) % b]
    BY <1>8
  <1>10. a + left <= job[t].end
    BY <1>1, <1>5
  <1> QED BY <1>3, <1>5, <1>7, <1>9, <1>10 DEF a, b

-----------------------------------------------------------------------------
\* What a step leaves as it was.

\* Names stay right while no reader is opened or closed.
LEMMA NamesKept ==
  ASSUME UNCHANGED <<readers, nextKey>>, NEW c, NEW key, NEW data, Names(c, key, data)
  PROVE  Names(c, key, data)'
  BY DEF Names, MayAsk, BlockAt

\* Shards stay right while nobody touches them.
LEMMA ShardsKept ==
  ASSUME UNCHANGED <<readers, caches, nextKey>>, Owners, Shards
  PROVE  Owners' /\ Shards'
  <1>1. Owners'
    BY DEF Owners
  <1>2. ASSUME NEW lru, NEW c, NEW s, Right(lru, c, s)
        PROVE  Right(lru, c, s)'
    BY <1>2, NamesKept DEF Right
  <1>3. Shards'
    BY <1>2 DEF Shards
  <1> QED BY <1>1, <1>3

\* A slot stays right while no cache goes away.
LEMMA SlotKept ==
  ASSUME UNCHANGED <<readers, nextKey>>, Len(caches') = Len(caches), NEW slot, SlotRight(slot)
  PROVE  SlotRight(slot)'
  BY NamesKept DEF SlotRight

\* A thread that takes no step keeps its call, while its reader stays open.
LEMMA CallKept ==
  ASSUME NEW u \in Threads, CallOf(u), ReadRight(u),
         pc'[u] = pc[u], job'[u] = job[u], block'[u] = block[u], out'[u] = out[u],
         raised'[u] = raised[u],
         \A m \in DOMAIN readers :
           /\ m \in DOMAIN readers' /\ readers'[m].table = readers[m].table
           /\ pc[u] # "idle" /\ m = job[u].reader /\ readers[m].open => readers'[m].open
  PROVE  CallOf(u)' /\ ReadRight(u)'
  <1>1. /\ At(u)' = At(u)
        /\ job[u].reader # 0 => job[u].reader \in DOMAIN readers
    BY DEF CallOf, At
  <1>2. job[u].reader # 0 => Table(u)' = Table(u) /\ BlockNo(u)' = BlockNo(u)
    BY <1>1 DEF Table, Reader, BlockNo
  <1>3. CallOf(u)'
    BY <1>1, <1>2 DEF CallOf, Reader
  <1>4. ReadRight(u)'
    BY <1>1, <1>2 DEF ReadRight, Holds
  <1> QED BY <1>3, <1>4

\* The shard a call comes to is there, and right.
LEMMA LruRight ==
  ASSUME Typed, Owners, Shards, NEW t \in Threads, CallOf(t), pc[t] # "idle"
  PROVE  /\ caches[Reader(t).cache].cap \in Nat \ {0}
         /\ Shard(t) \in DOMAIN caches[Reader(t).cache].shards
         /\ Shard(t) \in Nat
         /\ Right(Lru(t), Reader(t).cache, Shard(t))
  <1> DEFINE c == Reader(t).cache
  <1>1. c \in DOMAIN caches /\ Key(t) \in Nat
    BY CallFacts
  <1>2. caches[c].cap \in Nat \ {0}
    <2>1. caches \in Seq(CacheType)
      BY DEF Typed
    <2>2. caches[c] \in CacheType
      BY <1>1, <2>1
    <2> QED BY <2>2 DEF CacheType
  <1>3. ShardCount(caches[c].cap) \in Nat \ {0}
    BY <1>2, ShardCountBounds
  <1>4. Shard(t) \in 0 .. ShardCount(caches[c].cap) - 1
    BY <1>1, <1>3, ScaledBelow DEF Shard
  <1>5. Shard(t) \in DOMAIN caches[c].shards
    BY <1>1, <1>4 DEF Shards
  <1>6. Right(Lru(t), c, Shard(t))
    BY <1>1, <1>5 DEF Shards, Lru
  <1> QED BY <1>2, <1>3, <1>4, <1>5, <1>6

\* Putting a right list in a call's shard keeps the caches right.
LEMMA SetLruRight ==
  ASSUME Typed, Owners, Shards, NEW t \in Threads, CallOf(t), pc[t] # "idle",
         NEW lru, Right(lru, Reader(t).cache, Shard(t)), SetLru(t, lru),
         UNCHANGED <<readers, nextKey>>
  PROVE  /\ caches' \in Seq(CacheType)
         /\ Len(caches') = Len(caches)
         /\ Shards'
  <1> DEFINE c == Reader(t).cache
             s == Shard(t)
             new == [caches[c] EXCEPT !.shards = [@ EXCEPT ![s] = lru]]
  <1>1. c \in DOMAIN caches /\ s \in DOMAIN caches[c].shards
    BY CallFacts, LruRight
  <1>2. caches \in Seq(CacheType) /\ caches[c] \in CacheType
    BY <1>1 DEF Typed
  <1>3. lru \in Seq(Entry)
    BY DEF Right
  <1>4. caches' = [caches EXCEPT ![c] = new]
    BY DEF SetLru
  <1> HIDE DEF c, s
  <1>5. PICK n \in 1 .. MaxShards : caches[c].shards \in [0 .. n - 1 -> Seq(Entry)]
    BY <1>2 DEF CacheType
  <1>6. new.shards \in [0 .. n - 1 -> Seq(Entry)]
    BY <1>2, <1>3, <1>5 DEF CacheType
  <1>7. /\ new \in CacheType
        /\ new.cap = caches[c].cap
        /\ new.shards = [caches[c].shards EXCEPT ![s] = lru]
    BY <1>2, <1>6 DEF CacheType
  <1> HIDE DEF new
  <1>8. caches' \in Seq(CacheType) /\ Len(caches') = Len(caches) /\ DOMAIN caches' = DOMAIN caches
    BY <1>1, <1>2, <1>4, <1>7
  <1>9. \A d \in DOMAIN caches :
          /\ caches'[d].cap = caches[d].cap
          /\ DOMAIN caches'[d].shards = DOMAIN caches[d].shards
          /\ \A z \in DOMAIN caches[d].shards :
               caches'[d].shards[z] = IF d = c /\ z = s THEN lru ELSE caches[d].shards[z]
    BY <1>1, <1>2, <1>4, <1>5, <1>7
  <1>10. ASSUME NEW x, NEW d \in DOMAIN caches, NEW z, Right(x, d, z)
         PROVE  Right(x, d, z)'
    BY <1>9, <1>10, NamesKept DEF Right
  <1>11. ASSUME NEW d \in DOMAIN caches, NEW z \in DOMAIN caches[d].shards
         PROVE  Right(caches'[d].shards[z], d, z)
    BY <1>9, <1>11 DEF Shards, c, s
  <1>12. Shards'
    BY <1>8, <1>9, <1>10, <1>11 DEF Shards
  <1> QED BY <1>8, <1>12

\* ReadsItsOwnTable is ReadRight of every thread.
LEMMA ReadsRight == ReadsItsOwnTable <=> \A t \in Threads : ReadRight(t)
  BY DEF ReadsItsOwnTable, ReadRight

\* A thread's step is the only one that touches its call.
LEMMA OnlyOwnCall ==
  ASSUME NEW t \in Threads, Calls, ReadsItsOwnTable, readers' = readers,
         \A u \in Threads \ {t} :
           /\ pc'[u] = pc[u] /\ job'[u] = job[u] /\ block'[u] = block[u]
           /\ out'[u] = out[u] /\ raised'[u] = raised[u],
         CallOf(t)', ReadRight(t)'
  PROVE  Calls' /\ ReadsItsOwnTable'
  <1>1. \A u \in Threads : CallOf(u) /\ ReadRight(u)
    BY ReadsRight DEF Calls
  <1>2. ASSUME NEW u \in Threads \ {t}
        PROVE  CallOf(u)' /\ ReadRight(u)'
    <2>1. \A m \in DOMAIN readers :
            /\ m \in DOMAIN readers' /\ readers'[m].table = readers[m].table
            /\ pc[u] # "idle" /\ m = job[u].reader /\ readers[m].open => readers'[m].open
      OBVIOUS
    <2> QED BY <1>1, <2>1, CallKept
  <1>3. Calls'
    BY <1>2 DEF Calls
  <1>4. ReadsItsOwnTable'
    <2>1. \A u \in Threads : ReadRight(u)'
      BY <1>2
    <2> QED BY <2>1 DEF ReadsItsOwnTable, ReadRight
  <1> QED BY <1>3, <1>4

-----------------------------------------------------------------------------
\* Every action preserves the invariant.

\* A new read starts with nothing delivered.
LEMMA ReadStep ==
  ASSUME IInv, NEW t \in Threads, NEW n \in DOMAIN readers, NEW span \in Spans,
         Read(t, n, span[1], span[2])
  PROVE  IInv'
  <1> DEFINE first == span[1]
             end == span[2]
  <1>1. first \in Nat /\ end \in Nat /\ n \in Nat \ {0}
    <2>1. readers \in Seq(ReaderType)
      BY DEF IInv, Typed
    <2>2. n \in Nat \ {0}
      BY <2>1
    <2>3. span \in Nat \X Nat
      BY CacheAssumption
    <2> QED BY <2>2, <2>3
  <1>2. UNCHANGED <<readers, caches, nextKey, local, block>>
    BY DEF Read
  <1>3. PICK k \in {"byte", "range"}, p \in {"slot", "find"} :
          /\ job' = [job EXCEPT ![t] = [kind |-> k, reader |-> n, first |-> first, end |-> end]]
          /\ pc' = [pc EXCEPT ![t] = p]
          /\ k = "byte" => end = first + 1
          /\ p = "slot" => k = "byte"
    BY DEF Read
  <1> HIDE DEF first, end
  <1>4. /\ readers[n].open /\ first < end /\ end <= readers[n].table.bytes
        /\ out' = [out EXCEPT ![t] = <<>>] /\ raised' = [raised EXCEPT ![t] = FALSE]
        /\ reads' \in 0 .. MaxReads
    BY CacheAssumption DEF Read, first, end, IInv, Typed
  <1>5. Typed'
    BY <1>1, <1>2, <1>3, <1>4 DEF IInv, Typed
  <1>6. Owners' /\ Shards'
    BY <1>2, ShardsKept DEF IInv
  <1>7. Slots'
    BY <1>2, SlotKept DEF IInv, Slots
  <1>8. /\ pc'[t] = p /\ job'[t] = [kind |-> k, reader |-> n, first |-> first, end |-> end]
        /\ out'[t] = <<>> /\ raised'[t] = FALSE
    BY <1>3, <1>4 DEF IInv, Typed
  <1>9. CallOf(t)'
    BY <1>1, <1>2, <1>3, <1>4, <1>8 DEF CallOf, Table, Reader, At
  <1>10. ReadRight(t)'
    BY <1>8, <1>3 DEF ReadRight
  <1>11. Calls' /\ ReadsItsOwnTable'
    BY <1>2, <1>3, <1>4, <1>9, <1>10, OnlyOwnCall DEF IInv, Typed
  <1> QED BY <1>5, <1>6, <1>7, <1>11 DEF IInv

\* Bytes taken from the right block leave what was delivered right, and further on.
LEMMA Delivered ==
  ASSUME Typed, Owners, NEW t \in Threads, CallOf(t), ReadRight(t), pc[t] # "idle",
         UNCHANGED <<readers, job, raised>>,
         out' = [out EXCEPT ![t] = @ \o Wanted(t, Sought(t))]
  PROVE  LET w == Wanted(t, Sought(t))
         IN  /\ out' \in [Threads -> Seq(Byte)]
             /\ Len(w) \in Nat \ {0}
             /\ At(t)' = At(t) + Len(w)
             /\ At(t)' <= job[t].end
             /\ Len(out'[t]) = At(t)' - job[t].first
             /\ \A i \in 1 .. Len(out'[t]) :
                  out'[t][i] = [of |-> Holds(job[t].reader, job[t].first + i - 1),
                                at |-> (job[t].first + i - 1) % Table(t).block]
  <1> DEFINE w == Wanted(t, Sought(t))
             o == out[t]
             first == job[t].first
             b == Table(t).block
             byte(i) == [of |-> Holds(job[t].reader, first + i - 1), at |-> (first + i - 1) % b]
  <1>1. /\ w \in Seq(Byte) /\ Len(w) \in Nat \ {0} /\ At(t) + Len(w) <= job[t].end
        /\ \A i \in 1 .. Len(w) :
             w[i] = [of |-> Holds(job[t].reader, At(t) + i - 1), at |-> (At(t) + i - 1) % b]
    BY WantedRight
  <1>2. /\ out \in [Threads -> Seq(Byte)] /\ o \in Seq(Byte) /\ Len(o) \in Nat
        /\ first \in Nat /\ job[t].end \in Nat
    BY DEF Typed
  <1>3. At(t) = first + Len(o) /\ job[t].reader # 0
    BY DEF At, CallOf
  <1>4. \A i \in 1 .. Len(o) : o[i] = byte(i)
    <2>1. \A i \in 1 .. Len(o) : At(t) - Len(o) + i - 1 = first + i - 1
      BY <1>2, <1>3
    <2> QED BY <1>3, <2>1 DEF ReadRight
  <1> HIDE DEF w
  <1>5. /\ out' \in [Threads -> Seq(Byte)] /\ out'[t] = o \o w
        /\ Len(out'[t]) = Len(o) + Len(w)
    BY <1>1, <1>2 DEF w
  <1>6. At(t)' = first + Len(out'[t])
    BY DEF At
  <1> HIDE DEF o
  <1>7. ASSUME NEW i \in 1 .. Len(out'[t])
        PROVE  out'[t][i] = byte(i)
    <2>1. CASE i <= Len(o)
      <3>1. i \in 1 .. Len(o) /\ (o \o w)[i] = o[i]
        BY <1>1, <1>2, <1>5, <2>1
      <3> QED BY <1>4, <1>5, <3>1
    <2>2. CASE i > Len(o)
      <3> DEFINE k == i - Len(o)
      <3>1. k \in 1 .. Len(w) /\ (o \o w)[i] = w[k]
        BY <1>1, <1>2, <1>5, <2>2
      <3>2. At(t) + k - 1 = first + i - 1
        BY <1>1, <1>2, <1>3, <1>5
      <3> HIDE DEF k
      <3>3. w[k] = byte(i)
        BY <1>1, <3>1, <3>2
      <3> QED BY <1>5, <3>1, <3>3
    <2> QED BY <1>1, <1>2, <1>5, <2>1, <2>2
  <1> HIDE DEF first, b
  <1>8. At(t)' = At(t) + Len(w) /\ At(t)' <= job[t].end /\ Len(out'[t]) = At(t)' - first
    BY <1>1, <1>2, <1>3, <1>5, <1>6
  <1> QED BY <1>1, <1>5, <1>7, <1>8 DEF w, o, first, b

\* Every key has a slot.
LEMMA SlotThere ==
  ASSUME Typed, Owners, NEW t \in Threads, CallOf(t), pc[t] # "idle"
  PROVE  Bank(t) \in BOOLEAN /\ Slot(t) \in 0 .. LocalBlocks - 1
  <1> DEFINE k == Key(t) + Reader(t).id * Golden
  <1>1. Key(t) \in Nat /\ Reader(t).id \in Nat /\ Golden \in Nat
    <2>1. caches \in Seq(CacheType)
      BY DEF Typed
    <2>2. Key(t) \in Nat /\ Reader(t).cache \in DOMAIN caches /\ Reader(t).id = Reader(t).cache
      BY CallFacts
    <2> QED BY <2>1, <2>2, CacheAssumption
  <1>2. k \in Nat
    BY <1>1
  <1>3. LocalBlocks \in Nat \ {0}
    BY CacheAssumption
  <1> HIDE DEF k
  <1>4. Scaled(Mix(k), LocalBlocks) \in 0 .. LocalBlocks - 1
    BY <1>2, <1>3, ScaledBelow
  <1> QED BY <1>4 DEF Bank, Slot, k

\* A slot that names what a call seeks has it.
LEMMA KeptRight ==
  ASSUME Typed, Owners, Slots, NEW t \in Threads, CallOf(t), pc[t] # "idle",
         Kept(t).cache = Reader(t).id, Kept(t).key = Key(t)
  PROVE  Kept(t).data = Sought(t)
  <1>1. SlotRight(Kept(t))
    BY SlotThere DEF Slots, Kept
  <1>2. /\ job[t].reader \in DOMAIN readers /\ Reader(t).id = Reader(t).cache
        /\ MayAsk(job[t].reader, Key(t)) /\ BlockAt(job[t].reader, Key(t)) = Sought(t)
        /\ Reader(t).cache \in DOMAIN caches
    BY CallFacts
  <1>3. Reader(t).cache # 0
    <2>1. caches \in Seq(CacheType)
      BY DEF Typed
    <2> QED BY <1>2, <2>1
  <1> QED BY <1>1, <1>2, <1>3 DEF SlotRight, Names, Reader

\* byte_at answered from the thread's own slot.
LEMMA HitSlotStep ==
  ASSUME IInv, NEW t \in Threads, HitSlot(t)
  PROVE  IInv'
  <1>1. /\ pc[t] = "slot" /\ Kept(t).cache = Reader(t).id /\ Kept(t).key = Key(t)
        /\ out' = [out EXCEPT ![t] = @ \o Wanted(t, Kept(t).data)]
        /\ pc' = [pc EXCEPT ![t] = "idle"]
        /\ UNCHANGED <<readers, caches, nextKey, local, job, block, raised, reads>>
    BY DEF HitSlot
  <1>2. Typed /\ Owners /\ Slots /\ CallOf(t) /\ ReadRight(t)
    BY ReadsRight DEF IInv, Calls
  <1>3. Kept(t).data = Sought(t)
    BY <1>1, <1>2, KeptRight
  <1> DEFINE w == Wanted(t, Sought(t))
  <1>4. /\ out' \in [Threads -> Seq(Byte)] /\ Len(w) \in Nat \ {0}
        /\ At(t)' = At(t) + Len(w) /\ At(t)' <= job[t].end /\ Len(out'[t]) = At(t)' - job[t].first
        /\ \A i \in 1 .. Len(out'[t]) :
             out'[t][i] = [of |-> Holds(job[t].reader, job[t].first + i - 1),
                           at |-> (job[t].first + i - 1) % Table(t).block]
    BY <1>1, <1>2, <1>3, Delivered
  <1> HIDE DEF w
  <1>5. Typed'
    BY <1>1, <1>2, <1>4 DEF Typed
  <1>6. Owners' /\ Shards'
    BY <1>1, ShardsKept DEF IInv
  <1>7. Slots'
    BY <1>1, SlotKept DEF IInv, Slots
  <1>8. pc'[t] = "idle"
    BY <1>1, <1>2 DEF Typed
  <1>9. CallOf(t)'
    BY <1>1, <1>2, <1>8 DEF CallOf, Table, Reader
  <1>10. Len(out'[t]) = job[t].end - job[t].first
    <2>1. job[t].end = job[t].first + 1 /\ job[t].first \in Nat
      BY <1>1, <1>2 DEF CallOf, Typed
    <2>2. At(t) \in Nat /\ Len(out[t]) \in Nat /\ At(t) >= job[t].first
      BY <1>2, <2>1 DEF At, Typed
    <2> QED BY <1>4, <2>1, <2>2
  <1>11. ReadRight(t)'
    <2>1. ~ raised[t] /\ job[t].first \in Nat /\ Len(out'[t]) \in Nat /\ job[t].end \in Nat
      BY <1>1, <1>2, <1>4, <1>5 DEF CallOf, Typed
    <2>2. At(t)' - Len(out'[t]) = job[t].first
      BY <1>1, <2>1 DEF At
    <2> QED BY <1>1, <1>4, <1>10, <2>1, <2>2 DEF ReadRight, Holds, Table, Reader
  <1>12. Calls' /\ ReadsItsOwnTable'
    BY <1>1, <1>2, <1>9, <1>11, OnlyOwnCall DEF IInv, Typed
  <1> QED BY <1>5, <1>6, <1>7, <1>12 DEF IInv

\* byte_at goes to the cache.
LEMMA MissSlotStep ==
  ASSUME IInv, NEW t \in Threads, MissSlot(t)
  PROVE  IInv'
  <1>1. /\ pc[t] = "slot" /\ pc' = [pc EXCEPT ![t] = "find"]
        /\ UNCHANGED <<readers, caches, nextKey, local, job, block, out, raised, reads>>
    BY DEF MissSlot
  <1>2. Typed /\ CallOf(t) /\ ReadRight(t)
    BY ReadsRight DEF IInv, Calls
  <1>3. Typed' /\ pc'[t] = "find"
    BY <1>1, <1>2 DEF Typed
  <1>4. Owners' /\ Shards'
    BY <1>1, ShardsKept DEF IInv
  <1>5. Slots'
    BY <1>1, SlotKept DEF IInv, Slots
  <1>6. CallOf(t)' /\ ReadRight(t)'
    BY <1>1, <1>2, <1>3 DEF CallOf, ReadRight, Table, Reader, At, BlockNo, Holds
  <1>7. Calls' /\ ReadsItsOwnTable'
    BY <1>1, <1>2, <1>6, OnlyOwnCall DEF IInv, Typed
  <1> QED BY <1>3, <1>4, <1>5, <1>7 DEF IInv

\* What a call finds in its shard under its key is what it seeks.
LEMMA FoundRight ==
  ASSUME Typed, Owners, Shards, NEW t \in Threads, CallOf(t), pc[t] # "idle", Has(Lru(t), Key(t))
  PROVE  DataOf(Lru(t), Key(t)) = Sought(t)
  <1>1. /\ job[t].reader \in DOMAIN readers /\ MayAsk(job[t].reader, Key(t))
        /\ BlockAt(job[t].reader, Key(t)) = Sought(t)
    BY CallFacts
  <1>2. Right(Lru(t), Reader(t).cache, Shard(t))
    BY LruRight
  <1>3. /\ Place(Lru(t), Key(t)) \in DOMAIN Lru(t)
        /\ Lru(t)[Place(Lru(t), Key(t))].index = Key(t)
    BY PlaceFound
  <1>4. Names(Reader(t).cache, Key(t), DataOf(Lru(t), Key(t)))
    BY <1>2, <1>3 DEF Right, DataOf
  <1> QED BY <1>1, <1>4 DEF Names, Reader

\* A call goes on inside its read, with the block it seeks once it has one.
LEMMA CallGoesOn ==
  ASSUME NEW t \in Threads, Typed, CallOf(t), ReadRight(t), pc[t] \in {"find", "fill", "insert"},
         NEW p \in {"fill", "insert", "copy"}, pc' = [pc EXCEPT ![t] = p],
         UNCHANGED <<readers, job, out, raised>>,
         p \in {"insert", "copy"} => block'[t] = Sought(t)
  PROVE  CallOf(t)' /\ ReadRight(t)'
  <1>1. pc'[t] = p
    BY DEF Typed
  <1>2. /\ Table(t)' = Table(t) /\ Reader(t)' = Reader(t) /\ At(t)' = At(t)
        /\ BlockNo(t)' = BlockNo(t)
    BY DEF Table, Reader, At, BlockNo
  <1>3. CallOf(t)'
    BY <1>1, <1>2 DEF CallOf, Sought
  <1>4. ReadRight(t)'
    BY <1>1, <1>2 DEF ReadRight, Holds
  <1> QED BY <1>3, <1>4

\* The first look into the shard.
LEMMA FindStep ==
  ASSUME IInv, NEW t \in Threads, Find(t)
  PROVE  IInv'
  <1>1. /\ pc[t] = "find"
        /\ UNCHANGED <<readers, nextKey, local, job, out, raised, reads>>
    BY DEF Find
  <1>2. Typed /\ Owners /\ Shards /\ Slots /\ CallOf(t) /\ ReadRight(t)
    BY ReadsRight DEF IInv, Calls
  <1>3. CASE Has(Lru(t), Key(t))
    <2>1. /\ SetLru(t, ToFront(Lru(t), Key(t)))
          /\ block' = [block EXCEPT ![t] = Sought(t)]
          /\ pc' = [pc EXCEPT ![t] = "copy"]
      BY <1>1, <1>2, <1>3, FoundRight DEF Find
    <2>2. Right(ToFront(Lru(t), Key(t)), Reader(t).cache, Shard(t))
      BY <1>1, <1>2, <1>3, LruRight, ToFrontRight
    <2>3. caches' \in Seq(CacheType) /\ Len(caches') = Len(caches) /\ Shards'
      BY <1>1, <1>2, <2>1, <2>2, SetLruRight
    <2>4. Sought(t) \in Data
      BY <1>1, <1>2, CallFacts
    <2>5. Typed'
      BY <1>1, <1>2, <2>1, <2>3, <2>4 DEF Typed
    <2>6. Owners'
      BY <1>1, <1>2, <2>3 DEF Owners, Typed
    <2>7. Slots'
      BY <1>1, <1>2, <2>3, SlotKept DEF Slots
    <2>8. CallOf(t)' /\ ReadRight(t)'
      <3>1. block'[t] = Sought(t)
        BY <1>2, <2>1 DEF Typed
      <3> QED BY <1>1, <1>2, <2>1, <3>1, CallGoesOn
    <2>9. Calls' /\ ReadsItsOwnTable'
      BY <1>1, <1>2, <2>1, <2>8, OnlyOwnCall DEF IInv, Typed
    <2> QED BY <2>3, <2>5, <2>6, <2>7, <2>9 DEF IInv
  <1>4. CASE ~ Has(Lru(t), Key(t))
    <2>1. pc' = [pc EXCEPT ![t] = "fill"] /\ UNCHANGED <<caches, block>>
      BY <1>4 DEF Find
    <2>2. Typed'
      BY <1>1, <1>2, <2>1 DEF Typed
    <2>3. Owners' /\ Shards'
      BY <1>1, <1>2, <2>1, ShardsKept
    <2>4. Slots'
      BY <1>1, <1>2, <2>1, SlotKept DEF Slots
    <2>5. CallOf(t)' /\ ReadRight(t)'
      BY <1>1, <1>2, <2>1, CallGoesOn
    <2>6. Calls' /\ ReadsItsOwnTable'
      BY <1>1, <1>2, <2>1, <2>5, OnlyOwnCall DEF IInv, Typed
    <2> QED BY <2>2, <2>3, <2>4, <2>6 DEF IInv
  <1> QED BY <1>3, <1>4

\* Decompressing with no lock held: the block sought, or a raise at a corrupt one.
LEMMA FillStep ==
  ASSUME IInv, NEW t \in Threads, Fill(t)
  PROVE  IInv'
  <1>1. /\ pc[t] = "fill"
        /\ UNCHANGED <<readers, caches, nextKey, local, job, out, reads>>
    BY DEF Fill, LocalOnRaise
  <1>2. Typed /\ CallOf(t) /\ ReadRight(t) /\ Owners
    BY ReadsRight DEF IInv, Calls
  <1>3. Owners' /\ Shards'
    BY <1>1, ShardsKept DEF IInv
  <1>4. Slots'
    BY <1>1, SlotKept DEF IInv, Slots
  <1>5. CASE BlockNo(t) \notin Table(t).bad
    <2>1. /\ block' = [block EXCEPT ![t] = Sought(t)]
          /\ pc' = [pc EXCEPT ![t] = "insert"] /\ UNCHANGED raised
      BY <1>5 DEF Fill, Sought
    <2>2. Sought(t) \in Data
      BY <1>1, <1>2, CallFacts
    <2>3. Typed' /\ block'[t] = Sought(t)
      BY <1>1, <1>2, <2>1, <2>2 DEF Typed
    <2>4. CallOf(t)' /\ ReadRight(t)'
      BY <1>1, <1>2, <2>1, <2>3, CallGoesOn
    <2>5. Calls' /\ ReadsItsOwnTable'
      BY <1>1, <1>2, <2>1, <2>4, OnlyOwnCall DEF IInv, Typed
    <2> QED BY <1>3, <1>4, <2>3, <2>5 DEF IInv
  <1>6. CASE BlockNo(t) \in Table(t).bad
    <2>1. /\ raised' = [raised EXCEPT ![t] = TRUE]
          /\ pc' = [pc EXCEPT ![t] = "idle"] /\ UNCHANGED block
      BY <1>6 DEF Fill
    <2>2. Typed' /\ raised'[t] = TRUE /\ pc'[t] = "idle"
      BY <1>1, <1>2, <2>1 DEF Typed
    <2>3. /\ Table(t)' = Table(t) /\ Reader(t)' = Reader(t) /\ At(t)' = At(t)
          /\ BlockNo(t)' = BlockNo(t)
      BY <1>1 DEF Table, Reader, At, BlockNo
    <2>4. CallOf(t)' /\ ReadRight(t)'
      BY <1>1, <1>2, <1>6, <2>2, <2>3 DEF CallOf, ReadRight, Holds
    <2>5. Calls' /\ ReadsItsOwnTable'
      BY <1>1, <1>2, <2>1, <2>4, OnlyOwnCall DEF IInv, Typed
    <2> QED BY <1>3, <1>4, <2>2, <2>5 DEF IInv
  <1> QED BY <1>5, <1>6

\* Nobody but the reader itself may ask its cache for the key of the block it seeks.
LEMMA NamesSought ==
  ASSUME Typed, Owners, NEW t \in Threads, CallOf(t), pc[t] # "idle"
  PROVE  Names(Reader(t).cache, Key(t), Sought(t))
  <1>0. /\ Key(t) \in Nat /\ job[t].reader \in DOMAIN readers
        /\ MayAsk(job[t].reader, Key(t)) /\ BlockAt(job[t].reader, Key(t)) = Sought(t)
    BY CallFacts
  <1>1. Reader(t).cache = 1 => Key(t) < nextKey
    <2> SUFFICES ASSUME Reader(t).cache = 1 PROVE Key(t) < nextKey
      OBVIOUS
    <2>1. Reader(t).key + KeyRange <= nextKey /\ Key(t) < Reader(t).key + KeyRange
      BY <1>0 DEF Owners, MayAsk, Reader
    <2>2. Reader(t).key \in Nat /\ nextKey \in Nat /\ KeyRange \in Nat
      <3>1. readers \in Seq(ReaderType) /\ nextKey \in Nat
        BY DEF Typed
      <3>2. Reader(t) \in ReaderType
        BY <1>0, <3>1 DEF Reader
      <3> QED BY <3>1, <3>2, CacheAssumption DEF ReaderType
    <2> QED BY <1>0, <2>1, <2>2
  <1>2. ASSUME NEW m \in DOMAIN readers, readers[m].cache = Reader(t).cache, MayAsk(m, Key(t))
        PROVE  m = job[t].reader
    <2>1. /\ readers[m].key \in Nat /\ Reader(t).key \in Nat /\ KeyRange \in Nat
      <3>1. readers \in Seq(ReaderType)
        BY DEF Typed
      <3>2. Reader(t) \in ReaderType /\ readers[m] \in ReaderType
        BY <1>0, <3>1 DEF Reader
      <3> QED BY <3>2, CacheAssumption DEF ReaderType
    <2> SUFFICES ASSUME m # job[t].reader PROVE FALSE
      OBVIOUS
    <2>2. /\ Reader(t).cache = 1
          /\ \/ readers[m].key + KeyRange <= Reader(t).key
             \/ Reader(t).key + KeyRange <= readers[m].key
      BY <1>0, <1>2 DEF Owners, Reader
    <2>3. /\ readers[m].key <= Key(t) /\ Key(t) < readers[m].key + KeyRange
          /\ Reader(t).key <= Key(t) /\ Key(t) < Reader(t).key + KeyRange
      BY <1>0, <1>2, <2>2 DEF MayAsk, Reader
    <2> QED BY <1>0, <2>1, <2>2, <2>3
  <1> QED BY <1>0, <1>1, <1>2 DEF Names

\* The second look: the entry another thread made, or the block in hand put in front.
LEMMA InsertStep ==
  ASSUME IInv, NEW t \in Threads, Insert(t)
  PROVE  IInv'
  <1>1. /\ pc[t] = "insert" /\ pc' = [pc EXCEPT ![t] = "copy"]
        /\ UNCHANGED <<readers, nextKey, local, job, out, raised, reads>>
    BY DEF Insert
  <1>2. Typed /\ Owners /\ Shards /\ Slots /\ CallOf(t) /\ ReadRight(t)
    BY ReadsRight DEF IInv, Calls
  <1>3. block[t] = Sought(t)
    BY <1>1, <1>2 DEF CallOf, Sought
  <1>4. /\ Sought(t) \in Data /\ Key(t) \in Nat
        /\ MayAsk(job[t].reader, Key(t)) /\ BlockAt(job[t].reader, Key(t)) = Sought(t)
        /\ job[t].reader \in DOMAIN readers
    BY <1>1, <1>2, CallFacts
  <1>5. /\ Right(Lru(t), Reader(t).cache, Shard(t))
        /\ ShardCap(caches[Reader(t).cache].cap, Shard(t)) \in Nat \ {0}
    BY <1>1, <1>2, LruRight, ShardCapPositive
  <1>6. PICK lru : /\ SetLru(t, lru) /\ Right(lru, Reader(t).cache, Shard(t))
                   /\ block' \in [Threads -> Data \cup {None}]
                   /\ block'[t] = Sought(t)
                   /\ \A u \in Threads \ {t} : block'[u] = block[u]
    <2>1. CASE Has(Lru(t), Key(t))
      <3>1. /\ SetLru(t, ToFront(Lru(t), Key(t)))
            /\ block' = [block EXCEPT ![t] = Sought(t)]
        BY <1>1, <1>2, <2>1, FoundRight DEF Insert, FindAgain
      <3>2. Right(ToFront(Lru(t), Key(t)), Reader(t).cache, Shard(t))
        BY <1>5, <2>1, ToFrontRight
      <3> QED BY <1>2, <1>4, <3>1, <3>2 DEF Typed
    <2>2. CASE ~ Has(Lru(t), Key(t))
      <3> DEFINE new == <<NewEntry(t)>>
                          \o MakeRoom(Lru(t), ShardCap(caches[Reader(t).cache].cap, Shard(t)))
      <3>1. SetLru(t, new) /\ UNCHANGED block
        BY <2>2 DEF Insert, FindAgain
      <3>2. NewEntry(t) \in Entry /\ NewEntry(t).index = Key(t) /\ NewEntry(t).data = Sought(t)
        BY <1>3, <1>4 DEF NewEntry, Entry, Data
      <3>3. Names(Reader(t).cache, Key(t), Sought(t))
        BY <1>1, <1>2, NamesSought
      <3>4. Right(new, Reader(t).cache, Shard(t))
        BY <1>5, <2>2, <3>2, <3>3, PutRight
      <3> HIDE DEF new
      <3> QED BY <1>2, <1>3, <3>1, <3>4 DEF Typed
    <2> QED BY <2>1, <2>2
  <1>7. caches' \in Seq(CacheType) /\ Len(caches') = Len(caches) /\ Shards'
    BY <1>1, <1>2, <1>6, SetLruRight
  <1>8. Typed'
    BY <1>1, <1>2, <1>6, <1>7 DEF Typed
  <1>9. Owners'
    BY <1>1, <1>2, <1>7 DEF Owners, Typed
  <1>10. Slots'
    BY <1>1, <1>2, <1>7, SlotKept DEF Slots
  <1>11. CallOf(t)' /\ ReadRight(t)'
    BY <1>1, <1>2, <1>6, CallGoesOn
  <1>12. Calls' /\ ReadsItsOwnTable'
    BY <1>1, <1>2, <1>6, <1>11, OnlyOwnCall DEF IInv, Typed
  <1> QED BY <1>7, <1>8, <1>9, <1>10, <1>12 DEF IInv

\* The bytes are copied, and byte_at keeps the block in its slot.
LEMMA CopyStep ==
  ASSUME IInv, NEW t \in Threads, Copy(t)
  PROVE  IInv'
  <1> DEFINE w == Wanted(t, Sought(t))
             slot == [cache |-> Reader(t).id, key |-> Key(t), data |-> Sought(t)]
             p == IF At(t) + Len(w) = job[t].end THEN "idle" ELSE "find"
  <1>1. pc[t] = "copy" /\ UNCHANGED <<readers, caches, nextKey, job, raised, reads>>
    BY DEF Copy
  <1>2. Typed /\ Owners /\ Shards /\ Slots /\ CallOf(t) /\ ReadRight(t)
    BY ReadsRight DEF IInv, Calls
  <1>3. block[t] = Sought(t)
    BY <1>1, <1>2 DEF CallOf, Sought
  <1>4. /\ out' = [out EXCEPT ![t] = @ \o w]
        /\ pc' = [pc EXCEPT ![t] = p]
        /\ block' = [block EXCEPT ![t] = None]
        /\ \/ local' = local
           \/ local' = [local EXCEPT ![t][Bank(t)][Slot(t)] = slot]
    BY <1>3 DEF Copy
  <1>5. /\ out' \in [Threads -> Seq(Byte)] /\ Len(w) \in Nat \ {0}
        /\ At(t)' = At(t) + Len(w) /\ At(t)' <= job[t].end /\ Len(out'[t]) = At(t)' - job[t].first
        /\ \A i \in 1 .. Len(out'[t]) :
             out'[t][i] = [of |-> Holds(job[t].reader, job[t].first + i - 1),
                           at |-> (job[t].first + i - 1) % Table(t).block]
    BY <1>1, <1>2, <1>4, Delivered
  <1>6. /\ Sought(t) \in Data /\ Key(t) \in Nat /\ At(t) \in Nat
        /\ Reader(t).cache \in DOMAIN caches /\ Reader(t).id = Reader(t).cache
    BY <1>1, <1>2, CallFacts
  <1>7. Reader(t).id \in Nat /\ Reader(t).id <= Len(caches)
    <2>1. caches \in Seq(CacheType)
      BY <1>2 DEF Typed
    <2> QED BY <1>6, <2>1
  <1>8. Bank(t) \in BOOLEAN /\ Slot(t) \in 0 .. LocalBlocks - 1
    BY <1>1, <1>2, SlotThere
  <1>9. SlotRight(slot)
    BY <1>1, <1>2, <1>6, <1>7, NamesSought DEF SlotRight
  <1>10. slot \in SlotType
    BY <1>6, <1>7 DEF SlotType
  <1> HIDE DEF w, slot
  <1>kept. /\ local' \in [Threads -> [BOOLEAN -> [0 .. LocalBlocks - 1 -> SlotType]]]
         /\ \A u \in Threads, bank \in BOOLEAN, s \in 0 .. LocalBlocks - 1 :
              local'[u][bank][s] \in {local[u][bank][s], slot}
    <2> DEFINE Slotted == [0 .. LocalBlocks - 1 -> SlotType]
               inner == [local[t][Bank(t)] EXCEPT ![Slot(t)] = slot]
               mid == [local[t] EXCEPT ![Bank(t)] = inner]
    <2>1. local \in [Threads -> [BOOLEAN -> Slotted]]
      BY <1>2 DEF Typed
    <2>2. CASE local' = local
      BY <2>1, <2>2
    <2>3. CASE local' = [local EXCEPT ![t][Bank(t)][Slot(t)] = slot]
      <3>1. local[t] \in [BOOLEAN -> Slotted] /\ local[t][Bank(t)] \in Slotted
        BY <1>8, <2>1
      <3>2. /\ inner \in Slotted
            /\ \A s \in 0 .. LocalBlocks - 1 : inner[s] \in {local[t][Bank(t)][s], slot}
        BY <1>8, <1>10, <3>1
      <3>3. local' = [local EXCEPT ![t] = mid]
        BY <2>3
      <3> HIDE DEF inner, Slotted
      <3>4. /\ mid \in [BOOLEAN -> Slotted]
            /\ \A b \in BOOLEAN : mid[b] = IF b = Bank(t) THEN inner ELSE local[t][b]
        BY <1>8, <3>1, <3>2
      <3> HIDE DEF mid
      <3>5. /\ local' \in [Threads -> [BOOLEAN -> Slotted]]
            /\ \A u \in Threads : local'[u] = IF u = t THEN mid ELSE local[u]
        BY <2>1, <3>3, <3>4
      <3> QED BY <3>2, <3>4, <3>5 DEF Slotted
    <2> QED BY <1>4, <2>2, <2>3
  <1>11. Typed'
    <2>1. local' \in [Threads -> [BOOLEAN -> [0 .. LocalBlocks - 1 -> SlotType]]]
      BY <1>kept
    <2> QED BY <1>1, <1>2, <1>4, <1>5, <2>1 DEF Typed
  <1>12. Owners' /\ Shards'
    BY <1>1, ShardsKept DEF IInv
  <1>13. Slots'
    <2>2. ASSUME NEW u \in Threads, NEW bank \in BOOLEAN, NEW s \in 0 .. LocalBlocks - 1
          PROVE  SlotRight(local'[u][bank][s])
      BY <1>2, <1>9, <1>kept DEF Slots
    <2>3. ASSUME NEW x, SlotRight(x) PROVE SlotRight(x)'
      BY <1>1, <2>3, SlotKept
    <2> QED BY <2>2, <2>3 DEF Slots
  <1>14. pc'[t] = p
    BY <1>2, <1>4 DEF Typed
  <1>15. job[t].end \in Nat /\ job[t].first \in Nat /\ ~ raised[t] /\ job[t].reader # 0
         /\ Reader(t).open /\ Len(out'[t]) \in Nat
    BY <1>1, <1>2, <1>5 DEF Typed, CallOf
  <1>16. CallOf(t)'
    <2>1. Table(t)' = Table(t) /\ Reader(t)' = Reader(t)
      BY <1>1 DEF Table, Reader
    <2>2. pc'[t] # "idle" => At(t)' < job[t].end
      <3>1. pc'[t] # "idle" => At(t)' # job[t].end
        BY <1>5, <1>14
      <3>2. At(t)' \in Nat
        BY <1>5, <1>6
      <3> QED BY <1>5, <1>15, <3>1, <3>2
    <2> QED BY <1>1, <1>2, <1>14, <1>15, <2>1, <2>2 DEF CallOf
  <1>17. ReadRight(t)'
    <2>1. At(t)' - Len(out'[t]) = job[t].first
      BY <1>1, <1>15 DEF At
    <2>2. pc'[t] = "idle" => Len(out'[t]) = job[t].end - job[t].first
      BY <1>5, <1>6, <1>14, <1>15
    <2> HIDE DEF p
    <2> QED BY <1>1, <1>5, <1>15, <2>1, <2>2 DEF ReadRight, Holds, Table, Reader
  <1>18. Calls' /\ ReadsItsOwnTable'
    <2>1. \A u \in Threads \ {t} : /\ pc'[u] = pc[u] /\ block'[u] = block[u] /\ out'[u] = out[u]
      BY <1>2, <1>4 DEF Typed
    <2> QED BY <1>1, <1>2, <1>16, <1>17, <2>1, OnlyOwnCall DEF IInv
  <1> QED BY <1>11, <1>12, <1>13, <1>18 DEF IInv

\* Opening a reader takes no key that an entry or a slot already has.
LEMMA NamesAfterOpen ==
  ASSUME Typed, Owners, NEW table \in Tables, OpenShared(table) \/ OpenOwn(table),
         NEW c \in Nat, c <= Len(caches), NEW key \in Nat, NEW data, Names(c, key, data)
  PROVE  Names(c, key, data)'
  <1>1. readers \in Seq(ReaderType) /\ Len(readers) \in Nat /\ nextKey \in Nat /\ Len(caches) \in Nat
    BY DEF Typed
  <1>2. PICK r \in ReaderType :
          /\ readers' = Append(readers, r)
          /\ \/ r.cache = 1 /\ r.key = nextKey /\ nextKey' = nextKey + KeyRange
             \/ r.cache = Len(caches) + 1 /\ nextKey' = nextKey
    <2>1. CASE OpenShared(table)
      <3> DEFINE r == [table |-> table, cache |-> 1, id |-> 1, key |-> nextKey, open |-> TRUE]
      <3>1. r \in ReaderType /\ r.cache = 1 /\ r.key = nextKey
        BY <1>1 DEF ReaderType
      <3>2. readers' = Append(readers, r) /\ nextKey' = nextKey + KeyRange
        BY <2>1 DEF OpenShared
      <3> QED BY <3>1, <3>2
    <2>2. CASE OpenOwn(table)
      <3> DEFINE r == [table |-> table, cache |-> Len(caches) + 1, id |-> FreshId,
                       key |-> 0, open |-> TRUE]
      <3>1. r \in ReaderType /\ r.cache = Len(caches) + 1
        BY <1>1 DEF ReaderType, FreshId
      <3>2. readers' = Append(readers, r) /\ nextKey' = nextKey
        BY <2>2 DEF OpenOwn
      <3> QED BY <3>1, <3>2
    <2> QED BY <2>1, <2>2
  <1>3. KeyRange \in Nat
    BY CacheAssumption
  <1>4. c = 1 => key < nextKey'
    BY <1>1, <1>2, <1>3 DEF Names
  <1>5. ASSUME NEW n \in DOMAIN readers', readers'[n].cache = c, MayAsk(n, key)'
        PROVE  data = BlockAt(n, key)'
    <2>1. CASE n \in DOMAIN readers
      <3>1. readers'[n] = readers[n]
        BY <1>1, <1>2, <2>1
      <3> QED BY <1>5, <2>1, <3>1 DEF Names, MayAsk, BlockAt
    <2>2. CASE n \notin DOMAIN readers
      <3>1. readers'[n] = r
        BY <1>1, <1>2, <1>5, <2>2
      <3>2. r.cache = c /\ c # Len(caches) + 1
        BY <1>1, <1>5, <3>1
      <3>3. r.key = nextKey /\ c = 1
        BY <1>1, <1>2, <3>2
      <3>4. nextKey <= key /\ key < nextKey
        BY <1>1, <1>5, <3>1, <3>3 DEF MayAsk, Names
      <3> QED BY <1>1, <3>4
    <2> QED BY <2>1, <2>2
  <1> QED BY <1>4, <1>5 DEF Names

\* TableReader::open: a range of keys nobody had, or a cache of its own.
LEMMA OpenStep ==
  ASSUME IInv, NEW table \in Tables, Open(table)
  PROVE  IInv'
  <1>1. UNCHANGED <<local, threadVars, reads>> /\ (OpenShared(table) \/ OpenOwn(table))
    BY DEF Open
  <1>2. Typed /\ Owners /\ Shards /\ Slots /\ Calls
    BY DEF IInv
  <1>3. /\ readers \in Seq(ReaderType) /\ Len(readers) \in Nat /\ DOMAIN readers = 1 .. Len(readers)
        /\ nextKey \in Nat
        /\ caches \in Seq(CacheType) /\ Len(caches) \in Nat /\ DOMAIN caches = 1 .. Len(caches)
    BY <1>2 DEF Typed
  <1>4. KeyRange \in Nat /\ Len(caches) >= 1
    BY <1>2, CacheAssumption DEF Owners
  <1> DEFINE own == NewCache(OwnBlocks(table))
  <1>5. /\ own \in CacheType /\ own.cap \in Nat \ {0}
        /\ DOMAIN own.shards = 0 .. ShardCount(own.cap) - 1
        /\ \A s \in DOMAIN own.shards : own.shards[s] = <<>>
    BY OwnBlocksPositive, NewCacheRight
  <1> HIDE DEF own
  <1>6. PICK r \in ReaderType :
          /\ readers' = Append(readers, r)
          /\ r.table = table /\ r.id = r.cache
          /\ \/ /\ r.cache = 1 /\ r.key = nextKey /\ nextKey' = nextKey + KeyRange /\ MayShare(table)
                /\ caches' = caches
             \/ /\ r.cache = Len(caches) + 1 /\ r.key = 0 /\ nextKey' = nextKey
                /\ caches' = Append(caches, own)
    <2>1. CASE OpenShared(table)
      <3> DEFINE r == [table |-> table, cache |-> 1, id |-> 1, key |-> nextKey, open |-> TRUE]
      <3>1. r \in ReaderType /\ r.cache = 1 /\ r.key = nextKey /\ r.table = table /\ r.id = 1
        BY <1>3 DEF ReaderType
      <3>2. /\ readers' = Append(readers, r) /\ nextKey' = nextKey + KeyRange /\ MayShare(table)
            /\ caches' = caches
        BY <2>1 DEF OpenShared
      <3> QED BY <3>1, <3>2
    <2>2. CASE OpenOwn(table)
      <3> DEFINE c == Len(caches) + 1
                 r == [table |-> table, cache |-> c, id |-> c, key |-> 0, open |-> TRUE]
      <3>1. /\ r \in ReaderType /\ r.cache = c /\ r.key = 0 /\ r.table = table /\ r.id = c
        BY <1>3 DEF ReaderType
      <3>2. readers' = Append(readers, r) /\ nextKey' = nextKey /\ caches' = Append(caches, own)
        BY <2>2 DEF OpenOwn, own, FreshId
      <3> QED BY <3>1, <3>2
    <2> QED BY <1>1, <2>1, <2>2
  <1> DEFINE new == Len(readers) + 1
  <1>7. /\ readers' \in Seq(ReaderType) /\ DOMAIN readers' = 1 .. new
        /\ readers'[new] = r /\ \A n \in DOMAIN readers : readers'[n] = readers[n]
    BY <1>3, <1>6
  <1>8. /\ caches' \in Seq(CacheType) /\ nextKey' \in Nat
        /\ DOMAIN caches \subseteq DOMAIN caches' /\ Len(caches') >= Len(caches)
        /\ Len(caches') \in Nat /\ DOMAIN caches' = 1 .. Len(caches')
        /\ \A c \in DOMAIN caches : caches'[c] = caches[c]
        /\ \A c \in DOMAIN caches' : c \notin DOMAIN caches => caches'[c] = own
        /\ r.cache \in DOMAIN caches'
        /\ nextKey' >= nextKey
    <2>1. CASE caches' = caches /\ r.cache = 1 /\ nextKey' = nextKey + KeyRange
      BY <1>3, <1>4, <2>1
    <2>2. CASE caches' = Append(caches, own) /\ r.cache = Len(caches) + 1 /\ nextKey' = nextKey
      <3>1. /\ caches' \in Seq(CacheType) /\ Len(caches') = Len(caches) + 1
            /\ DOMAIN caches' = 1 .. Len(caches) + 1
            /\ \A c \in 1 .. Len(caches) : caches'[c] = caches[c]
            /\ caches'[Len(caches) + 1] = own
        BY <1>3, <1>5, <2>2
      <3>2. \A c \in DOMAIN caches' : c \notin DOMAIN caches => c = Len(caches) + 1
        BY <1>3, <3>1
      <3> QED BY <1>3, <2>2, <3>1, <3>2
    <2> QED BY <1>6, <2>1, <2>2
  <1>9. Typed'
    BY <1>1, <1>2, <1>7, <1>8 DEF Typed, threadVars
  <1>10. Owners'
    <2>1. \A n \in DOMAIN readers : readers[n] \in ReaderType
      BY <1>3
    <2>2. Len(caches') >= 1
      BY <1>3, <1>4, <1>8
    <2>3. ASSUME NEW n \in DOMAIN readers'
          PROVE  /\ readers'[n].cache \in DOMAIN caches'
                 /\ readers'[n].id = readers'[n].cache
                 /\ readers'[n].cache = 1 => /\ MayShare(readers'[n].table)
                                             /\ readers'[n].key + KeyRange <= nextKey'
                 /\ readers'[n].cache # 1 => readers'[n].key = 0
      <3>1. CASE n = new
        <4>1. readers'[n] = r
          BY <1>7, <3>1
        <4>2. r.cache \in DOMAIN caches' /\ r.id = r.cache
          BY <1>6, <1>8
        <4>3. /\ r.cache = 1 => MayShare(r.table) /\ r.key + KeyRange <= nextKey'
              /\ r.cache # 1 => r.key = 0
          <5>1. CASE r.cache = 1 /\ r.key = nextKey /\ nextKey' = nextKey + KeyRange /\ MayShare(table)
            BY <1>3, <1>4, <1>6, <5>1
          <5>2. CASE r.cache = Len(caches) + 1 /\ r.key = 0
            BY <1>3, <1>4, <5>2
          <5> QED BY <1>6, <5>1, <5>2
        <4> QED BY <4>1, <4>2, <4>3
      <3>2. CASE n # new
        <4>1. n \in DOMAIN readers /\ readers'[n] = readers[n] /\ readers[n].key \in Nat
          <5>1. n \in DOMAIN readers /\ readers'[n] = readers[n]
            BY <1>3, <1>7, <3>2
          <5>2. readers[n] \in ReaderType
            BY <2>1, <5>1
          <5> QED BY <5>1, <5>2 DEF ReaderType
        <4> QED BY <1>2, <1>3, <1>4, <1>8, <4>1 DEF Owners
      <3> QED BY <3>1, <3>2
    <2>4. ASSUME NEW n \in DOMAIN readers, r.cache = readers[n].cache
          PROVE  r.cache = 1 /\ readers[n].key + KeyRange <= r.key
      <3>1. readers[n].cache \in DOMAIN caches
        BY <1>2 DEF Owners
      <3>2. r.cache = 1 /\ r.key = nextKey
        BY <1>3, <1>6, <2>4, <3>1
      <3> QED BY <1>2, <2>4, <3>2 DEF Owners
    <2>5. ASSUME NEW m \in DOMAIN readers', NEW n \in DOMAIN readers',
                 m # n, readers'[m].cache = readers'[n].cache
          PROVE  /\ readers'[n].cache = 1
                 /\ \/ readers'[m].key + KeyRange <= readers'[n].key
                    \/ readers'[n].key + KeyRange <= readers'[m].key
      <3>1. CASE m = new
        <4>1. n \in DOMAIN readers /\ readers'[n] = readers[n] /\ readers'[m] = r
          BY <1>3, <1>7, <2>5, <3>1
        <4> QED BY <2>4, <2>5, <4>1
      <3>2. CASE n = new
        <4>1. m \in DOMAIN readers /\ readers'[m] = readers[m] /\ readers'[n] = r
          BY <1>3, <1>7, <2>5, <3>2
        <4> QED BY <2>4, <2>5, <4>1
      <3>3. CASE m # new /\ n # new
        <4>1. /\ m \in DOMAIN readers /\ readers'[m] = readers[m]
              /\ n \in DOMAIN readers /\ readers'[n] = readers[n]
          BY <1>3, <1>7, <3>3
        <4> QED BY <1>2, <2>5, <4>1 DEF Owners
      <3> QED BY <3>1, <3>2, <3>3
    <2> QED BY <2>2, <2>3, <2>5 DEF Owners
  <1>11. Shards'
    <2>1. ASSUME NEW c \in DOMAIN caches, NEW lru, NEW s, Right(lru, c, s)
          PROVE  Right(lru, c, s)'
      <3>1. lru \in Seq(Entry) /\ \A i \in DOMAIN lru : lru[i].index \in Nat
        <4>1. lru \in Seq(Entry)
          BY <2>1 DEF Right
        <4>2. \A i \in DOMAIN lru : lru[i] \in Entry
          BY <4>1
        <4> QED BY <4>1, <4>2 DEF Entry
      <3>2. c \in Nat /\ c <= Len(caches)
        BY <1>3
      <3>3. \A i \in DOMAIN lru : Names(c, lru[i].index, lru[i].data)'
        BY <1>1, <1>2, <2>1, <3>1, <3>2, NamesAfterOpen DEF Right
      <3> QED BY <1>8, <2>1, <3>3 DEF Right
    <2>2. ASSUME NEW c \in DOMAIN caches', NEW s \in DOMAIN caches'[c].shards
          PROVE  Right(caches[c].shards[s], c, s)'
      <3>1. CASE c \in DOMAIN caches
        <4>1. caches'[c] = caches[c]
          BY <1>8, <3>1
        <4>2. Right(caches[c].shards[s], c, s)
          BY <1>2, <2>2, <3>1, <4>1 DEF Shards
        <4>3. PICK lru : lru = caches[c].shards[s]
          OBVIOUS
        <4>4. Right(lru, c, s)'
          BY <2>1, <3>1, <4>2, <4>3
        <4> QED BY <4>1, <4>3, <4>4
      <3>2. CASE c \notin DOMAIN caches
        <4>1. caches'[c] = own /\ caches'[c].shards[s] = <<>>
          BY <1>5, <1>8, <3>2
        <4>2. s \in Nat /\ ShardCap(caches'[c].cap, s) \in Nat
          <5>1. ShardCount(own.cap) \in Nat \ {0}
            BY <1>5, ShardCountBounds
          <5>2. s \in Nat
            BY <1>5, <2>2, <4>1, <5>1
          <5> QED BY <1>5, <4>1, <5>2, ShardCapPositive
        <4>3. <<>> \in Seq(Entry) /\ Len(<<>>) = 0 /\ \A i : i \notin DOMAIN <<>>
          OBVIOUS
        <4> QED BY <4>1, <4>2, <4>3 DEF Right, Distinct
      <3> QED BY <3>1, <3>2
    <2>3. ASSUME NEW c \in DOMAIN caches'
          PROVE  DOMAIN caches'[c].shards = 0 .. ShardCount(caches'[c].cap) - 1
      <3>1. CASE c \in DOMAIN caches
        BY <1>2, <1>8, <3>1 DEF Shards
      <3>2. CASE c \notin DOMAIN caches
        BY <1>5, <1>8, <3>2
      <3> QED BY <3>1, <3>2
    <2> QED BY <2>2, <2>3 DEF Shards
  <1>12. Slots'
    <2>1. ASSUME NEW t \in Threads, NEW bank \in BOOLEAN, NEW s \in 0 .. LocalBlocks - 1
          PROVE  SlotRight(local[t][bank][s])'
      <3> DEFINE slot == local[t][bank][s]
      <3>1. slot \in SlotType /\ SlotRight(slot)
        <4>1. local \in [Threads -> [BOOLEAN -> [0 .. LocalBlocks - 1 -> SlotType]]]
          BY <1>2 DEF Typed
        <4>2. local[t] \in [BOOLEAN -> [0 .. LocalBlocks - 1 -> SlotType]]
          BY <4>1
        <4> QED BY <1>2, <4>2 DEF Slots
      <3> HIDE DEF slot
      <3>2. CASE slot.cache # 0
        <4>1. slot.cache \in Nat /\ slot.key \in Nat /\ slot.cache <= Len(caches)
              /\ Names(slot.cache, slot.key, slot.data)
          BY <3>1, <3>2 DEF SlotType, SlotRight
        <4>2. Names(slot.cache, slot.key, slot.data)'
          BY <1>1, <1>2, <4>1, NamesAfterOpen DEF slot
        <4>3. slot.cache <= Len(caches')
          BY <1>3, <1>8, <4>1
        <4> QED BY <1>1, <4>2, <4>3 DEF SlotRight, slot
      <3> QED BY <1>1, <3>2 DEF SlotRight, slot
    <2> QED BY <1>1, <2>1 DEF Slots
  <1>13. Calls' /\ ReadsItsOwnTable'
    <2>1. \A m \in DOMAIN readers : m \in DOMAIN readers' /\ readers'[m] = readers[m]
      BY <1>3, <1>7
    <2>2. \A u \in Threads : CallOf(u)' /\ ReadRight(u)'
      BY <1>1, <2>1, CallKept, ReadsRight DEF IInv, Calls, threadVars
    <2> QED BY <2>2 DEF Calls, ReadsItsOwnTable, ReadRight
  <1> QED BY <1>9, <1>10, <1>11, <1>12, <1>13 DEF IInv

\* A reader that nobody reads goes, and its own cache empties.
LEMMA CloseStep ==
  ASSUME IInv, NEW n \in DOMAIN readers, Close(n)
  PROVE  IInv'
  <1>1. /\ UNCHANGED <<nextKey, local, threadVars, reads>>
        /\ readers' = [readers EXCEPT ![n].open = FALSE]
        /\ \A t \in Threads : pc[t] = "idle" \/ job[t].reader # n
    BY DEF Close
  <1>2. Typed /\ Owners /\ Shards /\ Slots /\ Calls
    BY DEF IInv
  <1>3. readers \in Seq(ReaderType) /\ caches \in Seq(CacheType)
    BY <1>2 DEF Typed
  <1>4. /\ readers' \in Seq(ReaderType) /\ DOMAIN readers' = DOMAIN readers
        /\ \A m \in DOMAIN readers :
             /\ readers'[m].table = readers[m].table /\ readers'[m].cache = readers[m].cache
             /\ readers'[m].id = readers[m].id /\ readers'[m].key = readers[m].key
             /\ m # n => readers'[m].open = readers[m].open
    <2>1. readers[n] \in ReaderType
      BY <1>3
    <2>2. [readers[n] EXCEPT !.open = FALSE] \in ReaderType
      BY <2>1 DEF ReaderType
    <2>3. readers' = [readers EXCEPT ![n] = [readers[n] EXCEPT !.open = FALSE]]
      BY <1>1
    <2>4. readers' \in Seq(ReaderType) /\ DOMAIN readers' = DOMAIN readers
      BY <1>3, <2>2, <2>3
    <2>5. \A m \in DOMAIN readers :
            readers'[m] = IF m = n THEN [readers[n] EXCEPT !.open = FALSE] ELSE readers[m]
      BY <1>3, <2>3
    <2> QED BY <2>1, <2>4, <2>5 DEF ReaderType
  <1>5. ASSUME NEW c, NEW key, NEW data, Names(c, key, data)
        PROVE  Names(c, key, data)'
    BY <1>1, <1>4, <1>5 DEF Names, MayAsk, BlockAt
  <1>6. /\ caches' \in Seq(CacheType) /\ Len(caches') = Len(caches) /\ DOMAIN caches' = DOMAIN caches
        /\ \A c \in DOMAIN caches :
             \/ caches'[c] = caches[c]
             \/ caches'[c] = NewCache(caches[c].cap) /\ caches[c].cap \in Nat \ {0}
    <2> DEFINE own == readers[n].cache
               empty == NewCache(caches[own].cap)
    <2>1. own \in DOMAIN caches
      BY <1>2 DEF Owners
    <2>2. caches[own] \in CacheType
      BY <1>3, <2>1
    <2>3. caches[own].cap \in Nat \ {0}
      BY <2>2 DEF CacheType
    <2>4. empty \in CacheType
      BY <2>3, NewCacheRight
    <2>5. caches' = caches \/ caches' = [caches EXCEPT ![own] = empty]
      BY DEF Close
    <2> HIDE DEF empty, own
    <2>6. CASE caches' = caches
      BY <1>3, <2>6
    <2>7. CASE caches' = [caches EXCEPT ![own] = empty]
      <3>1. caches' \in Seq(CacheType) /\ Len(caches') = Len(caches) /\ DOMAIN caches' = DOMAIN caches
        BY <1>3, <2>1, <2>4, <2>7
      <3>2. \A c \in DOMAIN caches : caches'[c] = IF c = own THEN empty ELSE caches[c]
        BY <1>3, <2>7
      <3> QED BY <2>3, <3>1, <3>2 DEF empty
    <2> QED BY <2>5, <2>6, <2>7
  <1>7. Typed'
    BY <1>1, <1>2, <1>4, <1>6 DEF Typed, threadVars
  <1>8. Owners'
    BY <1>1, <1>2, <1>4, <1>6 DEF Owners
  <1>9. Shards'
    <2>1. ASSUME NEW c \in DOMAIN caches
          PROVE  /\ DOMAIN caches'[c].shards = 0 .. ShardCount(caches'[c].cap) - 1
                 /\ caches'[c].cap = caches[c].cap
                 /\ \A s \in DOMAIN caches'[c].shards : Right(caches'[c].shards[s], c, s)
      <3>1. CASE caches'[c] = caches[c]
        BY <1>2, <3>1 DEF Shards
      <3>2. CASE caches'[c] = NewCache(caches[c].cap) /\ caches[c].cap \in Nat \ {0}
        <4>1. /\ caches'[c].cap = caches[c].cap
              /\ DOMAIN caches'[c].shards = 0 .. ShardCount(caches[c].cap) - 1
              /\ \A s \in 0 .. ShardCount(caches[c].cap) - 1 : caches'[c].shards[s] = <<>>
          BY <3>2, NewCacheRight
        <4>2. ASSUME NEW s \in 0 .. ShardCount(caches[c].cap) - 1
              PROVE  Right(<<>>, c, s)
          <5>1. s \in Nat
            BY <3>2, ShardCountBounds
          <5>2. ShardCap(caches[c].cap, s) \in Nat
            BY <3>2, <5>1, ShardCapPositive
          <5>3. <<>> \in Seq(Entry) /\ Len(<<>>) = 0 /\ \A i : i \notin DOMAIN <<>>
            OBVIOUS
          <5> QED BY <5>2, <5>3 DEF Right, Distinct
        <4> QED BY <4>1, <4>2
      <3> QED BY <1>6, <3>1, <3>2
    <2>2. ASSUME NEW lru, NEW c \in DOMAIN caches, NEW s, Right(lru, c, s)
          PROVE  Right(lru, c, s)'
      BY <1>5, <2>1, <2>2 DEF Right
    <2> QED BY <1>6, <2>1, <2>2 DEF Shards
  <1>10. Slots'
    <2>1. ASSUME NEW slot, SlotRight(slot) PROVE SlotRight(slot)'
      BY <1>5, <1>6, <2>1 DEF SlotRight
    <2> QED BY <1>1, <1>2, <2>1 DEF Slots
  <1>11. Calls' /\ ReadsItsOwnTable'
    <2>1. \A u \in Threads : CallOf(u) /\ ReadRight(u)
      BY ReadsRight DEF IInv, Calls
    <2>2. ASSUME NEW u \in Threads
          PROVE  \A m \in DOMAIN readers :
                   /\ m \in DOMAIN readers' /\ readers'[m].table = readers[m].table
                   /\ pc[u] # "idle" /\ m = job[u].reader /\ readers[m].open => readers'[m].open
      BY <1>1, <1>4
    <2>3. \A u \in Threads : CallOf(u)' /\ ReadRight(u)'
      BY <1>1, <2>1, <2>2, CallKept DEF threadVars
    <2> QED BY <2>3 DEF Calls, ReadsItsOwnTable, ReadRight
  <1> QED BY <1>7, <1>8, <1>9, <1>10, <1>11 DEF IInv

-----------------------------------------------------------------------------
\* Initially one cache, no readers, nobody reading.
LEMMA InitInv == Init => IInv
  <1> SUFFICES ASSUME Init PROVE IInv
    OBVIOUS
  <1>1. SharedBlocks \in Nat \ {0} /\ MaxReads \in Nat
    BY CacheAssumption
  <1> DEFINE k == NewCache(SharedBlocks)
  <1>2. /\ k \in CacheType /\ k.cap = SharedBlocks
        /\ DOMAIN k.shards = 0 .. ShardCount(SharedBlocks) - 1
        /\ \A s \in 0 .. ShardCount(SharedBlocks) - 1 : k.shards[s] = <<>>
    BY <1>1, NewCacheRight
  <1> HIDE DEF k
  <1>3. /\ caches \in Seq(CacheType) /\ Len(caches) = 1
        /\ \A c \in DOMAIN caches : c = 1 /\ caches[c] = k
        /\ readers \in Seq(ReaderType) /\ \A n : n \notin DOMAIN readers
    BY <1>2 DEF Init, k
  <1>4. EmptySlot \in SlotType /\ EmptySlot.cache = 0
    BY DEF EmptySlot, SlotType
  <1>5. /\ local \in [Threads -> [BOOLEAN -> [0 .. LocalBlocks - 1 -> SlotType]]]
        /\ \A t \in Threads, b \in BOOLEAN, s \in 0 .. LocalBlocks - 1 : local[t][b][s] = EmptySlot
    BY <1>4 DEF Init
  <1>6. Typed
    BY <1>1, <1>3, <1>5 DEF Init, Typed
  <1>7. Owners
    BY <1>3 DEF Owners
  <1>8. Shards
    <2>1. ASSUME NEW s \in 0 .. ShardCount(SharedBlocks) - 1
          PROVE  Right(<<>>, 1, s)
      <3>1. s \in Nat
        BY <1>1, ShardCountBounds
      <3>2. ShardCap(SharedBlocks, s) \in Nat
        BY <1>1, <3>1, ShardCapPositive
      <3>3. <<>> \in Seq(Entry) /\ Len(<<>>) = 0 /\ \A i : i \notin DOMAIN <<>>
        OBVIOUS
      <3>4. caches[1].cap = SharedBlocks
        BY <1>2, <1>3
      <3> QED BY <3>2, <3>3, <3>4 DEF Right, Distinct
    <2> QED BY <1>2, <1>3, <2>1 DEF Shards
  <1>9. Slots
    BY <1>4, <1>5 DEF Slots, SlotRight
  <1>10. \A t \in Threads : job[t].reader = 0 /\ pc[t] = "idle"
    BY DEF Init
  <1>11. Calls
    BY <1>10 DEF Calls, CallOf
  <1>12. ReadsItsOwnTable
    BY <1>10 DEF ReadsItsOwnTable
  <1> QED BY <1>6, <1>7, <1>8, <1>9, <1>11, <1>12 DEF IInv

\* A step that changes nothing keeps the invariant.
LEMMA StutterStep == IInv /\ UNCHANGED vars => IInv'
  <1> SUFFICES ASSUME IInv, UNCHANGED vars PROVE IInv'
    OBVIOUS
  <1>1. UNCHANGED <<readers, caches, nextKey, local, pc, job, block, out, raised, reads>>
    BY DEF vars, threadVars
  <1>2. Typed'
    BY <1>1 DEF IInv, Typed
  <1>3. Owners' /\ Shards'
    BY <1>1, ShardsKept DEF IInv
  <1>4. Slots'
    BY <1>1, SlotKept DEF IInv, Slots
  <1>5. \A u \in Threads : CallOf(u)' /\ ReadRight(u)'
    BY <1>1, CallKept, ReadsRight DEF IInv, Calls
  <1> QED BY <1>2, <1>3, <1>4, <1>5 DEF IInv, Calls, ReadsItsOwnTable, ReadRight

\* IInv holds throughout: names, shards, slots and calls fit together.
THEOREM Invariant == Spec => []IInv
  <1>1. IInv /\ [Next]_vars => IInv'
    <2> SUFFICES ASSUME IInv, [Next]_vars PROVE IInv'
      OBVIOUS
    <2>1. CASE \E table \in Tables : Open(table)
      BY <2>1, OpenStep
    <2>2. CASE \E n \in DOMAIN readers : Close(n)
      BY <2>2, CloseStep
    <2>3. ASSUME NEW t \in Threads, Thread(t) PROVE IInv'
      BY <2>3, ReadStep, HitSlotStep, MissSlotStep, FindStep, FillStep, InsertStep, CopyStep DEF Thread
    <2>4. CASE UNCHANGED vars
      BY <2>4, StutterStep
    <2> QED BY <2>1, <2>2, <2>3, <2>4 DEF Next
  <1> QED BY InitInv, <1>1, PTL DEF Spec

\* Every read, through whatever slot and cache, gives the bytes of its own table
\* (table_file.cpp, TableReader::byte_at and read_range).
THEOREM ReadsOwnTable == Spec => []ReadsItsOwnTable
  <1>1. IInv => ReadsItsOwnTable
    BY DEF IInv
  <1> QED BY Invariant, <1>1, PTL

\* Sharding does not multiply what a cache may hold, and no shard keeps a block
\* twice (block_cache.cpp:20-23, 85-97).
THEOREM KeepsCapacity == Spec => []WithinCapacity
  <1>1. IInv => WithinCapacity
    <2> SUFFICES ASSUME IInv, NEW c \in DOMAIN caches
                 PROVE  /\ Cardinality(EntriesOf(caches[c])) <= caches[c].cap
                        /\ \A s \in DOMAIN caches[c].shards : Distinct(caches[c].shards[s])
      BY DEF WithinCapacity, Distinct
    <2>1. caches \in Seq(CacheType)
      BY DEF IInv, Typed
    <2>2. caches[c] \in CacheType
      BY <2>1
    <2>3. caches[c].cap \in Nat \ {0}
      BY <2>2 DEF CacheType
    <2>4. /\ DOMAIN caches[c].shards = 0 .. ShardCount(caches[c].cap) - 1
          /\ \A s \in DOMAIN caches[c].shards : Right(caches[c].shards[s], c, s)
      BY DEF IInv, Shards
    <2>5. \A s \in DOMAIN caches[c].shards :
            /\ caches[c].shards[s] \in Seq(Entry)
            /\ Len(caches[c].shards[s]) <= ShardCap(caches[c].cap, s)
            /\ Distinct(caches[c].shards[s])
      BY <2>4 DEF Right
    <2> QED BY <2>3, <2>4, <2>5, SharesAddUp
  <1> QED BY Invariant, <1>1, PTL
=============================================================================
