----------------------------- MODULE BlockCache -----------------------------
(***************************************************************************)
(* Reading compressed tables from several threads: sharded LRU caches of   *)
(* decompressed blocks, one per reader or one for all readers, and in      *)
(* front of them the blocks each thread keeps for itself.  One step is one *)
(* critical section of a shard's lock, or work on memory of one thread.    *)
(* Source: src/core/format/{block_cache.cpp,table_file.cpp}.               *)
(***************************************************************************)
EXTENDS Integers, Sequences, FiniteSets

CONSTANTS
  Threads,
  Tables,        \* table files: [bytes, block, bad], bad the corrupt block numbers
  SharedBlocks,  \* capacity of the cache the readers may share
  DefaultBlock,  \* its block size, kDefaultBlockSize
  CacheBytes,    \* budget of a reader's own cache, kBlockCacheBytes
  KeyRange,      \* keys a reader gets in the shared cache, 2^32
  MaxShards,     \* 32
  LocalBlocks,   \* slots of a bank, 32
  Golden,        \* the multiplier of the hash
  MixRange,      \* its modulus, 2^64
  MaxOpens,      \* bound on the readers opened
  MaxReads,      \* bound on the reads made
  Spans          \* the reads tried: <<first, end>> of the bytes wanted

Smaller(a, b) == IF a < b THEN a ELSE b
Larger(a, b) == IF a < b THEN b ELSE a
Mix(key) == (key * Golden) % MixRange
Scaled(mixed, n) == (mixed * n) \div MixRange

ASSUME CacheAssumption ==
  /\ {SharedBlocks, DefaultBlock, CacheBytes, KeyRange, MaxShards, LocalBlocks, MixRange} \subseteq Nat \ {0}
  /\ {MaxOpens, MaxReads} \subseteq Nat
  /\ Golden \in Nat
  /\ \A t \in Tables : {t.bytes, t.block} \subseteq Nat \ {0} /\ t.bad \subseteq Nat
  /\ Spans \subseteq Nat \X Nat

VARIABLES
  readers,  \* readers in the order they were opened
  caches,   \* caches in the order they were made; the place is the id
  nextKey,  \* next_key
  local,    \* the blocks a thread keeps: two banks of slots
  pc, job,  \* where each thread is, and the read it makes
  block,    \* the block a thread has in hand
  out,      \* the bytes read so far
  raised,   \* the read ended with an exception
  reads

threadVars == <<pc, job, block, out, raised>>
vars == <<readers, caches, nextKey, local, threadVars, reads>>

None == [table |-> "none"]

ShardCount(cap) == Smaller(cap, MaxShards)
NewCache(cap) == [cap |-> cap, shards |-> [s \in 0 .. ShardCount(cap) - 1 |-> <<>>]]
ShardCap(cap, s) == cap \div ShardCount(cap) + (IF s < cap % ShardCount(cap) THEN 1 ELSE 0)

\* A reader's own cache holds no more blocks than its table has bytes for.
OwnBlocks(table) == Larger(1, Smaller(CacheBytes, table.bytes) \div table.block)

EmptySlot == [cache |-> 0, key |-> 0, data |-> None]

Init ==
  /\ readers = <<>>
  /\ caches = <<NewCache(SharedBlocks)>>
  /\ nextKey = 0
  /\ local = [t \in Threads |-> [bank \in BOOLEAN |-> [s \in 0 .. LocalBlocks - 1 |-> EmptySlot]]]
  /\ pc = [t \in Threads |-> "idle"]
  /\ job = [t \in Threads |-> [kind |-> "byte", reader |-> 0, first |-> 0, end |-> 0]]
  /\ block = [t \in Threads |-> None]
  /\ out = [t \in Threads |-> <<>>]
  /\ raised = [t \in Threads |-> FALSE]
  /\ reads = 0

-----------------------------------------------------------------------------
(* TableReader::open and the reader's end. *)

MayShare(table) ==
  /\ table.block = DefaultBlock
  /\ table.bytes <= (KeyRange - 1) * table.block

FreshIdReused == Len(SelectSeq(readers, LAMBDA r : r.open)) + 2
FreshId == Len(caches) + 1

OpenShared(table) ==
  /\ MayShare(table)
  /\ readers' = Append(readers, [table |-> table, cache |-> 1, id |-> 1, key |-> nextKey, open |-> TRUE])
  /\ nextKey' = nextKey + KeyRange
  /\ UNCHANGED caches

OpenOwn(table) ==
  /\ readers' = Append(readers, [table |-> table, cache |-> Len(caches) + 1, id |-> FreshId,
                                 key |-> 0, open |-> TRUE])
  /\ caches' = Append(caches, NewCache(OwnBlocks(table)))
  /\ UNCHANGED nextKey

Open(table) ==
  /\ Len(readers) < MaxOpens
  /\ OpenShared(table) \/ OpenOwn(table)
  /\ UNCHANGED <<local, threadVars, reads>>

\* Nobody closes a reader that is being read; its own cache goes with it.
Close(n) ==
  /\ readers[n].open
  /\ \A t \in Threads : pc[t] = "idle" \/ job[t].reader # n
  /\ readers' = [readers EXCEPT ![n].open = FALSE]
  /\ caches' = IF readers[n].cache = 1 THEN caches
               ELSE [caches EXCEPT ![readers[n].cache] = NewCache(@.cap)]
  /\ UNCHANGED <<nextKey, local, threadVars, reads>>

-----------------------------------------------------------------------------
(* byte_at and read_range: a thread reads bytes first .. end - 1 of a table. *)

Reader(t) == readers[job[t].reader]
Table(t) == Reader(t).table
At(t) == job[t].first + Len(out[t])
BlockNo(t) == At(t) \div Table(t).block
Key(t) == Reader(t).key + BlockNo(t)

\* The bytes of the block in hand that the read still wants.
Wanted(t, data) ==
  LET offset == At(t) % Table(t).block
      left   == Smaller(job[t].end - At(t), Table(t).block - offset)
  IN  [i \in 1 .. left |-> [of |-> data, at |-> offset + i - 1]]

Bank(t) == 2 * At(t) >= Table(t).bytes
Slot(t) == Scaled(Mix(Key(t) + Reader(t).id * Golden), LocalBlocks)
Kept(t) == local[t][Bank(t)][Slot(t)]

Read(t, n, first, end) ==
  /\ pc[t] = "idle"
  /\ reads < MaxReads
  /\ readers[n].open
  /\ first < end /\ end <= readers[n].table.bytes
  /\ reads' = reads + 1
  /\ \/ /\ end = first + 1
        /\ job' = [job EXCEPT ![t] = [kind |-> "byte", reader |-> n, first |-> first, end |-> end]]
        /\ pc' = [pc EXCEPT ![t] = "slot"]
     \/ /\ end > first + 1
        /\ job' = [job EXCEPT ![t] = [kind |-> "range", reader |-> n, first |-> first, end |-> end]]
        /\ pc' = [pc EXCEPT ![t] = "find"]
  /\ out' = [out EXCEPT ![t] = <<>>]
  /\ raised' = [raised EXCEPT ![t] = FALSE]
  /\ UNCHANGED <<readers, caches, nextKey, local, block>>

HitSlot(t) ==
  /\ pc[t] = "slot"
  /\ Kept(t).cache = Reader(t).id /\ Kept(t).key = Key(t)
  /\ out' = [out EXCEPT ![t] = @ \o Wanted(t, Kept(t).data)]
  /\ pc' = [pc EXCEPT ![t] = "idle"]
  /\ UNCHANGED <<readers, caches, nextKey, local, job, block, raised, reads>>

MissSlot(t) ==
  /\ pc[t] = "slot"
  /\ ~ (Kept(t).cache = Reader(t).id /\ Kept(t).key = Key(t))
  /\ pc' = [pc EXCEPT ![t] = "find"]
  /\ UNCHANGED <<readers, caches, nextKey, local, job, block, out, raised, reads>>

Shard(t) == Scaled(Mix(Key(t)), ShardCount(caches[Reader(t).cache].cap))
Lru(t) == caches[Reader(t).cache].shards[Shard(t)]
Has(lru, key) == \E i \in DOMAIN lru : lru[i].index = key
Place(lru, key) == CHOOSE i \in DOMAIN lru : lru[i].index = key
DataOf(lru, key) == lru[Place(lru, key)].data
CameFrom(p, i) == IF i = 1 THEN p ELSE IF i <= p THEN i - 1 ELSE i
ToFront(lru, key) == [i \in DOMAIN lru |-> lru[CameFrom(Place(lru, key), i)]]

SetLru(t, lru) == caches' = [caches EXCEPT ![Reader(t).cache].shards[Shard(t)] = lru]

\* acquire, under the shard's lock.
Find(t) ==
  /\ pc[t] = "find"
  /\ IF Has(Lru(t), Key(t))
       THEN /\ SetLru(t, ToFront(Lru(t), Key(t)))
            /\ block' = [block EXCEPT ![t] = DataOf(Lru(t), Key(t))]
            /\ pc' = [pc EXCEPT ![t] = "copy"]
       ELSE /\ pc' = [pc EXCEPT ![t] = "fill"]
            /\ UNCHANGED <<caches, block>>
  /\ UNCHANGED <<readers, nextKey, local, job, out, raised, reads>>

\* A slot is renamed only after the block is there; a raise leaves it alone.
LocalOnRaiseRenamed(t) ==
  IF job[t].kind = "range" THEN local
  ELSE [local EXCEPT ![t][Bank(t)][Slot(t)].cache = Reader(t).id, ![t][Bank(t)][Slot(t)].key = Key(t)]
LocalOnRaise(t) == local

\* Decompression, with no lock held: a corrupt block raises.
Fill(t) ==
  /\ pc[t] = "fill"
  /\ \/ /\ BlockNo(t) \notin Table(t).bad
        /\ block' = [block EXCEPT ![t] = [table |-> Table(t), number |-> BlockNo(t)]]
        /\ pc' = [pc EXCEPT ![t] = "insert"]
        /\ UNCHANGED <<local, raised>>
     \/ /\ BlockNo(t) \in Table(t).bad
        /\ local' = LocalOnRaise(t)
        /\ raised' = [raised EXCEPT ![t] = TRUE]
        /\ pc' = [pc EXCEPT ![t] = "idle"]
        /\ UNCHANGED block
  /\ UNCHANGED <<readers, caches, nextKey, job, out, reads>>

FindAgainNever(lru, key) == FALSE
FindAgain(lru, key) == Has(lru, key)

NewEntry(t) == [index |-> Key(t), data |-> block[t]]

MakeRoom(lru, cap) == IF Len(lru) >= cap THEN SubSeq(lru, 1, Len(lru) - 1) ELSE lru

\* acquire again: another thread may have put the block there meanwhile.
Insert(t) ==
  /\ pc[t] = "insert"
  /\ IF FindAgain(Lru(t), Key(t))
       THEN /\ SetLru(t, ToFront(Lru(t), Key(t)))
            /\ block' = [block EXCEPT ![t] = DataOf(Lru(t), Key(t))]
       ELSE /\ SetLru(t, <<NewEntry(t)>>
                           \o MakeRoom(Lru(t), ShardCap(caches[Reader(t).cache].cap, Shard(t))))
            /\ UNCHANGED block
  /\ pc' = [pc EXCEPT ![t] = "copy"]
  /\ UNCHANGED <<readers, nextKey, local, job, out, raised, reads>>

\* The bytes are copied after the lock is released, from a block the thread shares.
Copy(t) ==
  /\ pc[t] = "copy"
  /\ out' = [out EXCEPT ![t] = @ \o Wanted(t, block[t])]
  /\ pc' = [pc EXCEPT ![t] = IF At(t) + Len(Wanted(t, block[t])) = job[t].end THEN "idle" ELSE "find"]
  /\ local' = IF job[t].kind = "range" THEN local
              ELSE [local EXCEPT ![t][Bank(t)][Slot(t)] =
                      [cache |-> Reader(t).id, key |-> Key(t), data |-> block[t]]]
  /\ block' = [block EXCEPT ![t] = None]
  /\ UNCHANGED <<readers, caches, nextKey, job, raised, reads>>

Thread(t) ==
  \/ \E n \in DOMAIN readers, span \in Spans : Read(t, n, span[1], span[2])
  \/ HitSlot(t) \/ MissSlot(t) \/ Find(t) \/ Fill(t) \/ Insert(t) \/ Copy(t)

Next ==
  \/ \E table \in Tables : Open(table)
  \/ \E n \in DOMAIN readers : Close(n)
  \/ \E t \in Threads : Thread(t)

Spec == Init /\ [][Next]_vars
-----------------------------------------------------------------------------
Entry == [index : Nat, data : [table : Tables, number : Nat]]

(* Every thread is between two calls or inside one on a reader that is open. *)
TypeOK ==
  /\ \A n \in DOMAIN readers : readers[n].table \in Tables /\ readers[n].cache \in DOMAIN caches
  /\ \A c \in DOMAIN caches : \A s \in DOMAIN caches[c].shards : caches[c].shards[s] \in Seq(Entry)
  /\ nextKey \in Nat
  /\ pc \in [Threads -> {"idle", "slot", "find", "fill", "insert", "copy"}]
  /\ \A t \in Threads : pc[t] # "idle" => job[t].reader \in DOMAIN readers /\ Reader(t).open
  /\ reads \in 0 .. MaxReads

Holds(n, i) == [table |-> readers[n].table, number |-> i \div readers[n].table.block]

(* A read, whatever other threads cache and evict meanwhile and whatever was
   read before, through a slot, a cache or neither, gives the bytes of its own
   table, and raises only at a corrupt block. *)
ReadsItsOwnTable ==
  \A t \in Threads : job[t].reader # 0 =>
    LET n == job[t].reader
    IN  /\ \A i \in 1 .. Len(out[t]) :
             out[t][i] = [of |-> Holds(n, At(t) - Len(out[t]) + i - 1),
                          at |-> (job[t].first + i - 1) % Table(t).block]
        /\ raised[t] => BlockNo(t) \in Table(t).bad
        /\ pc[t] = "idle" /\ ~ raised[t] => Len(out[t]) = job[t].end - job[t].first

EntriesOf(cache) == {e \in (DOMAIN cache.shards) \X (1 .. cache.cap + 1) : e[2] \in DOMAIN cache.shards[e[1]]}

(* block_cache.cpp:21: splitting a cache into shards does not multiply what it
   may hold, and threads that fill the same block at once leave one copy. *)
WithinCapacity ==
  \A c \in DOMAIN caches :
    /\ Cardinality(EntriesOf(caches[c])) <= caches[c].cap
    /\ \A s \in DOMAIN caches[c].shards : \A i, j \in DOMAIN caches[c].shards[s] :
         caches[c].shards[s][i].index = caches[c].shards[s][j].index => i = j
=============================================================================
