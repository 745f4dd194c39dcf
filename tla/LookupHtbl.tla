----------------------------- MODULE LookupHtbl -----------------------------
(***************************************************************************)
(* The hash table of Oak Functions' lookup data                            *)
(* (oak_functions_service/src/lookup_htbl.rs): open addressing over a      *)
(* table of (hash byte, data index) entries, pairs appended to chunks of   *)
(* bytes, the table doubled when it is full.                               *)
(*                                                                         *)
(* A value stands for its length.  The hash of a key is arbitrary: its top *)
(* bits choose the slot (reduce), another byte of it is kept in the entry. *)
(* The bytes of a pair are the pair, stored at its data index.             *)
(***************************************************************************)
EXTENDS Naturals, FiniteSets, FiniteSetsExt

CONSTANTS HKeys,        \* the keys
          KeyLen,       \* the length of every key
          ValueLens,    \* the values, by their lengths
          HashBytes,    \* the values of an entry's hash_byte, 0 among them
          HashTop,      \* the number of hashes reduce tells apart
          ChunkSize,    \* chunk_size; the code has at least 2^21
          Reservations, \* the arguments of reserve
          Absent,       \* no value
          MaxData       \* bound: inserts stop when this many bytes are used,
                        \* which INDEX_SIZE bytes of a data index can count

(* Chunks are larger than 1 GiB, and lengths more than write_len can write,*)
(* only next to a table of more than 2^30 entries.                         *)
ASSUME HtblAssumption ==
    /\ 0 \in HashBytes
    /\ HashTop \in Nat \ {0}
    /\ ChunkSize \in Nat \ {0}
    /\ ChunkSize <= 64 * 256 * 256 * 256
    /\ KeyLen \in Nat
    /\ ValueLens \subseteq Nat
    /\ Reservations \subseteq Nat

VARIABLES htbl,     \* the fields of LookupHtbl; chunks is data_chunks.len(),
                    \* stored their pairs by data index, hash the hash
                    \* function under the current hash_secret
          panicked  \* an assertion or an index failed

htblVars == <<htbl, panicked>>

INDEX_SIZE == 5
FreeEntry == [hash_byte |-> 0, data_index |-> 0]
Hashes == [HKeys -> [top : 0..(HashTop - 1), byte : HashBytes]]

TableLen(h) == Cardinality(DOMAIN h.table)

-----------------------------------------------------------------------------
(* The d-th slot at which a key is looked for: from reduce of its hash,    *)
(* which scales the top bits to the table, around the table.               *)
Slot(h, k, d) ==
    ((h.hash[k].top * TableLen(h)) \div HashTop + d) % TableLen(h)

MutStopsAtHashByte(h, k, e) == e.hash_byte = h.hash[k].byte \/ e.data_index = 0

(* lookup leaves its loops at an entry that is free, or that has the key's *)
(* hash byte and the key itself.                                           *)
Stops(h, k, e) ==
    /\ e.hash_byte \in {h.hash[k].byte, 0}
    /\ \/ e.data_index = 0
       \/ e.hash_byte = h.hash[k].byte /\ h.stored[e.data_index].key = k

(* The slot at which lookup of a key ends.                                 *)
Lookup(h, k) ==
    Slot(h, k, Min({d \in 0..(TableLen(h) - 1) : Stops(h, k, h.table[Slot(h, k, d)])}))

(* get: nothing from an empty table, else what lookup finds.               *)
Get(h, k) ==
    IF h.used_entries = 0 THEN Absent
    ELSE LET e == h.table[Lookup(h, k)]
         IN  IF e.data_index = 0 THEN Absent ELSE h.stored[e.data_index].value

(* LookupHtblIter stops at the entries in use.                             *)
InUse(h) == {i \in DOMAIN h.table : h.table[i].data_index # 0}

(* read_key of such an entry.                                              *)
KeyAt(h, i) == h.stored[h.table[i].data_index].key

(* insert and grow_table point the entry that lookup finds to a pair.      *)
PutEntry(h, k, index) ==
    [h EXCEPT !.table[Lookup(h, k)] = [hash_byte |-> h.hash[k].byte, data_index |-> index]]

-----------------------------------------------------------------------------
(* reserve on a table without entries: 60% load, no chunks, a new secret.  *)
Reserved(n, hash) ==
    [table |-> [i \in 0..((5 * n + 1) \div 3 - 1) |-> FreeEntry],
     max_entries |-> n, used_entries |-> 0, used_data |-> 1,
     chunks |-> 0, stored |-> << >>, hash |-> hash]

(* grow_table: every entry in use is put into a table of twice the size,   *)
(* in the order of the old one.                                            *)
Grown(h) ==
    LET larger == [h EXCEPT !.table = [i \in 0..(2 * TableLen(h) - 1) |-> FreeEntry],
                            !.max_entries = 2 * @]
        moved[i \in 0..TableLen(h)] ==
            IF i = 0 THEN larger
            ELSE IF i - 1 \notin InUse(h) THEN moved[i - 1]
            ELSE PutEntry(moved[i - 1], KeyAt(h, i - 1), h.table[i - 1].data_index)
    IN  moved[TableLen(h)]

(* write_len: a length takes 6 bits of a first byte and up to 3 bytes.     *)
LenSize(n) ==
    IF n < 64 THEN 1 ELSE IF n < 64 * 256 THEN 2 ELSE IF n < 64 * 256 * 256 THEN 3 ELSE 4

(* new_data: the pair goes behind the last one, or to a new chunk if it    *)
(* might not fit.  ChunkIndex is the chunk that is then written to, and    *)
(* one chunk is all that is added.                                         *)
Additional(v) == 2 * INDEX_SIZE + KeyLen + v
PairSize(v) == LenSize(KeyLen) + KeyLen + LenSize(v) + v
ChunkIndex(h, v) == (h.used_data + Additional(v)) \div ChunkSize
DataIndex(h, v) ==
    LET c == ChunkIndex(h, v)
    IN  IF h.chunks > c THEN h.used_data ELSE IF c = 0 THEN 1 ELSE ChunkSize * c

DataFails(h, v) == Additional(v) >= ChunkSize \/ h.chunks < ChunkIndex(h, v)

MutForgetsLengths(h, k, v) ==
    LET index == DataIndex(h, v)
    IN  [h EXCEPT !.chunks = IF @ > ChunkIndex(h, v) THEN @ ELSE @ + 1,
                  !.used_data = index + KeyLen + v,
                  !.stored = [i \in DOMAIN @ \cup {index} |->
                                 IF i = index THEN [key |-> k, value |-> v] ELSE @[i]]]

NewData(h, k, v) ==
    LET index == DataIndex(h, v)
    IN  [h EXCEPT !.chunks = IF @ > ChunkIndex(h, v) THEN @ ELSE @ + 1,
                  !.used_data = index + PairSize(v),
                  !.stored = [i \in DOMAIN @ \cup {index} |->
                                 IF i = index THEN [key |-> k, value |-> v] ELSE @[i]]]

(* insert into a table with room: the pair is written and its entry is     *)
(* pointed to it; a pair whose key is new takes an entry into use.         *)
Inserted(h, k, v) ==
    LET new == IF h.table[Lookup(h, k)].data_index = 0 THEN 1 ELSE 0
    IN  PutEntry([NewData(h, k, v) EXCEPT !.used_entries = @ + new], k, DataIndex(h, v))

-----------------------------------------------------------------------------
HtblInit ==
    /\ htbl = [table |-> << >>, max_entries |-> 0, used_entries |-> 0,
               used_data |-> 0, chunks |-> 0, stored |-> << >>,
               hash |-> [k \in HKeys |-> [top |-> 0, byte |-> 0]]]
    /\ panicked = FALSE

Reserve(n) ==
    /\ ~panicked
    /\ htbl.used_entries = 0
    /\ \E hash \in Hashes : htbl' = Reserved(n, hash)
    /\ UNCHANGED panicked

InsertInto(h, k, v) ==
    IF DataFails(h, v) THEN panicked' = TRUE /\ UNCHANGED htbl
    ELSE htbl' = Inserted(h, k, v) /\ UNCHANGED panicked

(* insert: a table of length 0 is reserved for one entry, a full one grows.*)
Insert(k, v) ==
    /\ ~panicked
    /\ htbl.used_data < MaxData
    /\ IF DOMAIN htbl.table = {}
       THEN \E hash \in Hashes : InsertInto(Reserved(1, hash), k, v)
       ELSE InsertInto(IF htbl.used_entries >= htbl.max_entries
                       THEN Grown(htbl) ELSE htbl, k, v)

HtblNext ==
    \/ \E n \in Reservations : Reserve(n)
    \/ \E k \in HKeys, v \in ValueLens : Insert(k, v)

HtblSpec == HtblInit /\ [][HtblNext]_htblVars

-----------------------------------------------------------------------------
(* The table promises what a map does: get returns the value inserted last *)
(* under the key, however often keys collide, the table grows and pairs    *)
(* are replaced.                                                           *)
Map == INSTANCE KeyValueMap WITH
           Keys <- HKeys, Values <- ValueLens, None <- Absent,
           content <- [k \in HKeys |-> Get(htbl, k)]
MapSpec == Map!Spec

(* lookup ends: its loops have no other exit than a free entry or the key, *)
(* and insert fills one entry per key, so one entry must stay free.        *)
TableHasRoom ==
    DOMAIN htbl.table # {} =>
        /\ htbl.used_entries <= htbl.max_entries
        /\ \E i \in DOMAIN htbl.table : htbl.table[i] = FreeEntry

(* Every key has at most one value (README.md): iter yields each key once, *)
(* and len is the number of pairs it yields.                               *)
AtMostOneValue ==
    /\ Cardinality(InUse(htbl)) = htbl.used_entries
    /\ \A i, j \in InUse(htbl) : KeyAt(htbl, i) = KeyAt(htbl, j) => i = j

(* The bytes of two pairs do not overlap and each pair lies in one chunk,  *)
(* which exists: read_key and read_value slice a single chunk.             *)
PairsApart ==
    \A i \in DOMAIN htbl.stored :
        LET last(n) == n + PairSize(htbl.stored[n].value) - 1
        IN  /\ i \div ChunkSize = last(i) \div ChunkSize
            /\ i \div ChunkSize < htbl.chunks
            /\ \A j \in DOMAIN htbl.stored : i < j => last(i) < j

(* What read_entry, iter and the loops of lookup rely on.                  *)
TableSound == TableHasRoom /\ AtMostOneValue /\ PairsApart
=============================================================================
