------------------------- MODULE SectorCacheProofs -------------------------
(***************************************************************************)
(* The sector cache for any number of slots and files, any size of cache,  *)
(* block and sector: an entry that can be found holds its sector of the    *)
(* file that its slot has open, and no sector has two entries; the files   *)
(* FatFs holds locked are those that a slot has open; a block that is read *)
(* ahead stays; and the cache implements FileReads, if a read of the disk  *)
(* that fails leaves its buffer alone.                                     *)
(***************************************************************************)
EXTENDS SectorCache, FiniteSetTheorems, SequenceTheorems, TLAPS

\* While a block is stored the wanted sector has no entry yet.
WantedIsNew ==
    call.at = "block" => Wanted \notin call.todo /\ Found(call.slot, Wanted) = {}

CacheParts == CacheCoherent /\ NoDuplicates

IInv == TypeOK /\ CacheParts /\ WantedIsNew

----------------------------------------------------------------------------
(* Types of what the actions are built from.                               *)

\* A slot's number of a sector is a natural number, and a place in it is in it.
LEMMA Division ==
    ASSUME NEW a \in Nat, NEW d \in Nat \ {0}
    PROVE  /\ a \div d \in Nat
           /\ a % d \in 0..d - 1
           /\ a % d <= a
<1>1. a \div d \in Int /\ a % d \in 0..d - 1
  BY SMT
<1>2. a = d * (a \div d) + (a % d)
  BY SMT
<1>3. a \div d >= 0
  BY SMT
<1>4. d * (a \div d) \in Nat
  BY <1>1, <1>3, SMT
<1> QED
  BY <1>1, <1>2, <1>3, <1>4, SMT

LEMMA LeastType ==
    ASSUME NEW a \in Int, NEW b \in Int
    PROVE  Least(a, b) \in Int /\ Least(a, b) <= a /\ Least(a, b) <= b
           /\ Least(a, b) \in {a, b}
BY DEF Least

\* A sector is made of bytes, whatever its number.
LEMMA SectorType ==
    ASSUME NEW b \in Contents, NEW n \in Nat
    PROVE  Sector(b, n) \in [1..SectorSize -> Byte \cup {-1}]
<1>1. SectorSize \in Nat /\ n * SectorSize \in Nat
  BY SectorCacheAssumption
<1>2. Len(b) \in Nat /\ \A i \in 1..Len(b) : b[i] \in Byte
  BY DEF Contents
<1>3. ASSUME NEW i \in 1..SectorSize
      PROVE  (IF n * SectorSize + i <= Len(b) THEN b[n * SectorSize + i] ELSE 0)
                \in Byte \cup {-1}
  <2> DEFINE k == n * SectorSize + i
  <2>1. k \in Nat /\ k >= 1
    BY <1>1, <1>3
  <2>2. k <= Len(b) => b[k] \in Byte
    BY <1>2, <2>1
  <2> QED
    BY <2>2 DEF Byte
<1> QED
  BY <1>3 DEF Sector

LEMMA RecordTypes ==
    /\ Free \in SlotRecords
    /\ Unused \in EntryRecords
    /\ Idle \in CallRecords
    /\ Junk \in [1..SectorSize -> Byte \cup {-1}]
<1>1. <<>> \in Contents /\ <<>> \in Seq(Byte \cup {-1})
  BY DEF Contents
<1>2. Sector(<<>>, 0) \in [1..SectorSize -> Byte \cup {-1}]
  BY <1>1, SectorType
<1>3. Free \in SlotRecords
  BY <1>1, SectorCacheAssumption DEF Free, SlotRecords, Modes
<1>4. Unused \in EntryRecords
  BY <1>2, SectorCacheAssumption DEF Unused, EntryRecords
<1>5. Idle \in CallRecords
  BY <1>1 DEF Idle, CallRecords
<1> QED
  BY <1>3, <1>4, <1>5 DEF Junk

LEMMA TouchedType ==
    ASSUME TypeOK, NEW e \in Entries, NEW entry \in EntryRecords
    PROVE  /\ Touched(e, entry) \in [Entries -> EntryRecords]
           /\ Touched(e, entry)[e].valid <=> entry.valid
           /\ Touched(e, entry)[e].slot = entry.slot
           /\ Touched(e, entry)[e].sector = entry.sector
           /\ Touched(e, entry)[e].data = entry.data
           /\ \A x \in Entries \ {e} :
                /\ Touched(e, entry)[x].valid <=> cache[x].valid
                /\ Touched(e, entry)[x].slot = cache[x].slot
                /\ Touched(e, entry)[x].sector = cache[x].sector
                /\ Touched(e, entry)[x].data = cache[x].data
<1> DEFINE at(x) == Touched(e, entry)[x]
<1>1. CacheSize \in Nat
  BY SectorCacheAssumption
<1>2. ASSUME NEW x \in Entries
      PROVE  /\ at(x) \in EntryRecords
             /\ x = e => /\ at(x).valid <=> entry.valid
                         /\ at(x).slot = entry.slot
                         /\ at(x).sector = entry.sector
                         /\ at(x).data = entry.data
             /\ x # e => /\ at(x).valid <=> cache[x].valid
                         /\ at(x).slot = cache[x].slot
                         /\ at(x).sector = cache[x].sector
                         /\ at(x).data = cache[x].data
  <2>1. cache[x] \in EntryRecords /\ cache[e] \in EntryRecords
    BY DEF TypeOK
  <2>2. CASE x = e
    <3>1. at(x) = [entry EXCEPT !.used = CacheSize]
      BY <2>2 DEF Touched
    <3> QED
      BY <1>1, <2>2, <3>1 DEF EntryRecords
  <2>3. CASE x # e /\ cache[x].used > cache[e].used
    <3>1. at(x) = [cache[x] EXCEPT !.used = @ - 1]
      BY <2>3 DEF Touched
    <3>2. cache[x].used - 1 \in 0..CacheSize
      BY <1>1, <2>1, <2>3 DEF EntryRecords
    <3> QED
      BY <2>1, <2>3, <3>1, <3>2 DEF EntryRecords
  <2>4. CASE x # e /\ ~(cache[x].used > cache[e].used)
    BY <2>1, <2>4 DEF Touched
  <2> QED
    BY <2>2, <2>3, <2>4
<1>3. Touched(e, entry) = [x \in Entries |-> at(x)]
  BY DEF Touched
<1> QED
  BY <1>2, <1>3

\* Of the oldest and the free entries all are entries.
LEMMA VictimsAreEntries ==
    ASSUME NEW locked
    PROVE  Victims(locked) \subseteq Entries
BY DEF Victims

\* What a turn of the loop leaves in the locals.
LEMMA CopiedType ==
    ASSUME TypeOK, call.slot \in Slots,
           NEW data \in [1..SectorSize -> Byte \cup {-1}],
           NEW valid \in Int, valid <= SectorSize
    PROVE  /\ Copied(data, valid) \in CallRecords
           /\ Copied(data, valid).at = "loop"
           /\ Copied(data, valid).slot = call.slot
<1> DEFINE from == call.offset % SectorSize
           chunk == Least(Least(SectorSize - from, call.left), valid - from)
           left == IF valid < SectorSize THEN 0 ELSE call.left - chunk
           got == call.got \o SubSeq(data, from + 1, from + chunk)
           G == Seq(Byte \cup {-1})
           B == Nat \X Nat
           T == SUBSET Nat
           K == SUBSET Entries
<1>1. call \in CallRecords /\ SectorSize \in Nat \ {0}
  BY SectorCacheAssumption DEF TypeOK
<1>2. /\ call.offset \in Nat /\ call.left \in Nat /\ call.got \in Seq(Byte \cup {-1})
  BY <1>1 DEF CallRecords
<1>3. from \in 0..SectorSize - 1
  BY <1>1, <1>2, Division
<1>0. CallRecords = [at : {"idle", "loop", "block", "done"}, slot : Slots \cup {0},
                     offset : Nat, asked : Nat, left : Nat, got : G, block : B,
                     todo : T, locked : K]
  BY DEF CallRecords
<1>4. CASE valid <= from
  <2>1. Copied(data, valid) = [call EXCEPT !.at = "loop", !.left = 0]
    BY <1>4 DEF Copied
  <2> DEFINE d == [call EXCEPT !.at = "loop", !.left = 0]
  <2>2. d \in CallRecords /\ d.at = "loop" /\ d.slot = call.slot
    <3> HIDE DEF G, B, T, K
    <3> QED
      BY <1>1, <1>0
  <2> QED
    BY <2>1, <2>2
<1>5. CASE ~(valid <= from)
  <2>1. /\ chunk \in Nat /\ chunk <= call.left /\ from + chunk <= SectorSize
    <3>1. /\ Least(SectorSize - from, call.left) \in Nat
          /\ Least(SectorSize - from, call.left) <= call.left
          /\ Least(SectorSize - from, call.left) <= SectorSize - from
      BY <1>1, <1>2, <1>3 DEF Least
    <3> QED
      BY <1>1, <1>2, <1>3, <1>5, <3>1 DEF Least
  <2>2. left \in Nat /\ call.offset + chunk \in Nat
    BY <1>1, <1>2, <2>1
  <2>3. SubSeq(data, from + 1, from + chunk) \in Seq(Byte \cup {-1})
    <3>1. data \in Seq(Byte \cup {-1}) /\ Len(data) = SectorSize
      BY <1>1
    <3> HIDE DEF from, chunk
    <3> QED
      BY <1>1, <1>3, <2>1, <3>1
  <2>4. got \in G
    BY <1>2, <2>3
  <2>5. Copied(data, valid) =
           [call EXCEPT !.at = "loop", !.left = left, !.offset = call.offset + chunk,
                        !.got = got, !.block = <<0, 0>>, !.locked = {}]
    BY <1>5 DEF Copied
  <2>6. <<0, 0>> \in B /\ {} \in K
    OBVIOUS
  <2> HIDE DEF left, chunk, got, from, G, B, T, K
  <2> QED
    BY <1>1, <1>0, <2>2, <2>4, <2>5, <2>6
<1> QED
  BY <1>4, <1>5

\* A turn of the loop looks at a sector with a number.
LEMMA WantedType ==
    ASSUME TypeOK
    PROVE  Wanted \in Nat
<1>1. call.offset \in Nat /\ SectorSize \in Nat \ {0}
  BY SectorCacheAssumption DEF TypeOK, CallRecords
<1> QED
  BY <1>1, Division DEF Wanted

LEMMA BytesType ==
    ASSUME TypeOK, NEW s \in Slots, NEW n \in Nat
    PROVE  Bytes(s, n) \in Int /\ Bytes(s, n) <= SectorSize
<1>1. /\ SectorSize \in Nat /\ n * SectorSize \in Nat
      /\ pool[s].bytes \in Contents /\ Len(pool[s].bytes) \in Nat
  BY SectorCacheAssumption DEF TypeOK, SlotRecords, Contents
<1> DEFINE rest == Len(pool[s].bytes) - n * SectorSize
<1>2. rest \in Int
  BY <1>1
<1>3. Bytes(s, n) = Least(SectorSize, rest)
  BY DEF Bytes
<1> HIDE DEF rest
<1> QED
  BY <1>1, <1>2, <1>3, LeastType

----------------------------------------------------------------------------
(* What the actions do to the cache.                                       *)

\* The files of the slots as far as the cache depends on them.
SameReader(s) ==
    /\ pool'[s].inUse <=> pool[s].inUse
    /\ pool'[s].mode = pool[s].mode
    /\ pool'[s].bytes = pool[s].bytes

LEMMA KeptCache ==
    ASSUME TypeOK, CacheParts, cache' = cache, \A s \in Slots : SameReader(s)
    PROVE  cache' \in [Entries -> EntryRecords] /\ CacheParts'
BY DEF TypeOK, CacheParts, CacheCoherent, NoDuplicates, SameReader, Reader

\* A slot that is opened, closed or written takes its entries with it.
LEMMA InvalidatedCache ==
    ASSUME TypeOK, CacheParts, NEW s \in Slots, cache' = Invalidated(s),
           \A x \in Slots \ {s} : SameReader(x)
    PROVE  cache' \in [Entries -> EntryRecords] /\ CacheParts'
<1>1. ASSUME NEW e \in Entries
      PROVE  /\ cache'[e] \in EntryRecords
             /\ cache'[e].valid => cache'[e] = cache[e] /\ cache[e].slot # s
  BY RecordTypes DEF Invalidated, TypeOK, Unused
<1>2. cache' \in [Entries -> EntryRecords]
  BY <1>1 DEF Invalidated
<1>3. CacheCoherent'
  BY <1>1 DEF CacheParts, CacheCoherent, SameReader, Reader
<1>4. NoDuplicates'
  BY <1>1 DEF CacheParts, NoDuplicates
<1> QED
  BY <1>2, <1>3, <1>4 DEF CacheParts

\* What storing a sector does to the entries.
LEMMA StoredEntry ==
    ASSUME TypeOK, NEW s \in Slots, NEW n \in Nat, NEW e \in Entries,
           cache' = Stored(e, s, n)
    PROVE  /\ cache' \in [Entries -> EntryRecords]
           /\ cache'[e].valid /\ cache'[e].slot = s /\ cache'[e].sector = n
           /\ cache'[e].data = Sector(pool[s].bytes, n)
           /\ \A x \in Entries \ {e} :
                /\ cache'[x].valid <=> cache[x].valid
                /\ cache'[x].slot = cache[x].slot
                /\ cache'[x].sector = cache[x].sector
                /\ cache'[x].data = cache[x].data
<1> DEFINE entry == [valid |-> TRUE, slot |-> s, sector |-> n,
                     data |-> Sector(pool[s].bytes, n), used |-> 0]
<1>1. entry \in EntryRecords
  <2>1. Sector(pool[s].bytes, n) \in [1..SectorSize -> Byte \cup {-1}]
    BY SectorType DEF TypeOK, SlotRecords
  <2> QED
    BY <2>1, SectorCacheAssumption DEF EntryRecords
<1>2. cache' = Touched(e, entry)
  BY DEF Stored
<1>3. /\ entry.valid = TRUE /\ entry.slot = s /\ entry.sector = n
      /\ entry.data = Sector(pool[s].bytes, n)
  OBVIOUS
<1> HIDE DEF entry
<1>4. TypeOK /\ e \in Entries
  OBVIOUS
<1>5. /\ Touched(e, entry) \in [Entries -> EntryRecords]
      /\ Touched(e, entry)[e].valid <=> entry.valid
      /\ Touched(e, entry)[e].slot = entry.slot
      /\ Touched(e, entry)[e].sector = entry.sector
      /\ Touched(e, entry)[e].data = entry.data
  BY <1>1, <1>4, TouchedType, Zenon
<1>6. \A x \in Entries \ {e} :
         /\ Touched(e, entry)[x].valid <=> cache[x].valid
         /\ Touched(e, entry)[x].slot = cache[x].slot
         /\ Touched(e, entry)[x].sector = cache[x].sector
         /\ Touched(e, entry)[x].data = cache[x].data
  BY <1>1, <1>4, TouchedType, Zenon
<1> QED
  BY <1>2, <1>3, <1>5, <1>6

\* Storing a sector that has no entry.
LEMMA StoredCache ==
    ASSUME TypeOK, CacheParts, NEW s \in Slots, Reader(s), NEW n \in Nat,
           NEW e \in Entries, Found(s, n) = {}, cache' = Stored(e, s, n), pool' = pool
    PROVE  /\ cache' \in [Entries -> EntryRecords]
           /\ CacheParts'
           /\ cache'[e].data \in [1..SectorSize -> Byte \cup {-1}]
           /\ \A m \in Nat : m # n /\ Found(s, m) = {} => Found(s, m)' = {}
<1>1. /\ cache' \in [Entries -> EntryRecords]
      /\ cache'[e].valid /\ cache'[e].slot = s /\ cache'[e].sector = n
      /\ cache'[e].data = Sector(pool[s].bytes, n)
      /\ \A x \in Entries \ {e} :
            /\ cache'[x].valid <=> cache[x].valid
            /\ cache'[x].slot = cache[x].slot
            /\ cache'[x].sector = cache[x].sector
            /\ cache'[x].data = cache[x].data
  BY StoredEntry
<1>2. CacheCoherent'
  BY <1>1 DEF CacheParts, CacheCoherent, Reader
<1>3. NoDuplicates'
  BY <1>1 DEF CacheParts, NoDuplicates, Found
<1>4. \A m \in Nat : m # n /\ Found(s, m) = {} => Found(s, m)' = {}
  BY <1>1 DEF Found
<1>5. cache'[e].data \in [1..SectorSize -> Byte \cup {-1}]
  BY <1>1 DEF EntryRecords
<1> QED
  BY <1>1, <1>2, <1>3, <1>4, <1>5 DEF CacheParts

----------------------------------------------------------------------------
(* What the actions do to the slots.                                       *)

\* Setting one field of a slot.
LEMMA SetSlot ==
    ASSUME TypeOK, NEW s \in Slots
    PROVE  /\ \A h \in {"ok", "failed", "stale"} :
                [pool[s] EXCEPT !.health = h] \in SlotRecords
           /\ \A n \in 1..AheadMax : [pool[s] EXCEPT !.ahead = n] \in SlotRecords
           /\ \A n \in Nat : [pool[s] EXCEPT !.pos = n] \in SlotRecords
           /\ [pool[s] EXCEPT !.dirty = FALSE] \in SlotRecords
           /\ \A h \in {"ok", "failed", "stale"} :
                [pool[s] EXCEPT !.dirty = TRUE, !.health = h] \in SlotRecords
<1> DEFINE C == Contents
           M == Modes
           F == Files \cup {Absent}
<1>1. SlotRecords = [inUse : BOOLEAN, file : F, mode : M, bytes : C, pos : Nat,
                     ahead : 1..AheadMax, health : {"ok", "failed", "stale"},
                     dirty : BOOLEAN]
  BY DEF SlotRecords
<1>2. pool[s] \in SlotRecords
  BY DEF TypeOK
<1> HIDE DEF C, M, F
<1> QED
  BY <1>1, <1>2

LEMMA FailingType ==
    ASSUME TypeOK, NEW s \in Slots
    PROVE  Failing(pool[s]) \in {"ok", "failed", "stale"}
<1>1. pool[s].health \in {"ok", "failed", "stale"}
  BY DEF TypeOK, SlotRecords
<1> QED
  BY <1>1 DEF Failing

\* A step that leaves each slot a slot, with the file it has.
LEMMA KeptFiles ==
    ASSUME TypeOK,
           pool' \in [Slots -> SlotRecords],
           \A s \in Slots : SameReader(s) /\ pool'[s].file = pool[s].file,
           call' \in CallRecords,
           call'.at \in {"loop", "block"} => call'.slot \in Slots /\ Reader(call'.slot),
           card' \in [Files -> Contents \cup {Absent}], lock' \in [Files -> Int],
           cache' \in [Entries -> EntryRecords]
    PROVE  TypeOK'
BY DEF TypeOK, SameReader, Reader

\* One slot is set, to a slot with the same file.
LEMMA OneSlot ==
    ASSUME TypeOK, NEW s \in Slots, NEW v \in SlotRecords,
           v.inUse <=> pool[s].inUse, v.mode = pool[s].mode, v.bytes = pool[s].bytes,
           v.file = pool[s].file, pool' = [pool EXCEPT ![s] = v]
    PROVE  /\ pool' \in [Slots -> SlotRecords]
           /\ \A x \in Slots : SameReader(x) /\ pool'[x].file = pool[x].file
BY DEF TypeOK, SameReader

\* Setting the health, the place or the read-ahead of a slot is such a step.
LEMMA SlotHealth ==
    ASSUME TypeOK, NEW s \in Slots, NEW h \in {"ok", "failed", "stale"},
           pool' = [pool EXCEPT ![s].health = h]
    PROVE  /\ pool' \in [Slots -> SlotRecords]
           /\ \A x \in Slots : SameReader(x) /\ pool'[x].file = pool[x].file
<1> DEFINE v == [pool[s] EXCEPT !.health = h]
<1>1. v \in SlotRecords
  BY SetSlot
<1>2. pool[s] \in SlotRecords /\ pool' = [pool EXCEPT ![s] = v]
  BY DEF TypeOK
<1>3. /\ (v.inUse <=> pool[s].inUse) /\ v.mode = pool[s].mode /\ v.bytes = pool[s].bytes
      /\ v.file = pool[s].file
  BY <1>2 DEF SlotRecords
<1> HIDE DEF v
<1> QED
  BY <1>1, <1>2, <1>3, OneSlot

LEMMA SlotPlace ==
    ASSUME TypeOK, NEW s \in Slots, NEW n \in Nat, pool' = [pool EXCEPT ![s].pos = n]
    PROVE  /\ pool' \in [Slots -> SlotRecords]
           /\ \A x \in Slots : SameReader(x) /\ pool'[x].file = pool[x].file
<1> DEFINE v == [pool[s] EXCEPT !.pos = n]
<1>1. v \in SlotRecords
  BY SetSlot
<1>2. pool[s] \in SlotRecords /\ pool' = [pool EXCEPT ![s] = v]
  BY DEF TypeOK
<1>3. /\ (v.inUse <=> pool[s].inUse) /\ v.mode = pool[s].mode /\ v.bytes = pool[s].bytes
      /\ v.file = pool[s].file
  BY <1>2 DEF SlotRecords
<1> HIDE DEF v
<1> QED
  BY <1>1, <1>2, <1>3, OneSlot

LEMMA SlotAhead ==
    ASSUME TypeOK, NEW s \in Slots, NEW n \in 1..AheadMax,
           pool' = [pool EXCEPT ![s].ahead = n]
    PROVE  /\ pool' \in [Slots -> SlotRecords]
           /\ \A x \in Slots : SameReader(x) /\ pool'[x].file = pool[x].file
<1> DEFINE v == [pool[s] EXCEPT !.ahead = n]
<1>1. v \in SlotRecords
  BY SetSlot
<1>2. pool[s] \in SlotRecords /\ pool' = [pool EXCEPT ![s] = v]
  BY DEF TypeOK
<1>3. /\ (v.inUse <=> pool[s].inUse) /\ v.mode = pool[s].mode /\ v.bytes = pool[s].bytes
      /\ v.file = pool[s].file
  BY <1>2 DEF SlotRecords
<1> HIDE DEF v
<1> QED
  BY <1>1, <1>2, <1>3, OneSlot

LEMMA SlotClean ==
    ASSUME TypeOK, NEW s \in Slots, pool' = [pool EXCEPT ![s].dirty = FALSE]
    PROVE  /\ pool' \in [Slots -> SlotRecords]
           /\ \A x \in Slots : SameReader(x) /\ pool'[x].file = pool[x].file
<1> DEFINE v == [pool[s] EXCEPT !.dirty = FALSE]
<1>1. v \in SlotRecords
  BY SetSlot
<1>2. pool[s] \in SlotRecords /\ pool' = [pool EXCEPT ![s] = v]
  BY DEF TypeOK
<1>3. /\ (v.inUse <=> pool[s].inUse) /\ v.mode = pool[s].mode /\ v.bytes = pool[s].bytes
      /\ v.file = pool[s].file
  BY <1>2 DEF SlotRecords
<1> HIDE DEF v
<1> QED
  BY <1>1, <1>2, <1>3, OneSlot

LEMMA SlotWritten ==
    ASSUME TypeOK, NEW s \in Slots, NEW h \in {"ok", "failed", "stale"},
           pool' = [pool EXCEPT ![s].dirty = TRUE, ![s].health = h]
    PROVE  /\ pool' \in [Slots -> SlotRecords]
           /\ \A x \in Slots : SameReader(x) /\ pool'[x].file = pool[x].file
<1> DEFINE v == [pool[s] EXCEPT !.dirty = TRUE, !.health = h]
<1>1. v \in SlotRecords
  BY SetSlot
<1>2. pool[s] \in SlotRecords /\ pool \in [Slots -> SlotRecords]
  BY DEF TypeOK
<1>3. pool' = [pool EXCEPT ![s] = v]
  BY <1>2
<1>4. /\ (v.inUse <=> pool[s].inUse) /\ v.mode = pool[s].mode /\ v.bytes = pool[s].bytes
      /\ v.file = pool[s].file
  BY <1>2 DEF SlotRecords
<1> HIDE DEF v
<1> QED
  BY <1>1, <1>3, <1>4, OneSlot

----------------------------------------------------------------------------
(* The invariant.                                                          *)

LEMMA InitInv ==
    ASSUME Init
    PROVE  IInv
<1>1. /\ card \in [Files -> Contents \cup {Absent}] /\ lock \in [Files -> Int]
  BY SectorCacheAssumption DEF Init
<1>2. /\ pool \in [Slots -> SlotRecords] /\ \A s \in Slots : pool[s] = Free
      /\ cache \in [Entries -> EntryRecords] /\ \A e \in Entries : cache[e] = Unused
      /\ call \in CallRecords /\ call.at = "idle"
  BY RecordTypes DEF Init, Idle
<1>3. /\ \A s \in Slots : ~pool[s].inUse
      /\ \A e \in Entries : ~cache[e].valid
  BY <1>2 DEF Free, Unused
<1> QED
  BY <1>1, <1>2, <1>3 DEF IInv, TypeOK, CacheParts, CacheCoherent, NoDuplicates, WantedIsNew

\* A call that does not touch call leaves no block under way.
LEMMA NoBlock ==
    ASSUME call'.at # "block"
    PROVE  WantedIsNew'
BY DEF WantedIsNew

LEMMA OpenFileKeepsInv ==
    ASSUME IInv, NEW s \in Slots, NEW f \in Files, NEW mode \in Modes, OpenFile(s, f, mode)
    PROVE  IInv'
<1>1. /\ call' = call /\ call.at = "idle" /\ cache' = Invalidated(s)
      /\ pool' = [pool EXCEPT ![s] =
                     Opened(f, mode, card'[f], mode = "create" \/ card[f] = Absent)]
  BY DEF OpenFile
<1>2. card' \in [Files -> Contents \cup {Absent}] /\ (mode = "read" => card'[f] \in Contents)
  <2>1. <<>> \in Contents /\ card \in [Files -> Contents \cup {Absent}]
    BY DEF Contents, IInv, TypeOK
  <2>2. card' = [card EXCEPT ![f] = <<>>] \/ card' = card
    BY DEF OpenFile
  <2>3. mode = "read" => card[f] # Absent /\ card' = card
    BY DEF OpenFile
  <2> QED
    BY <2>1, <2>2, <2>3
<1>3. lock' \in [Files -> Int]
  BY DEF OpenFile, Taken, IInv, TypeOK
<1> DEFINE v == Opened(f, mode, card'[f], mode = "create" \/ card[f] = Absent)
<1>4. v \in SlotRecords /\ v.file = f
  <2>1. (IF mode = "read" THEN card'[f] ELSE <<>>) \in Contents
    BY <1>2 DEF Contents
  <2>2. 1 \in 1..AheadMax
    BY SectorCacheAssumption
  <2> QED
    BY <2>1, <2>2 DEF Opened, SlotRecords
<1>5. pool' \in [Slots -> SlotRecords] /\ \A x \in Slots \ {s} : pool'[x] = pool[x]
  BY <1>1, <1>4 DEF IInv, TypeOK
<1>6. pool'[s].file = f
  BY <1>1, <1>4 DEF IInv, TypeOK
<1>7. cache' \in [Entries -> EntryRecords] /\ CacheParts'
  BY <1>1, <1>5, InvalidatedCache DEF IInv, SameReader
<1>8. TypeOK'
  BY <1>1, <1>2, <1>3, <1>5, <1>6, <1>7 DEF IInv, TypeOK
<1> QED
  BY <1>1, <1>7, <1>8, NoBlock DEF IInv

LEMMA CloseKeepsInv ==
    ASSUME IInv, NEW s \in Slots, Close(s)
    PROVE  IInv'
<1>1. /\ call' = call /\ call.at = "idle" /\ cache' = Invalidated(s) /\ card' = card
      /\ pool' = [pool EXCEPT ![s] = Free]
  BY DEF Close
<1>2. lock' \in [Files -> Int]
  BY DEF Close, Given, IInv, TypeOK
<1>3. /\ pool' \in [Slots -> SlotRecords] /\ \A x \in Slots \ {s} : pool'[x] = pool[x]
      /\ pool'[s] = Free
  BY <1>1, RecordTypes DEF IInv, TypeOK
<1>4. cache' \in [Entries -> EntryRecords] /\ CacheParts'
  BY <1>1, <1>3, InvalidatedCache DEF IInv, SameReader
<1>5. TypeOK'
  BY <1>1, <1>2, <1>3, <1>4 DEF IInv, TypeOK, Free
<1> QED
  BY <1>1, <1>4, <1>5, NoBlock DEF IInv

\* What a slot writes has a file.
LEMMA WriteKeepsInv ==
    ASSUME IInv, NEW s \in Slots, NEW b \in Written, Write(s, b),
           pool[s].health = "ok" => card[pool[s].file] # Absent
    PROVE  IInv'
<1>1. /\ call' = call /\ call.at = "idle" /\ cache' = Invalidated(s) /\ lock' = lock
      /\ pool[s].inUse
  BY DEF Write
<1>2. /\ card' \in [Files -> Contents \cup {Absent}]
      /\ pool' \in [Slots -> SlotRecords]
      /\ \A x \in Slots : SameReader(x) /\ pool'[x].file = pool[x].file
  <2>1. CASE /\ pool[s].health = "ok"
             /\ card' = [card EXCEPT ![pool[s].file] = Append(@, b)]
             /\ \E h \in {"ok", "failed"} :
                   pool' = [pool EXCEPT ![s].dirty = TRUE, ![s].health = h]
    <3>1. /\ pool[s].file \in Files /\ card[pool[s].file] \in Contents
          /\ card \in [Files -> Contents \cup {Absent}]
      BY <1>1, <2>1 DEF IInv, TypeOK
    <3>2. Append(card[pool[s].file], b) \in Contents
      BY <3>1, SectorCacheAssumption DEF Contents
    <3>3. card' \in [Files -> Contents \cup {Absent}]
      BY <2>1, <3>1, <3>2
    <3> QED
      BY <2>1, <3>3, SlotWritten DEF IInv
  <2>2. CASE pool' = [pool EXCEPT ![s].health = Failing(pool[s])] /\ card' = card
    BY <2>2, SlotHealth, FailingType DEF IInv, TypeOK
  <2> QED
    BY <2>1, <2>2 DEF Write
<1>3. cache' \in [Entries -> EntryRecords] /\ CacheParts'
  BY <1>1, <1>2, InvalidatedCache DEF IInv
<1>4. TypeOK'
  BY <1>1, <1>2, <1>3, KeptFiles DEF IInv, TypeOK
<1> QED
  BY <1>1, <1>3, <1>4, NoBlock DEF IInv

\* The calls that leave the cache alone.
LEMMA QuietCallsKeepInv ==
    ASSUME IInv, NEW s \in Slots, NEW n \in Nat,
           Sync(s) \/ SetReadAhead(s, n) \/ Seek(s, n)
    PROVE  IInv'
<1>1. /\ call' = call /\ call.at = "idle" /\ cache' = cache
      /\ card' = card /\ lock' = lock
  BY DEF Sync, SetReadAhead, Seek
<1>2. /\ pool' \in [Slots -> SlotRecords]
      /\ \A x \in Slots : SameReader(x) /\ pool'[x].file = pool[x].file
  <2>1. CASE Sync(s)
    BY <2>1, SlotClean DEF IInv, Sync
  <2>2. CASE SetReadAhead(s, n)
    <3>1. (IF n < 1 THEN 1 ELSE Least(n, AheadMax)) \in 1..AheadMax
      BY SectorCacheAssumption DEF Least
    <3> QED
      BY <2>2, <3>1, SlotAhead DEF IInv, SetReadAhead
  <2>3. CASE Seek(s, n)
    <3>1. Least(n, Len(pool[s].bytes)) \in Nat
      BY DEF Least, IInv, TypeOK, SlotRecords, Contents
    <3> QED
      BY <2>3, <3>1, SlotPlace DEF IInv, Seek
  <2> QED
    BY <2>1, <2>2, <2>3
<1>3. cache' \in [Entries -> EntryRecords] /\ CacheParts'
  BY <1>1, <1>2, KeptCache DEF IInv
<1>4. TypeOK'
  BY <1>1, <1>2, <1>3, KeptFiles DEF IInv, TypeOK
<1> QED
  BY <1>1, <1>3, <1>4, NoBlock DEF IInv

LEMMA ReplaceKeepsInv ==
    ASSUME IInv, NEW src \in Files, NEW dst \in Files, Replace(src, dst)
    PROVE  IInv'
<1>1. /\ call' = call /\ call.at = "idle" /\ cache' = cache /\ pool' = pool /\ lock' = lock
  BY DEF Replace
<1>2. card' \in [Files -> Contents \cup {Absent}]
  BY DEF Replace, IInv, TypeOK
<1>3. cache' \in [Entries -> EntryRecords] /\ CacheParts'
  BY <1>1, KeptCache DEF IInv, SameReader
<1>4. TypeOK'
  BY <1>1, <1>2, <1>3 DEF IInv, TypeOK, Reader
<1> QED
  BY <1>1, <1>3, <1>4, NoBlock DEF IInv

LEMMA RemountKeepsInv ==
    ASSUME IInv, Remount
    PROVE  IInv'
<1>1. /\ call' = call /\ call.at = "idle" /\ cache' = cache
      /\ pool' = [s \in Slots |->
                     IF pool[s].inUse THEN [pool[s] EXCEPT !.health = "stale"] ELSE pool[s]]
  BY DEF Remount
<1>2. card' \in [Files -> Contents \cup {Absent}] /\ lock' \in [Files -> Int]
  BY SectorCacheAssumption DEF Remount, IInv, TypeOK
<1>3. ASSUME NEW s \in Slots
      PROVE  /\ pool'[s] \in SlotRecords
             /\ SameReader(s) /\ pool'[s].file = pool[s].file
  <2>1. pool[s] \in SlotRecords
    BY DEF IInv, TypeOK
  <2> DEFINE v == [pool[s] EXCEPT !.health = "stale"]
  <2>2. v \in SlotRecords
    BY SetSlot DEF IInv
  <2>3. /\ v.inUse <=> pool[s].inUse
        /\ v.mode = pool[s].mode /\ v.bytes = pool[s].bytes /\ v.file = pool[s].file
    BY <2>1 DEF SlotRecords
  <2>4. pool'[s] = v \/ pool'[s] = pool[s]
    BY <1>1
  <2> HIDE DEF v
  <2> QED
    BY <2>1, <2>2, <2>3, <2>4 DEF SameReader
<1>4. pool' \in [Slots -> SlotRecords]
  BY <1>1, <1>3
<1>5. cache' \in [Entries -> EntryRecords] /\ CacheParts'
  BY <1>1, <1>3, KeptCache DEF IInv
<1>6. TypeOK'
  BY <1>1, <1>2, <1>3, <1>4, <1>5, KeptFiles DEF IInv, TypeOK
<1> QED
  BY <1>1, <1>5, <1>6, NoBlock DEF IInv

\* A step of a read that changes only the locals, and the health or place of the slot.
LEMMA LocalsKeepInv ==
    ASSUME IInv, cache' = cache, card' = card, lock' = lock,
           call' \in CallRecords, call'.at # "block",
           call'.at = "loop" => call'.slot \in Slots /\ Reader(call'.slot),
           pool' \in [Slots -> SlotRecords],
           \A x \in Slots : SameReader(x) /\ pool'[x].file = pool[x].file
    PROVE  IInv'
<1>1. cache' \in [Entries -> EntryRecords] /\ CacheParts'
  BY KeptCache DEF IInv
<1>2. TypeOK'
  BY <1>1, KeptFiles DEF IInv, TypeOK
<1> QED
  BY <1>1, <1>2, NoBlock DEF IInv

LEMMA SamePool ==
    ASSUME IInv, pool' = pool
    PROVE  /\ pool' \in [Slots -> SlotRecords]
           /\ \A x \in Slots : SameReader(x) /\ pool'[x].file = pool[x].file
BY DEF IInv, TypeOK, SameReader

LEMMA BeginReadKeepsInv ==
    ASSUME IInv, NEW s \in Slots, NEW n \in Nat, BeginRead(s, n)
    PROVE  IInv'
<1> DEFINE place == pool[s].pos
           left == Least(n, Len(pool[s].bytes) - pool[s].pos)
           d == [Idle EXCEPT !.at = "loop", !.slot = s, !.offset = place, !.asked = n,
                             !.left = left]
           G == Seq(Byte \cup {-1})
           B == Nat \X Nat
           T == SUBSET Nat
           K == SUBSET Entries
<1>1. /\ cache' = cache /\ card' = card /\ lock' = lock /\ pool' = pool
      /\ call' = d /\ Reader(s) /\ pool[s].pos < Len(pool[s].bytes)
  BY DEF BeginRead, Reader
<1>2. place \in Nat /\ left \in Nat
  BY <1>1 DEF Least, IInv, TypeOK, SlotRecords, Contents
<1>3. CallRecords = [at : {"idle", "loop", "block", "done"}, slot : Slots \cup {0},
                     offset : Nat, asked : Nat, left : Nat, got : G, block : B,
                     todo : T, locked : K]
  BY DEF CallRecords
<1>4. Idle \in CallRecords
  BY RecordTypes
<1>5. d \in CallRecords /\ d.at = "loop" /\ d.slot = s
  <2> HIDE DEF G, B, T, K, left, place
  <2> QED
    BY <1>2, <1>3, <1>4
<1> HIDE DEF d
<1> QED
  BY <1>1, <1>5, SamePool, LocalsKeepInv

\* What a turn of the loop begins with.
LEMMA AtTurn ==
    ASSUME IInv, call.at \in {"loop", "block"}
    PROVE  /\ call.slot \in Slots /\ Reader(call.slot)
           /\ Wanted \in Nat
           /\ Bytes(call.slot, Wanted) \in Int /\ Bytes(call.slot, Wanted) <= SectorSize
<1>1. call.slot \in Slots /\ Reader(call.slot) /\ Wanted \in Nat
  BY WantedType DEF IInv, TypeOK
<1> QED
  BY <1>1, BytesType DEF IInv

LEMMA HitKeepsInv ==
    ASSUME IInv, Hit
    PROVE  IInv'
<1>1. PICK e \in Entries :
         /\ cache' = Touched(e, cache[e])
         /\ call' = Copied(cache[e].data, SectorSize)
  BY DEF Hit, Found
<1>2. /\ call.slot \in Slots /\ Reader(call.slot)
      /\ pool' = pool /\ card' = card /\ lock' = lock
  BY AtTurn DEF Hit, AtLoop
<1>3. cache[e] \in EntryRecords /\ cache[e].data \in [1..SectorSize -> Byte \cup {-1}]
  BY DEF IInv, TypeOK, EntryRecords
<1>4. SectorSize \in Int /\ SectorSize <= SectorSize
  BY SectorCacheAssumption
<1>5. call' \in CallRecords /\ call'.at = "loop" /\ call'.slot = call.slot
  BY <1>1, <1>2, <1>3, <1>4, CopiedType DEF IInv
<1>6. /\ cache' \in [Entries -> EntryRecords]
      /\ \A x \in Entries :
            /\ cache'[x].valid <=> cache[x].valid
            /\ cache'[x].slot = cache[x].slot
            /\ cache'[x].sector = cache[x].sector
            /\ cache'[x].data = cache[x].data
  <2>1. TypeOK /\ e \in Entries
    BY DEF IInv
  <2>2. Touched(e, cache[e]) \in [Entries -> EntryRecords]
    BY <1>3, <2>1, TouchedType, Zenon
  <2>3. /\ Touched(e, cache[e])[e].valid <=> cache[e].valid
        /\ Touched(e, cache[e])[e].slot = cache[e].slot
        /\ Touched(e, cache[e])[e].sector = cache[e].sector
        /\ Touched(e, cache[e])[e].data = cache[e].data
    BY <1>3, <2>1, TouchedType, Zenon
  <2>4. \A x \in Entries \ {e} :
           /\ Touched(e, cache[e])[x].valid <=> cache[x].valid
           /\ Touched(e, cache[e])[x].slot = cache[x].slot
           /\ Touched(e, cache[e])[x].sector = cache[x].sector
           /\ Touched(e, cache[e])[x].data = cache[x].data
    BY <1>3, <2>1, TouchedType, Zenon
  <2> QED
    BY <1>1, <2>1, <2>2, <2>3, <2>4
<1>7. CacheParts'
  BY <1>2, <1>6 DEF IInv, CacheParts, CacheCoherent, NoDuplicates, Reader
<1>8. TypeOK'
  BY <1>2, <1>5, <1>6 DEF IInv, TypeOK, Reader
<1> QED
  BY <1>5, <1>7, <1>8, NoBlock DEF IInv

\* A wanted sector that has no entry gets one.
LEMMA WantedStored ==
    ASSUME IInv, call.at \in {"loop", "block"}, Found(call.slot, Wanted) = {},
           NEW e \in Entries, cache' = Stored(e, call.slot, Wanted),
           call' = Copied(cache'[e].data, Bytes(call.slot, Wanted)),
           card' = card, lock' = lock, pool' = pool
    PROVE  IInv'
<1>1. /\ call.slot \in Slots /\ Reader(call.slot) /\ Wanted \in Nat
      /\ Bytes(call.slot, Wanted) \in Int /\ Bytes(call.slot, Wanted) <= SectorSize
  BY AtTurn
<1>2. /\ cache' \in [Entries -> EntryRecords] /\ CacheParts'
      /\ cache'[e].data \in [1..SectorSize -> Byte \cup {-1}]
  BY <1>1, StoredCache DEF IInv
<1>3. call' \in CallRecords /\ call'.at = "loop" /\ call'.slot = call.slot
  BY <1>1, <1>2, CopiedType DEF IInv
<1>4. TypeOK'
  BY <1>1, <1>2, <1>3 DEF IInv, TypeOK, Reader
<1> QED
  BY <1>2, <1>3, <1>4, NoBlock DEF IInv

LEMMA MissOneKeepsInv ==
    ASSUME IInv, MissOne
    PROVE  IInv'
<1>1. PICK e \in Victims({}) :
         /\ cache' = Stored(e, call.slot, Wanted)
         /\ call' = Copied(cache'[e].data, Bytes(call.slot, Wanted))
  BY DEF MissOne
<1>2. /\ call.at = "loop" /\ Found(call.slot, Wanted) = {} /\ e \in Entries
      /\ card' = card /\ lock' = lock /\ pool' = pool
  BY VictimsAreEntries DEF MissOne, Missed, AtLoop
<1> QED
  BY <1>1, <1>2, WantedStored

LEMMA StoreWantedKeepsInv ==
    ASSUME IInv, StoreWanted
    PROVE  IInv'
<1>1. PICK e \in Victims(call.locked) :
         /\ cache' = Stored(e, call.slot, Wanted)
         /\ call' = Copied(cache'[e].data, Bytes(call.slot, Wanted))
  BY DEF StoreWanted
<1>2. /\ call.at = "block" /\ Found(call.slot, Wanted) = {} /\ e \in Entries
      /\ card' = card /\ lock' = lock /\ pool' = pool
  BY VictimsAreEntries DEF StoreWanted, IInv, WantedIsNew
<1> QED
  BY <1>1, <1>2, WantedStored

\* Setting what is left, or what is still to be stored, of the locals.
LEMMA SetLeft ==
    ASSUME call \in CallRecords
    PROVE  LET d == [call EXCEPT !.left = 0]
           IN  d \in CallRecords /\ d.at = call.at /\ d.slot = call.slot
<1> DEFINE G == Seq(Byte \cup {-1})
           B == Nat \X Nat
           T == SUBSET Nat
           K == SUBSET Entries
           d == [call EXCEPT !.left = 0]
<1>1. CallRecords = [at : {"idle", "loop", "block", "done"}, slot : Slots \cup {0},
                     offset : Nat, asked : Nat, left : Nat, got : G, block : B,
                     todo : T, locked : K]
  BY DEF CallRecords
<1>2. d \in CallRecords /\ d.at = call.at /\ d.slot = call.slot
  <2> HIDE DEF G, B, T, K
  <2> QED
    BY <1>1
<1> QED
  BY <1>2

LEMMA SetTodo ==
    ASSUME call \in CallRecords, NEW t \in SUBSET Nat, NEW k \in SUBSET Entries
    PROVE  LET d == [call EXCEPT !.todo = t, !.locked = k]
           IN  /\ d \in CallRecords
               /\ d.at = call.at /\ d.slot = call.slot /\ d.offset = call.offset
               /\ d.todo = t
<1> DEFINE G == Seq(Byte \cup {-1})
           B == Nat \X Nat
           T == SUBSET Nat
           K == SUBSET Entries
           d == [call EXCEPT !.todo = t, !.locked = k]
<1>1. CallRecords = [at : {"idle", "loop", "block", "done"}, slot : Slots \cup {0},
                     offset : Nat, asked : Nat, left : Nat, got : G, block : B,
                     todo : T, locked : K]
  BY DEF CallRecords
<1>2. t \in T /\ k \in K
  OBVIOUS
<1>3. /\ d \in CallRecords
      /\ d.at = call.at /\ d.slot = call.slot /\ d.offset = call.offset
      /\ d.todo = t
  <2> HIDE DEF G, B, T, K
  <2> QED
    BY <1>1, <1>2
<1> QED
  BY <1>3

LEMMA SetBlock ==
    ASSUME call \in CallRecords, NEW b \in Nat \X Nat, NEW t \in SUBSET Nat
    PROVE  LET d == [call EXCEPT !.at = "block", !.block = b, !.todo = t]
           IN  /\ d \in CallRecords
               /\ d.at = "block" /\ d.slot = call.slot /\ d.offset = call.offset
               /\ d.todo = t
<1> DEFINE G == Seq(Byte \cup {-1})
           B == Nat \X Nat
           T == SUBSET Nat
           K == SUBSET Entries
           d == [call EXCEPT !.at = "block", !.block = b, !.todo = t]
<1>1. CallRecords = [at : {"idle", "loop", "block", "done"}, slot : Slots \cup {0},
                     offset : Nat, asked : Nat, left : Nat, got : G, block : B,
                     todo : T, locked : K]
  BY DEF CallRecords
<1>2. t \in T /\ b \in B
  OBVIOUS
<1>3. /\ d \in CallRecords
      /\ d.at = "block" /\ d.slot = call.slot /\ d.offset = call.offset
      /\ d.todo = t
  <2> HIDE DEF G, B, T, K
  <2> QED
    BY <1>1, <1>2
<1> QED
  BY <1>3

LEMMA MissOneFailsKeepsInv ==
    ASSUME IInv, MissOneFails
    PROVE  IInv'
<1>1. /\ call.at = "loop" /\ call' = [call EXCEPT !.left = 0]
      /\ pool' = [pool EXCEPT ![call.slot].health = Failing(pool[call.slot])]
      /\ card' = card /\ lock' = lock
  BY DEF MissOneFails, Missed, AtLoop
<1>2. call.slot \in Slots /\ Reader(call.slot)
  BY <1>1, AtTurn
<1>3. call' \in CallRecords /\ call'.at = "loop" /\ call'.slot = call.slot
  BY <1>1, SetLeft DEF IInv, TypeOK
<1>4. /\ pool' \in [Slots -> SlotRecords]
      /\ \A x \in Slots : SameReader(x) /\ pool'[x].file = pool[x].file
  BY <1>1, <1>2, SlotHealth, FailingType DEF IInv
<1>5. CASE cache' = cache
  BY <1>1, <1>2, <1>3, <1>4, <1>5, LocalsKeepInv DEF SameReader, Reader
<1>6. CASE PartFails /\ \E e \in Victims({}) : cache' = [cache EXCEPT ![e].data = Junk]
  <2>1. PICK e \in Entries : cache' = [cache EXCEPT ![e].data = Junk]
    BY <1>6, VictimsAreEntries
  <2>2. /\ cache' \in [Entries -> EntryRecords]
        /\ \A x \in Entries :
              /\ cache'[x].valid <=> cache[x].valid
              /\ cache'[x].slot = cache[x].slot
              /\ cache'[x].sector = cache[x].sector
              /\ cache'[x].data = cache[x].data \/ cache'[x].data = Junk
    <3> DEFINE D == [1..SectorSize -> Byte \cup {-1}]
               d == [cache[e] EXCEPT !.data = Junk]
    <3>1. Junk \in D /\ cache[e] \in EntryRecords /\ cache \in [Entries -> EntryRecords]
      BY RecordTypes DEF IInv, TypeOK
    <3>2. EntryRecords = [valid : BOOLEAN, slot : Slots \cup {0}, sector : Nat,
                          data : D, used : 0..CacheSize]
      BY DEF EntryRecords
    <3>3. /\ d \in EntryRecords /\ (d.valid <=> cache[e].valid)
          /\ d.slot = cache[e].slot /\ d.sector = cache[e].sector /\ d.data = Junk
      <4> HIDE DEF D
      <4> QED
        BY <3>1, <3>2
    <3>4. cache' = [cache EXCEPT ![e] = d]
      BY <2>1, <3>1
    <3> HIDE DEF d, D
    <3>5. /\ cache' \in [Entries -> EntryRecords] /\ cache'[e] = d
          /\ \A x \in Entries \ {e} : cache'[x] = cache[x]
      BY <3>1, <3>3, <3>4
    <3> QED
      BY <3>3, <3>5
  <2>3. CacheParts'
    BY <1>4, <1>6, <2>2
    DEF IInv, CacheParts, CacheCoherent, NoDuplicates, SameReader, Reader
  <2>4. TypeOK'
    BY <1>1, <1>2, <1>3, <1>4, <2>2, KeptFiles DEF IInv, TypeOK
  <2> QED
    BY <1>3, <2>3, <2>4, NoBlock DEF IInv
<1> QED
  BY <1>5, <1>6 DEF MissOneFails

\* The first sector of a block, and the first behind it.
LEMMA BlockType ==
    ASSUME NEW w \in Nat, NEW a \in Nat \ {0}, NEW l \in Nat
    PROVE  LET base == w - (w % a)
           IN  base \in Nat /\ Least(base + a, (l + SectorSize - 1) \div SectorSize) \in Nat
<1>1. w % a \in Int /\ w % a <= w
  BY Division
<1>2. SectorSize \in Nat \ {0} /\ l + SectorSize - 1 \in Nat
  BY SectorCacheAssumption
<1>3. (l + SectorSize - 1) \div SectorSize \in Nat
  BY <1>2, Division
<1> QED
  BY <1>1, <1>3 DEF Least

LEMMA MissBlockKeepsInv ==
    ASSUME IInv, MissBlock
    PROVE  IInv'
<1> DEFINE s == call.slot
           base == Wanted - (Wanted % pool[s].ahead)
           inFile == (Len(pool[s].bytes) + SectorSize - 1) \div SectorSize
           end == Least(base + pool[s].ahead, inFile)
           todo == (base..end - 1) \ {Wanted}
<1>1. /\ call.at = "loop" /\ Found(s, Wanted) = {}
      /\ cache' = cache /\ card' = card /\ lock' = lock
  BY DEF MissBlock, Missed, AtLoop
<1>2. s \in Slots /\ Reader(s) /\ Wanted \in Nat /\ call \in CallRecords
  BY <1>1, AtTurn DEF IInv, TypeOK
<1>3. CASE /\ call' = [call EXCEPT !.at = "block", !.block = <<base, end>>, !.todo = todo]
           /\ pool' = pool
  <2>1. pool[s].ahead \in Nat \ {0} /\ Len(pool[s].bytes) \in Nat
    <3>1. pool[s] \in SlotRecords
      BY <1>2 DEF IInv, TypeOK
    <3>2. pool[s].ahead \in 1..AheadMax /\ pool[s].bytes \in Contents
      BY <3>1 DEF SlotRecords
    <3> QED
      BY <3>2, SectorCacheAssumption DEF Contents
  <2>2. base \in Nat /\ end \in Nat
    BY <1>2, <2>1, BlockType
  <2>3. <<base, end>> \in Nat \X Nat /\ todo \in SUBSET Nat /\ Wanted \notin todo
    BY <2>2
  <2>4. /\ call' \in CallRecords /\ call'.at = "block" /\ call'.slot = s
        /\ call'.offset = call.offset /\ call'.todo = todo
    <3> HIDE DEF base, end, todo
    <3> QED
      BY <1>2, <1>3, <2>3, SetBlock, ZenonT(40)
  <2>5. TypeOK'
    BY <1>1, <1>2, <1>3, <2>4 DEF IInv, TypeOK, Reader
  <2>6. CacheParts'
    BY <1>1, <1>3, KeptCache DEF IInv, SameReader
  <2>7. WantedIsNew'
    BY <1>1, <2>3, <2>4, ZenonT(40) DEF WantedIsNew, Wanted, Found
  <2> QED
    BY <2>5, <2>6, <2>7 DEF IInv
<1>4. CASE /\ pool' = [pool EXCEPT ![s].health = Failing(pool[s])]
           /\ call' = [call EXCEPT !.left = 0]
  <2>1. call' \in CallRecords /\ call'.at = "loop" /\ call'.slot = s
    BY <1>1, <1>2, <1>4, SetLeft
  <2>2. /\ pool' \in [Slots -> SlotRecords]
        /\ \A x \in Slots : SameReader(x) /\ pool'[x].file = pool[x].file
    BY <1>2, <1>4, SlotHealth, FailingType DEF IInv
  <2> QED
    BY <1>1, <1>2, <2>1, <2>2, LocalsKeepInv DEF SameReader, Reader
<1> QED
  BY <1>3, <1>4 DEF MissBlock

LEMMA StoreAheadKeepsInv ==
    ASSUME IInv, StoreAhead
    PROVE  IInv'
<1>1. PICK n \in call.todo : \E e \in Entries :
         /\ call' = [call EXCEPT !.todo = @ \ {n}, !.locked = @ \cup {e}]
         /\ \/ cache' = cache
            \/ Found(call.slot, n) = {} /\ cache' = Stored(e, call.slot, n)
  BY VictimsAreEntries DEF StoreAhead, Found
<1>2. PICK e \in Entries :
         /\ call' = [call EXCEPT !.todo = @ \ {n}, !.locked = @ \cup {e}]
         /\ \/ cache' = cache
            \/ Found(call.slot, n) = {} /\ cache' = Stored(e, call.slot, n)
  BY <1>1
<1>3. /\ call.at = "block" /\ call \in CallRecords /\ n \in Nat /\ n # Wanted
      /\ card' = card /\ lock' = lock /\ pool' = pool
      /\ Found(call.slot, Wanted) = {} /\ Wanted \notin call.todo
  BY DEF StoreAhead, IInv, TypeOK, CallRecords, WantedIsNew
<1>4. call.slot \in Slots /\ Reader(call.slot) /\ Wanted \in Nat
  BY <1>3, AtTurn
<1>5. /\ call' \in CallRecords /\ call'.at = "block" /\ call'.slot = call.slot
      /\ call'.offset = call.offset /\ call'.todo = call.todo \ {n}
  <2>1. call.todo \ {n} \in SUBSET Nat /\ call.locked \cup {e} \in SUBSET Entries
    BY <1>3 DEF CallRecords
  <2>2. call' = [call EXCEPT !.todo = call.todo \ {n}, !.locked = call.locked \cup {e}]
    BY <1>2
  <2> QED
    BY <1>3, <2>1, <2>2, SetTodo, ZenonT(40)
<1>6. /\ cache' \in [Entries -> EntryRecords] /\ CacheParts'
      /\ Found(call.slot, Wanted)' = {}
  <2>1. CASE cache' = cache
    BY <1>3, <1>5, <2>1, KeptCache DEF IInv, SameReader, Found, Wanted
  <2>2. CASE Found(call.slot, n) = {} /\ cache' = Stored(e, call.slot, n)
    <3>1. PICK s \in Slots : s = call.slot
      BY <1>4
    <3>2. PICK w \in Nat : w = Wanted
      BY <1>4
    <3>3. /\ cache' \in [Entries -> EntryRecords] /\ CacheParts'
          /\ \A m \in Nat : m # n /\ Found(s, m) = {} => Found(s, m)' = {}
      BY <1>3, <1>4, <2>2, <3>1, StoredCache DEF IInv
    <3>4. Found(s, w)' = {}
      BY <1>3, <3>1, <3>2, <3>3
    <3>5. w = Wanted'
      BY <1>5, <3>2 DEF Wanted
    <3> QED
      BY <1>5, <3>1, <3>3, <3>4, <3>5 DEF Found
  <2> QED
    BY <1>2, <2>1, <2>2
<1>7. TypeOK'
  BY <1>3, <1>4, <1>5, <1>6 DEF IInv, TypeOK, Reader
<1>8. WantedIsNew'
  BY <1>3, <1>5, <1>6 DEF WantedIsNew, Wanted
<1> QED
  BY <1>6, <1>7, <1>8 DEF IInv

LEMMA EndReadKeepsInv ==
    ASSUME IInv, EndRead
    PROVE  IInv'
<1> DEFINE G == Seq(Byte \cup {-1})
           B == Nat \X Nat
           T == SUBSET Nat
           K == SUBSET Entries
           asked == call.asked
           got == call.got
           d == [Idle EXCEPT !.at = "done", !.asked = asked, !.got = got]
<1>1. /\ call.at = "loop" /\ cache' = cache /\ card' = card /\ lock' = lock
      /\ pool' = [pool EXCEPT ![call.slot].pos = call.offset]
      /\ call' = d
  BY DEF EndRead
<1>2. call.slot \in Slots
  BY <1>1, AtTurn
<1>3. call.offset \in Nat /\ asked \in Nat /\ got \in G /\ Idle \in CallRecords
  BY RecordTypes DEF IInv, TypeOK, CallRecords
<1>4. CallRecords = [at : {"idle", "loop", "block", "done"}, slot : Slots \cup {0},
                     offset : Nat, asked : Nat, left : Nat, got : G, block : B,
                     todo : T, locked : K]
  BY DEF CallRecords
<1>5. d \in CallRecords /\ d.at = "done"
  <2> HIDE DEF G, B, T, K, asked, got
  <2> QED
    BY <1>3, <1>4
<1> HIDE DEF d
<1>6. /\ pool' \in [Slots -> SlotRecords]
      /\ \A x \in Slots : SameReader(x) /\ pool'[x].file = pool[x].file
  BY <1>1, <1>2, <1>3, SlotPlace DEF IInv
<1> QED
  BY <1>1, <1>5, <1>6, LocalsKeepInv

LEMMA ReturnKeepsInv ==
    ASSUME IInv, Return
    PROVE  IInv'
BY RecordTypes, SamePool, LocalsKeepInv DEF Return, Idle

----------------------------------------------------------------------------
(* The locks.                                                              *)

\* What a live handle writes is a file.
WriterHasFile ==
    \A s \in Slots :
        pool[s].inUse /\ Live(pool[s]) /\ pool[s].mode # "read" => card[pool[s].file] # Absent

LockInv == LocksMatchSlots /\ WriterHasFile

LEMMA HoldersFinite ==
    ASSUME NEW f
    PROVE  IsFiniteSet(Holders(f)) /\ Cardinality(Holders(f)) \in Nat
<1>1. Holders(f) \subseteq Slots
  BY DEF Holders
<1> QED
  BY <1>1, SectorCacheAssumption, FS_Subset, FS_CardinalityType

\* A file that nobody holds to write has the number of its holders as its lock, and
\* one that somebody holds to write has no other holder.
LEMMA LockCases ==
    ASSUME LocksMatchSlots, NEW f \in Files
    PROVE  /\ lock[f] >= 0 =>
                /\ \A s \in Holders(f) : pool[s].mode = "read"
                /\ lock[f] = Cardinality(Holders(f))
           /\ lock[f] = 0 => Holders(f) = {}
           /\ \A s \in Holders(f) : pool[s].mode # "read" =>
                lock[f] = -1 /\ Holders(f) = {s}
           /\ \A s \in Holders(f) : pool[s].mode = "read" =>
                lock[f] > 0 /\ lock[f] = Cardinality(Holders(f))
<1>1. IsFiniteSet(Holders(f)) /\ Cardinality(Holders(f)) \in Nat
  BY HoldersFinite
<1>2. Cardinality(Holders(f)) = 0 <=> Holders(f) = {}
  BY <1>1, FS_EmptySet
<1>3. Cardinality(Holders(f)) = 1 => \A s, t \in Holders(f) : s = t
  BY <1>1, FS_Singleton
<1>4. CASE \E s \in Holders(f) : pool[s].mode # "read"
  <2>1. lock[f] = -1 /\ Cardinality(Holders(f)) = 1
    BY <1>4 DEF LocksMatchSlots
  <2> QED
    BY <1>3, <1>4, <2>1
<1>5. CASE ~\E s \in Holders(f) : pool[s].mode # "read"
  <2>1. lock[f] = Cardinality(Holders(f))
    BY <1>5 DEF LocksMatchSlots
  <2> QED
    BY <1>1, <1>2, <1>5, <2>1
<1> QED
  BY <1>4, <1>5

\* A step that keeps the slots' files and the locks keeps the invariant, if no file
\* that is written goes away.
LEMMA KeptHolders ==
    ASSUME LockInv, lock' = lock,
           \A s \in Slots :
              /\ pool'[s].inUse <=> pool[s].inUse
              /\ Live(pool'[s]) <=> Live(pool[s])
              /\ pool'[s].mode = pool[s].mode /\ pool'[s].file = pool[s].file,
           \A s \in Slots :
              /\ pool[s].inUse /\ Live(pool[s]) /\ pool[s].mode # "read"
              /\ card[pool[s].file] # Absent
              => card'[pool[s].file] # Absent
    PROVE  LockInv'
<1>1. \A f \in Files : Holders(f)' = Holders(f)
  BY DEF Holders
<1>2. LocksMatchSlots'
  <2>1. ASSUME NEW f \in Files
        PROVE  IF \E s \in Holders(f)' : pool'[s].mode # "read"
               THEN lock'[f] = -1 /\ Cardinality(Holders(f)') = 1
               ELSE lock'[f] = Cardinality(Holders(f)')
    <3>1. Holders(f)' = Holders(f) /\ Holders(f) \subseteq Slots
      BY <1>1 DEF Holders
    <3>2. (\E s \in Holders(f)' : pool'[s].mode # "read") <=>
             (\E s \in Holders(f) : pool[s].mode # "read")
      BY <3>1
    <3> QED
      BY <3>1, <3>2 DEF LockInv, LocksMatchSlots
  <2> QED
    BY <2>1 DEF LocksMatchSlots
<1>3. WriterHasFile'
  BY DEF LockInv, WriterHasFile
<1> QED
  BY <1>2, <1>3 DEF LockInv

LEMMA OpenFileKeepsLocks ==
    ASSUME IInv, LockInv, NEW s \in Slots, NEW f \in Files, NEW mode \in Modes,
           OpenFile(s, f, mode)
    PROVE  LockInv'
<1>1. /\ ~pool[s].inUse
      /\ \A x \in Slots \ {s} : pool'[x] = pool[x]
      /\ pool'[s] = Opened(f, mode, card'[f], mode = "create" \/ card[f] = Absent)
      /\ lock' = [lock EXCEPT ![f] = IF mode = "read" THEN lock[f] + 1 ELSE -1]
      /\ lock \in [Files -> Int]
  BY DEF OpenFile, Taken, IInv, TypeOK
<1>2. pool'[s].inUse /\ Live(pool'[s]) /\ pool'[s].file = f /\ pool'[s].mode = mode
  BY <1>1 DEF Opened, Live
<1>3. /\ Holders(f)' = Holders(f) \cup {s} /\ s \notin Holders(f)
      /\ \A g \in Files \ {f} : Holders(g)' = Holders(g)
      /\ \A g \in Files : Holders(g) \subseteq Slots \ {s}
  BY <1>1, <1>2 DEF Holders
<1>4. ASSUME NEW g \in Files \ {f}
      PROVE  IF \E x \in Holders(g)' : pool'[x].mode # "read"
             THEN lock'[g] = -1 /\ Cardinality(Holders(g)') = 1
             ELSE lock'[g] = Cardinality(Holders(g)')
  <2>1. lock'[g] = lock[g] /\ Holders(g)' = Holders(g)
    BY <1>1, <1>3
  <2>2. (\E x \in Holders(g)' : pool'[x].mode # "read") <=>
           (\E x \in Holders(g) : pool[x].mode # "read")
    BY <1>1, <1>3, <2>1
  <2> QED
    BY <2>1, <2>2 DEF LockInv, LocksMatchSlots
<1>5. IF \E x \in Holders(f)' : pool'[x].mode # "read"
      THEN lock'[f] = -1 /\ Cardinality(Holders(f)') = 1
      ELSE lock'[f] = Cardinality(Holders(f)')
  <2>1. CASE mode = "read"
    <3>1. /\ \A x \in Holders(f) : pool[x].mode = "read"
          /\ lock[f] = Cardinality(Holders(f))
      BY <2>1, LockCases DEF OpenFile, Shared, LockInv
    <3>2. \A x \in Holders(f)' : pool'[x].mode = "read"
      BY <1>1, <1>2, <1>3, <2>1, <3>1
    <3>3. Cardinality(Holders(f)') = Cardinality(Holders(f)) + 1
      BY <1>3, HoldersFinite, FS_AddElement
    <3> QED
      BY <1>1, <2>1, <3>1, <3>2, <3>3
  <2>2. CASE mode # "read"
    <3>1. Holders(f) = {}
      BY <2>2, LockCases DEF OpenFile, Shared, LockInv
    <3>2. Holders(f)' = {s}
      BY <1>3, <3>1
    <3>3. Cardinality({s}) = 1
      BY FS_Singleton
    <3>4. lock'[f] = -1 /\ \E x \in Holders(f)' : pool'[x].mode # "read"
      BY <1>1, <1>2, <2>2, <3>2
    <3> QED
      BY <3>2, <3>3, <3>4
  <2> QED
    BY <2>1, <2>2
<1>6. LocksMatchSlots'
  BY <1>4, <1>5 DEF LocksMatchSlots
<1>7. WriterHasFile'
  <2>1. /\ \A g \in Files \ {f} : card'[g] = card[g]
        /\ mode # "read" => card'[f] # Absent
    <3>0. <<>> \in Contents
      BY DEF Contents
    <3>1. <<>> # Absent /\ card \in [Files -> Contents \cup {Absent}]
      BY <3>0, SectorCacheAssumption DEF IInv, TypeOK
    <3>2. \/ card' = [card EXCEPT ![f] = <<>>]
          \/ card[f] # Absent /\ card' = card
      BY DEF OpenFile
    <3> QED
      BY <3>1, <3>2
  <2>2. ASSUME NEW x \in Slots, pool'[x].inUse, Live(pool'[x]), pool'[x].mode # "read"
        PROVE  card'[pool'[x].file] # Absent
    <3>1. CASE x = s
      BY <1>2, <2>1, <2>2, <3>1
    <3>2. CASE x # s
      <4>1. pool'[x] = pool[x] /\ pool[x].file \in Files
        BY <1>1, <2>2, <3>2 DEF IInv, TypeOK
      <4>2. pool[x].file # f
        <5>1. SUFFICES ASSUME pool[x].file = f PROVE FALSE
          OBVIOUS
        <5>2. x \in Holders(f) /\ pool[x].mode # "read"
          BY <2>2, <4>1, <5>1 DEF Holders
        <5>3. lock[f] = -1
          BY <5>2, LockCases DEF LockInv
        <5> QED
          BY <5>3 DEF OpenFile, Shared
      <4> QED
        BY <2>1, <2>2, <4>1, <4>2 DEF LockInv, WriterHasFile
    <3> QED
      BY <3>1, <3>2
  <2> QED
    BY <2>2 DEF WriterHasFile
<1> QED
  BY <1>6, <1>7 DEF LockInv

LEMMA CloseKeepsLocks ==
    ASSUME IInv, LockInv, NEW s \in Slots, Close(s)
    PROVE  LockInv'
<1>1. /\ pool[s].inUse /\ card' = card /\ pool[s].file \in Files
      /\ \A x \in Slots \ {s} : pool'[x] = pool[x]
      /\ ~pool'[s].inUse /\ lock \in [Files -> Int]
  BY DEF Close, Free, IInv, TypeOK
<1>2. \A g \in Files : Holders(g)' = Holders(g) \ {s} /\ Holders(g) \subseteq Slots
  BY <1>1 DEF Holders
<1>3. ASSUME NEW g \in Files, s \notin Holders(g)
      PROVE  IF \E x \in Holders(g)' : pool'[x].mode # "read"
             THEN lock'[g] = -1 /\ Cardinality(Holders(g)') = 1
             ELSE lock'[g] = Cardinality(Holders(g)')
  <2>1. Holders(g)' = Holders(g)
    BY <1>2, <1>3
  <2>2. lock'[g] = lock[g]
    BY <1>1, <1>3 DEF Close, Given, Holders
  <2>3. (\E x \in Holders(g)' : pool'[x].mode # "read") <=>
           (\E x \in Holders(g) : pool[x].mode # "read")
    BY <1>1, <1>2, <1>3, <2>1
  <2> QED
    BY <2>1, <2>2, <2>3 DEF LockInv, LocksMatchSlots
<1>4. ASSUME NEW g \in Files, s \in Holders(g)
      PROVE  IF \E x \in Holders(g)' : pool'[x].mode # "read"
             THEN lock'[g] = -1 /\ Cardinality(Holders(g)') = 1
             ELSE lock'[g] = Cardinality(Holders(g)')
  <2>1. lock'[g] = IF lock[g] > 0 THEN lock[g] - 1 ELSE 0
    BY <1>1, <1>4 DEF Close, Given, Holders
  <2>2. Holders(g)' = Holders(g) \ {s} /\ IsFiniteSet(Holders(g))
        /\ Cardinality(Holders(g)') = Cardinality(Holders(g)) - 1
    BY <1>2, <1>4, HoldersFinite, FS_RemoveElement
  <2>3. CASE pool[s].mode # "read"
    <3>1. lock[g] = -1 /\ Holders(g) = {s}
      BY <1>4, <2>3, LockCases DEF LockInv
    <3>2. Holders(g)' = {} /\ Cardinality(Holders(g)') = 0
      BY <2>2, <3>1, FS_EmptySet
    <3> QED
      BY <2>1, <3>1, <3>2
  <2>4. CASE pool[s].mode = "read"
    <3>1. /\ lock[g] > 0 /\ lock[g] = Cardinality(Holders(g))
          /\ \A x \in Holders(g) : pool[x].mode = "read"
      BY <1>1, <1>4, <2>4, LockCases DEF LockInv
    <3>2. \A x \in Holders(g)' : pool'[x].mode = "read"
      BY <1>1, <1>2, <2>2, <3>1
    <3> QED
      BY <1>1, <2>1, <2>2, <3>1, <3>2
  <2> QED
    BY <2>3, <2>4
<1>5. LocksMatchSlots'
  BY <1>3, <1>4 DEF LocksMatchSlots
<1>6. WriterHasFile'
  BY <1>1 DEF LockInv, WriterHasFile
<1> QED
  BY <1>5, <1>6 DEF LockInv

\* A call that leaves the card alone, and of the slots changes no more than one
\* slot's dirty mark, place, read-ahead or, from ok to failed, health.
LEMMA SameHolders ==
    ASSUME IInv, LockInv, NEW s \in Slots, card' = card, lock' = lock,
           \/ pool' = pool
           \/ pool' = [pool EXCEPT ![s].dirty = pool'[s].dirty]
           \/ pool' = [pool EXCEPT ![s].ahead = pool'[s].ahead]
           \/ pool' = [pool EXCEPT ![s].pos = pool'[s].pos]
           \/ pool' = [pool EXCEPT ![s].health = Failing(pool[s])]
    PROVE  LockInv'
<1>1. pool \in [Slots -> SlotRecords]
  BY DEF IInv, TypeOK
<1>2. ASSUME NEW x \in Slots
      PROVE  /\ pool'[x].inUse <=> pool[x].inUse
             /\ Live(pool'[x]) <=> Live(pool[x])
             /\ pool'[x].mode = pool[x].mode /\ pool'[x].file = pool[x].file
  BY <1>1 DEF SlotRecords, Live, Failing
<1>3. QED
  BY <1>2, KeptHolders

LEMMA WriteKeepsLocks ==
    ASSUME IInv, LockInv, NEW s \in Slots, NEW b \in Written, Write(s, b)
    PROVE  LockInv'
<1>1. pool \in [Slots -> SlotRecords] /\ card \in [Files -> Contents \cup {Absent}]
      /\ pool[s].inUse /\ pool[s].mode # "read" /\ pool[s].file \in Files /\ lock' = lock
  BY DEF IInv, TypeOK, Write
<1>2. CASE /\ pool[s].health = "ok" /\ card' = [card EXCEPT ![pool[s].file] = Append(@, b)]
           /\ \E health \in {"ok", "failed"} :
                pool' = [pool EXCEPT ![s].dirty = TRUE, ![s].health = health]
  <2>1. ASSUME NEW x \in Slots
        PROVE  /\ pool'[x].inUse <=> pool[x].inUse
               /\ Live(pool'[x]) <=> Live(pool[x])
               /\ pool'[x].mode = pool[x].mode /\ pool'[x].file = pool[x].file
    BY <1>1, <1>2 DEF SlotRecords, Live
  <2>2. card[pool[s].file] # Absent
    BY <1>1, <1>2 DEF LockInv, WriterHasFile, Live
  <2>3. card[pool[s].file] \in Contents /\ b \in Byte
    BY <1>1, <2>2, SectorCacheAssumption
  <2>4. Append(card[pool[s].file], b) \in Contents
    BY <2>3 DEF Contents
  <2>5. card'[pool[s].file] # Absent
    BY <1>1, <1>2, <2>4, SectorCacheAssumption
  <2>6. \A x \in Slots : card[pool[x].file] # Absent => card'[pool[x].file] # Absent
    BY <1>1, <1>2, <2>5
  <2> QED
    BY <1>1, <2>1, <2>6, KeptHolders
<1>3. CASE pool' = [pool EXCEPT ![s].health = Failing(pool[s])] /\ card' = card
  BY <1>1, <1>3, SameHolders
<1> QED
  BY <1>2, <1>3 DEF Write

LEMMA ReplaceKeepsLocks ==
    ASSUME IInv, LockInv, NEW src \in Temporary, NEW dst \in Files, Replace(src, dst)
    PROVE  LockInv'
<1>1. /\ pool' = pool /\ lock' = lock /\ lock[dst] = 0 /\ src \in Files
      /\ card \in [Files -> Contents \cup {Absent}]
  BY SectorCacheAssumption DEF Replace, IInv, TypeOK
<1>2. ASSUME NEW x \in Slots, pool[x].inUse, Live(pool[x]), pool[x].mode # "read"
      PROVE  pool[x].file \in Files /\ lock[pool[x].file] = -1
  <2>1. pool[x].file \in Files
    BY <1>2 DEF IInv, TypeOK
  <2>2. x \in Holders(pool[x].file)
    BY <1>2 DEF Holders
  <2> QED
    BY <1>2, <2>1, <2>2, LockCases DEF LockInv
<1>3. ASSUME NEW x \in Slots, pool[x].inUse, Live(pool[x]), pool[x].mode # "read"
      PROVE  card'[pool[x].file] = card[pool[x].file]
  <2>1. pool[x].file # dst /\ pool[x].file \in Files
    BY <1>1, <1>2, <1>3
  <2>2. CASE lock[src] = 0 /\ card' = [card EXCEPT ![dst] = card[src], ![src] = Absent]
    BY <1>1, <1>2, <1>3, <2>1, <2>2
  <2>3. CASE card' = [card EXCEPT ![dst] = Absent]
    BY <1>1, <2>1, <2>3
  <2> QED
    BY <2>2, <2>3 DEF Replace
<1> QED
  BY <1>1, <1>3, KeptHolders

LEMMA RemountKeepsLocks ==
    ASSUME IInv, LockInv, Remount
    PROVE  LockInv'
<1>1. pool \in [Slots -> SlotRecords]
  BY DEF IInv, TypeOK
<1>2. \A s \in Slots : ~(pool'[s].inUse /\ Live(pool'[s]))
  BY <1>1 DEF Remount, Live, SlotRecords
<1>3. \A f \in Files : Holders(f)' = {} /\ lock'[f] = 0
  BY <1>2 DEF Holders, Remount
<1>4. Cardinality({}) = 0
  BY FS_EmptySet
<1>5. LocksMatchSlots'
  BY <1>3, <1>4 DEF LocksMatchSlots
<1>6. WriterHasFile'
  BY <1>2 DEF WriterHasFile
<1> QED
  BY <1>5, <1>6 DEF LockInv

LEMMA ReadingKeepsLocks ==
    ASSUME IInv, LockInv, ReadSteps
    PROVE  LockInv'
<1>1. Slots \subseteq Nat /\ (call.at \in {"loop", "block"} => call.slot \in Slots)
  BY SectorCacheAssumption DEF IInv, TypeOK
<1>2. CASE Hit \/ MissOne \/ StoreAhead \/ StoreWanted \/ Return
  <2>1. card' = card /\ lock' = lock /\ pool' = pool
    BY <1>2 DEF Hit, MissOne, StoreAhead, StoreWanted, Return
  <2> QED
    BY <2>1, KeptHolders
<1>3. CASE MissOneFails \/ MissBlock
  <2>1. /\ card' = card /\ lock' = lock /\ call.slot \in Slots
        /\ \/ pool' = pool
           \/ pool' = [pool EXCEPT ![call.slot].health = Failing(pool[call.slot])]
    BY <1>1, <1>3 DEF MissOneFails, MissBlock, Missed, AtLoop
  <2> QED
    BY <2>1, SameHolders
<1>4. CASE EndRead
  <2>1. /\ card' = card /\ lock' = lock /\ call.slot \in Slots
        /\ pool' = [pool EXCEPT ![call.slot].pos = call.offset]
    BY <1>1, <1>4 DEF EndRead
  <2>2. pool' = [pool EXCEPT ![call.slot].pos = pool'[call.slot].pos]
    BY <2>1 DEF IInv, TypeOK, SlotRecords
  <2> QED
    BY <2>1, <2>2, SameHolders
<1> QED
  BY <1>2, <1>3, <1>4 DEF ReadSteps

LEMMA QuietCallsKeepLocks ==
    ASSUME IInv, LockInv, NEW s \in Slots,
           \/ Sync(s)
           \/ \E n \in 0..AheadMax + 1 : SetReadAhead(s, n)
           \/ \E offset \in Offsets : Seek(s, offset)
           \/ \E n \in Sizes : BeginRead(s, n)
    PROVE  LockInv'
<1>1. pool \in [Slots -> SlotRecords]
  BY DEF IInv, TypeOK
<1>2. CASE Sync(s)
  <2>1. card' = card /\ lock' = lock /\ pool' = [pool EXCEPT ![s].dirty = pool'[s].dirty]
    BY <1>1, <1>2 DEF Sync, SlotRecords
  <2> QED
    BY <2>1, SameHolders
<1>3. CASE \E n \in 0..AheadMax + 1 : SetReadAhead(s, n)
  <2>1. card' = card /\ lock' = lock /\ pool' = [pool EXCEPT ![s].ahead = pool'[s].ahead]
    BY <1>1, <1>3 DEF SetReadAhead, SlotRecords
  <2> QED
    BY <2>1, SameHolders
<1>4. CASE \E offset \in Offsets : Seek(s, offset)
  <2>1. card' = card /\ lock' = lock /\ pool' = [pool EXCEPT ![s].pos = pool'[s].pos]
    BY <1>1, <1>4 DEF Seek, SlotRecords
  <2> QED
    BY <2>1, SameHolders
<1>5. CASE \E n \in Sizes : BeginRead(s, n)
  BY <1>5, KeptHolders DEF BeginRead
<1> QED
  BY <1>2, <1>3, <1>4, <1>5

----------------------------------------------------------------------------
(* The theorems.                                                           *)

Inv == IInv /\ LockInv

LEMMA InitAll == Init => Inv
<1> SUFFICES ASSUME Init PROVE LockInv
  BY InitInv DEF Inv
<1>1. \A f \in Files : Holders(f) = {} /\ lock[f] = 0
  BY DEF Init, Holders, Free
<1>2. Cardinality({}) = 0
  BY FS_EmptySet
<1> QED
  BY <1>1, <1>2 DEF Init, LockInv, LocksMatchSlots, WriterHasFile, Free

LEMMA NextAll == Inv /\ [Next]_vars => Inv'
<1> SUFFICES ASSUME IInv, LockInv, [Next]_vars PROVE Inv'
  BY DEF Inv
<1>1. ASSUME NEW s \in Slots, NEW f \in Files, NEW mode \in Modes, OpenFile(s, f, mode)
      PROVE  Inv'
  BY <1>1, OpenFileKeepsInv, OpenFileKeepsLocks DEF Inv
<1>2. ASSUME NEW s \in Slots, Close(s)
      PROVE  Inv'
  BY <1>2, CloseKeepsInv, CloseKeepsLocks DEF Inv
<1>3. ASSUME NEW s \in Slots, NEW b \in Written, Write(s, b)
      PROVE  Inv'
  <2>1. pool[s].health = "ok" => card[pool[s].file] # Absent
    BY <1>3 DEF Write, LockInv, WriterHasFile, Live
  <2> QED
    BY <1>3, <2>1, WriteKeepsInv, WriteKeepsLocks DEF Inv
<1>4. ASSUME NEW s \in Slots,
             \/ Sync(s)
             \/ \E n \in 0..AheadMax + 1 : SetReadAhead(s, n)
             \/ \E offset \in Offsets : Seek(s, offset)
      PROVE  Inv'
  <2>1. PICK n \in Nat : Sync(s) \/ SetReadAhead(s, n) \/ Seek(s, n)
    BY <1>4, SectorCacheAssumption
  <2>2. IInv'
    BY <2>1, QuietCallsKeepInv
  <2> QED
    BY <1>4, <2>2, QuietCallsKeepLocks DEF Inv
<1>5. ASSUME NEW s \in Slots, NEW n \in Sizes, BeginRead(s, n)
      PROVE  Inv'
  <2>1. n \in Nat
    BY <1>5, SectorCacheAssumption
  <2> QED
    BY <1>5, <2>1, BeginReadKeepsInv, QuietCallsKeepLocks DEF Inv
<1>6. ASSUME NEW src \in Temporary, NEW dst \in Files, Replace(src, dst)
      PROVE  Inv'
  <2>1. src \in Files
    BY <1>6, SectorCacheAssumption
  <2> QED
    BY <1>6, <2>1, ReplaceKeepsInv, ReplaceKeepsLocks DEF Inv
<1>7. CASE Remount
  BY <1>7, RemountKeepsInv, RemountKeepsLocks DEF Inv
<1>8. CASE ReadSteps
  <2>1. IInv'
    BY <1>8, HitKeepsInv, MissOneKeepsInv, MissOneFailsKeepsInv, MissBlockKeepsInv,
       StoreAheadKeepsInv, StoreWantedKeepsInv, EndReadKeepsInv, ReturnKeepsInv DEF ReadSteps
  <2> QED
    BY <1>8, <2>1, ReadingKeepsLocks DEF Inv
<1>9. CASE UNCHANGED vars
  BY <1>9 DEF vars, Inv, IInv, LockInv, TypeOK, CacheParts, CacheCoherent, NoDuplicates,
     WantedIsNew, LocksMatchSlots, WriterHasFile, Holders, Reader, Wanted, Found, Live
<1> QED
  BY <1>1, <1>2, <1>3, <1>4, <1>5, <1>6, <1>7, <1>8, <1>9 DEF Next

\* Every reachable state is well-typed: the place in a file is a natural number, a
\* slot's read-ahead is one the cache has room for, and a read under way has a slot
\* that is open to read.
THEOREM TypeCorrect == Spec => []TypeOK
<1>1. Inv => TypeOK
  BY DEF Inv, IInv
<1> QED
  BY <1>1, InitAll, NextAll, PTL DEF Spec

\* Nothing of an earlier file, of another slot or of an earlier version of the file
\* can be found in the cache (invalidate_cache_for_file in open, write and close).
THEOREM Coherent == Spec => []CacheCoherent
<1>1. Inv => CacheCoherent
  BY DEF Inv, IInv, CacheParts
<1> QED
  BY <1>1, InitAll, NextAll, PTL DEF Spec

\* No sector of a file has two entries (lru_find before lru_victim in
\* read_block_cached).
THEOREM OneEntryEach == Spec => []NoDuplicates
<1>1. Inv => NoDuplicates
  BY DEF Inv, IInv, CacheParts
<1> QED
  BY <1>1, InitAll, NextAll, PTL DEF Spec

\* No lock is left behind by a close that failed or by a mount (the second f_close
\* in purrgo_fs_close).
THEOREM LocksMatch == Spec => []LocksMatchSlots
<1>1. Inv => LocksMatchSlots
  BY DEF Inv, LockInv
<1> QED
  BY <1>1, InitAll, NextAll, PTL DEF Spec

----------------------------------------------------------------------------
(* The read under way.                                                     *)

\* The sectors of the block that are stored already have the entries that are locked.
BlockSoFar ==
    /\ call.at = "loop" /\ call.left > 0 => call.locked = {}
    /\ call.at = "block" =>
        /\ call.left > 0
        /\ \A n \in call.block[1]..call.block[2] - 1 :
            n \in call.todo \/ n = Wanted \/
            \E e \in call.locked : /\ cache[e].valid /\ cache[e].slot = call.slot
                                   /\ cache[e].sector = n

\* A read has got what lies between the place of its slot and its own, and what is
\* left for it to get is what was asked for or what the file has, if the disk is well.
ReadSoFar ==
    LET v == pool[call.slot]
    IN  call.at \in {"loop", "block"} =>
        /\ call.asked > 0
        /\ call.offset = v.pos + Len(call.got)
        /\ call.offset + call.left <= Len(v.bytes)
        /\ call.got = SubSeq(v.bytes, v.pos + 1, call.offset)
        /\ \/ v.health # "ok"
           \/ Len(call.got) + call.left = call.asked
           \/ call.offset + call.left = Len(v.bytes)

\* Where in its sector the loop is, and how much of it a turn copies.
Within == call.offset % SectorSize

Chunk(valid) == Least(Least(SectorSize - Within, call.left), valid - Within)

LeftAfter(valid) == IF valid < SectorSize THEN 0 ELSE call.left - Chunk(valid)

\* What a turn of the loop leaves in the locals, field by field.
LEMMA CopiedFields ==
    ASSUME call \in CallRecords, NEW data, NEW valid
    PROVE  /\ Copied(data, valid).at = "loop" /\ Copied(data, valid).slot = call.slot
           /\ Copied(data, valid).left = 0 \/ Copied(data, valid).locked = {}
           /\ ~ (valid <= Within) =>
                /\ Copied(data, valid).asked = call.asked
                /\ Copied(data, valid).left = LeftAfter(valid)
                /\ Copied(data, valid).offset = call.offset + Chunk(valid)
                /\ Copied(data, valid).got =
                      call.got \o SubSeq(data, Within + 1, Within + Chunk(valid))
<1> DEFINE from == Within
           chunk == Chunk(valid)
           c == Copied(data, valid)
           left == LeftAfter(valid)
           got == call.got \o SubSeq(data, from + 1, from + chunk)
           offset == call.offset + chunk
           G == Seq(Byte \cup {-1})
           B == Nat \X Nat
           T == SUBSET Nat
           K == SUBSET Entries
<1>1. CallRecords = [at : {"idle", "loop", "block", "done"}, slot : Slots \cup {0},
                     offset : Nat, asked : Nat, left : Nat, got : G, block : B,
                     todo : T, locked : K]
  BY DEF CallRecords
<1>2. /\ valid <= from => Copied(data, valid) = [call EXCEPT !.at = "loop", !.left = 0]
      /\ ~ (valid <= from) =>
            Copied(data, valid) =
               [call EXCEPT !.at = "loop", !.left = left, !.offset = offset,
                            !.got = got, !.block = <<0, 0>>, !.locked = {}]
  BY DEF Copied, Within, Chunk, LeftAfter
<1>3. /\ c.at = "loop" /\ c.slot = call.slot /\ (c.left = 0 \/ c.locked = {})
      /\ ~ (valid <= from) =>
           c.asked = call.asked /\ c.left = left /\ c.offset = offset /\ c.got = got
  <2> HIDE DEF from, chunk, left, got, offset, c, G, B, T, K
  <2>1. CASE valid <= from
    BY <1>1, <1>2, <2>1 DEF c
  <2>2. CASE ~ (valid <= from)
    BY <1>1, <1>2, <2>2 DEF c
  <2> QED
    BY <2>1, <2>2
<1> QED
  BY <1>3

\* The k elements of s behind its place m.
LEMMA Piece ==
    ASSUME NEW s, NEW m \in Nat, NEW k \in Nat, \A i \in m + 1..m + k : s[i] \in Nat
    PROVE  /\ SubSeq(s, m + 1, m + k) \in Seq(Nat)
           /\ Len(SubSeq(s, m + 1, m + k)) = k
           /\ \A i \in 1..k : SubSeq(s, m + 1, m + k)[i] = s[m + i]
<1> DEFINE lo == m + 1
           hi == m + k
           t == SubSeq(s, lo, hi)
<1>1. lo \in Int /\ hi \in Int /\ hi - lo + 1 = k /\ (lo <= hi <=> k >= 1)
  OBVIOUS
<1>2. \A i \in 1..k : lo + i - 1 = m + i
  OBVIOUS
<1>3. \A i \in lo..hi : s[i] \in Nat
  OBVIOUS
<1>4. t \in Seq(Nat) /\ Len(t) = k /\ \A i \in 1..k : t[i] = s[m + i]
  <2> HIDE DEF lo, hi
  <2>1. /\ t \in Seq(Nat)
        /\ Len(t) = IF lo <= hi THEN hi - lo + 1 ELSE 0
        /\ \A i \in 1..hi - lo + 1 : t[i] = s[lo + i - 1]
    BY <1>1, <1>3, SubSeqProperties
  <2> HIDE DEF t
  <2>2. Len(t) = k
    BY <1>1, <2>1
  <2>3. ASSUME NEW i \in 1..k PROVE t[i] = s[m + i]
    <3>1. t[i] = s[lo + i - 1] /\ lo + i - 1 = m + i
      BY <1>1, <1>2, <2>1
    <3> QED
      BY <3>1
  <2> QED
    BY <2>1, <2>2, <2>3
<1> QED
  BY <1>4

\* The k bytes at a place of sector n are the k bytes of b behind off.
Inside(b, n, from, k, off) ==
    from + k <= SectorSize /\ off = n * SectorSize + from /\ off + k <= Len(b)

\* The piece of its sector at a place of the file is the file's.
LEMMA PieceOfSector ==
    ASSUME NEW b \in Contents, NEW n \in Nat, NEW from \in Nat, NEW k \in Nat,
           NEW off \in Nat, Inside(b, n, from, k, off)
    PROVE  SubSeq(Sector(b, n), from + 1, from + k) = SubSeq(b, off + 1, off + k)
<1> DEFINE p == n * SectorSize
           d == Sector(b, n)
           l == SubSeq(d, from + 1, from + k)
           r == SubSeq(b, off + 1, off + k)
<1>1. /\ SectorSize \in Nat /\ p \in Nat /\ off = p + from
      /\ b \in Seq(Nat) /\ Len(b) \in Nat
  BY SectorCacheAssumption DEF Contents, Byte, Inside
<1>2. \A i \in 1..SectorSize : d[i] = IF p + i <= Len(b) THEN b[p + i] ELSE 0
  BY DEF Sector
<1>3. from + k <= SectorSize /\ p + from + k <= Len(b)
  BY <1>1 DEF Inside
<1> HIDE DEF p, d
<1>4. \A i \in from + 1..from + k : d[i] = b[p + i] /\ d[i] \in Nat
  <2>1. SUFFICES ASSUME NEW i \in from + 1..from + k
                 PROVE  d[i] = b[p + i] /\ d[i] \in Nat
    OBVIOUS
  <2>2. i \in 1..SectorSize /\ p + i <= Len(b) /\ p + i \in 1..Len(b)
    BY <1>1, <1>3, <2>1
  <2> QED
    BY <1>1, <1>2, <2>2
<1>5. \A i \in off + 1..off + k : b[i] \in Nat
  BY <1>1, <1>3
<1>6. l \in Seq(Nat) /\ Len(l) = k /\ \A i \in 1..k : l[i] = d[from + i]
  BY <1>4, Piece
<1>7. r \in Seq(Nat) /\ Len(r) = k /\ \A i \in 1..k : r[i] = b[off + i]
  BY <1>1, <1>5, Piece
<1> HIDE DEF l, r
<1>8. \A i \in 1..k : l[i] = r[i]
  <2>1. SUFFICES ASSUME NEW i \in 1..k PROVE l[i] = r[i]
    OBVIOUS
  <2>2. l[i] = d[from + i] /\ r[i] = b[off + i]
    BY <1>6, <1>7
  <2>3. d[from + i] = b[p + (from + i)]
    BY <1>4
  <2> QED
    BY <1>1, <2>2, <2>3
<1>9. l = r
  BY <1>6, <1>7, <1>8
<1> QED
  BY <1>9 DEF l, r, d, p

\* Two pieces of a file that lie one behind the other.
LEMMA Joined ==
    ASSUME NEW b \in Contents, NEW i \in Nat, NEW j \in Nat, NEW k \in Nat,
           i <= j, j + k <= Len(b)
    PROVE  /\ SubSeq(b, i + 1, j) \o SubSeq(b, j + 1, j + k) = SubSeq(b, i + 1, j + k)
           /\ Len(SubSeq(b, i + 1, j)) = j - i
<1>1. b \in Seq(Nat) /\ Len(b) \in Nat
  BY DEF Contents, Byte
<1>2. i + 1 \in 1..Len(b) + 1 /\ j \in (i + 1) - 1..Len(b) /\ j + k \in j..Len(b)
  BY <1>1
<1>3. SubSeq(b, i + 1, j) \o SubSeq(b, j + 1, j + k) = SubSeq(b, i + 1, j + k)
  BY <1>1, <1>2, ConcatAdjacentSubSeq
<1>4. Len(SubSeq(b, i + 1, j)) = j - i
  <2>1. PICK n \in Nat : j = i + n
    <3>1. j - i \in Nat /\ j = i + (j - i)
      OBVIOUS
    <3> QED
      BY <3>1
  <2>2. \A x \in i + 1..i + n : b[x] \in Nat
    BY <1>1, <2>1
  <2>3. Len(SubSeq(b, i + 1, i + n)) = n
    BY <2>2, Piece
  <2> QED
    BY <2>1, <2>3
<1> QED
  BY <1>3, <1>4

\* The numbers of a turn of the loop: it copies something, no more than is left, and
\* all that is left when the sector is not full.
LEMMA TurnNumbers ==
    ASSUME IInv, ReadSoFar, call.at \in {"loop", "block"}, call.left > 0,
           NEW valid, valid \in {SectorSize, Bytes(call.slot, Wanted)}
    PROVE  /\ Within \in Nat /\ ~ (valid <= Within)
           /\ Chunk(valid) \in Nat /\ Chunk(valid) <= call.left
           /\ Within + Chunk(valid) <= SectorSize
           /\ valid < SectorSize => Chunk(valid) = call.left
           /\ call.offset = Wanted * SectorSize + Within
<1> DEFINE p == Wanted * SectorSize
           len == Len(pool[call.slot].bytes)
           left == call.left
           off == call.offset
           from == Within
<1>1. /\ call.slot \in Slots /\ SectorSize \in Nat \ {0} /\ Wanted \in Nat /\ p \in Nat
      /\ off \in Nat /\ left \in Nat /\ call \in CallRecords
  BY AtTurn, SectorCacheAssumption DEF IInv, TypeOK, CallRecords
<1>2. len \in Nat
  BY <1>1 DEF IInv, TypeOK, SlotRecords, Contents
<1>3. from \in 0..SectorSize - 1 /\ off = p + from
  <2>1. off = SectorSize * (off \div SectorSize) + (off % SectorSize)
    BY <1>1, SMT
  <2>2. off % SectorSize \in 0..SectorSize - 1
    BY <1>1, Division
  <2>3. p = SectorSize * (off \div SectorSize)
    BY <1>1 DEF Wanted
  <2> QED
    BY <2>1, <2>2, <2>3 DEF Within
<1>4. off + left <= len /\ left > 0
  BY DEF ReadSoFar
<1>5. valid = SectorSize \/ valid = Least(SectorSize, len - p)
  BY DEF Bytes
<1>6. Chunk(valid) = Least(Least(SectorSize - from, left), valid - from)
  BY DEF Chunk
<1> HIDE DEF p, len, from, left, off
<1>7. /\ from \in Nat /\ ~ (valid <= from)
      /\ Chunk(valid) \in Nat /\ Chunk(valid) <= left /\ from + Chunk(valid) <= SectorSize
      /\ valid < SectorSize => Chunk(valid) = left
  BY <1>1, <1>2, <1>3, <1>4, <1>5, <1>6 DEF Least
<1> QED
  BY <1>3, <1>7 DEF p, from, left, off

\* A read that has got some of b, from pos up to off, and gets the next n bytes.
LEMMA GotMore ==
    ASSUME NEW b \in Contents, NEW pos \in Nat, NEW off \in Nat, NEW left \in Nat,
           NEW n \in Nat, n <= left, pos <= off, off + left <= Len(b)
    PROVE  /\ SubSeq(b, pos + 1, off) \o SubSeq(b, off + 1, off + n)
                = SubSeq(b, pos + 1, off + n)
           /\ Len(SubSeq(b, pos + 1, off + n)) = off + n - pos
           /\ Len(SubSeq(b, pos + 1, off)) = off - pos
           /\ off + n + (left - n) = off + left
<1>1. off + n <= Len(b) /\ Len(b) \in Nat /\ off + n \in Nat /\ pos <= off + n
  BY DEF Contents
<1>2. SubSeq(b, pos + 1, off) \o SubSeq(b, off + 1, off + n) = SubSeq(b, pos + 1, off + n)
      /\ Len(SubSeq(b, pos + 1, off)) = off - pos
  BY <1>1, Joined
<1>3. Len(SubSeq(b, pos + 1, off + n)) = off + n - pos
  <2> DEFINE end == off + n
  <2>1. end \in Nat /\ 0 \in Nat /\ end + 0 <= Len(b) /\ pos <= end
    BY <1>1
  <2> HIDE DEF end
  <2>2. Len(SubSeq(b, pos + 1, end)) = end - pos
    BY <2>1, Joined
  <2> QED
    BY <2>2 DEF end
<1> QED
  BY <1>2, <1>3

\* What a turn with a sector that has bytes for it leaves.
LEMMA CopiedCall ==
    ASSUME call \in CallRecords, NEW data, NEW valid, ~ (valid <= Within),
           call' = Copied(data, valid)
    PROVE  /\ call'.at = "loop" /\ call'.slot = call.slot /\ call'.asked = call.asked
           /\ call'.left = LeftAfter(valid)
           /\ call'.offset = call.offset + Chunk(valid)
           /\ call'.got = call.got \o SubSeq(data, Within + 1, Within + Chunk(valid))
BY CopiedFields, ZenonT(40)

\* After a turn of the loop that had the sector, the read has got more of the file.
LEMMA TurnReads ==
    ASSUME IInv, ReadSoFar, call.at \in {"loop", "block"}, call.left > 0,
           NEW valid, valid \in {SectorSize, Bytes(call.slot, Wanted)},
           call' = Copied(Sector(pool[call.slot].bytes, Wanted), valid), pool' = pool
    PROVE  ReadSoFar'
<1> DEFINE v == pool[call.slot]
           data == Sector(v.bytes, Wanted)
<1>1. /\ call.slot \in Slots /\ SectorSize \in Nat \ {0} /\ Wanted \in Nat
      /\ call \in CallRecords /\ v \in SlotRecords
  BY AtTurn, SectorCacheAssumption DEF IInv, TypeOK
<1>2. /\ call.offset \in Nat /\ call.left \in Nat /\ v.pos \in Nat /\ v.bytes \in Contents
      /\ Len(v.bytes) \in Nat /\ Len(call.got) \in Nat
  BY <1>1 DEF CallRecords, SlotRecords, Contents
<1>3. /\ Within \in Nat /\ ~ (valid <= Within)
      /\ Chunk(valid) \in Nat /\ Chunk(valid) <= call.left
      /\ Within + Chunk(valid) <= SectorSize
      /\ valid < SectorSize => Chunk(valid) = call.left
      /\ call.offset = Wanted * SectorSize + Within
  BY TurnNumbers, Zenon
<1>4. /\ call.asked > 0
      /\ call.offset = v.pos + Len(call.got)
      /\ call.offset + call.left <= Len(v.bytes)
      /\ call.got = SubSeq(v.bytes, v.pos + 1, call.offset)
      /\ v.health # "ok" \/ Len(call.got) + call.left = call.asked
                         \/ call.offset + call.left = Len(v.bytes)
  BY DEF ReadSoFar
<1>5. PICK b \in Contents, pos \in Nat, off \in Nat, left \in Nat, l \in Nat :
         b = v.bytes /\ pos = v.pos /\ off = call.offset /\ left = call.left /\ l = Len(call.got)
  BY <1>2
<1>6. PICK n \in Nat, w \in Nat, from \in Nat :
          n = Chunk(valid) /\ w = Wanted /\ from = Within
  BY <1>1, <1>3
<1>7. /\ call'.at = "loop" /\ call'.slot = call.slot /\ call'.asked = call.asked
      /\ call'.left = IF valid < SectorSize THEN 0 ELSE left - n
      /\ call'.offset = off + n
      /\ call'.got = call.got \o SubSeq(Sector(b, w), from + 1, from + n)
  <2> HIDE DEF v, data
  <2>1. data = Sector(b, w) /\ call' = Copied(data, valid)
    BY <1>5, <1>6, Zenon DEF v, data
  <2>2. /\ call'.at = "loop" /\ call'.slot = call.slot /\ call'.asked = call.asked
        /\ call'.left = LeftAfter(valid) /\ call'.offset = call.offset + Chunk(valid)
        /\ call'.got = call.got \o SubSeq(data, Within + 1, Within + Chunk(valid))
    <3>1. call \in CallRecords /\ ~ (valid <= Within)
      BY <1>1, <1>3
    <3> QED
      BY <2>1, <3>1, CopiedCall
  <2>3. off = call.offset /\ left = call.left
    BY <1>5
  <2>4. n = Chunk(valid) /\ from = Within
    BY <1>6
  <2> QED
    BY <2>1, <2>2, <2>3, <2>4 DEF LeftAfter
<1>8. /\ b \in Contents /\ pos \in Nat /\ off \in Nat /\ left \in Nat /\ n \in Nat
      /\ w \in Nat /\ from \in Nat /\ l \in Nat /\ Len(b) \in Nat
  BY <1>5, <1>6 DEF Contents
<1>9. n <= left /\ (valid < SectorSize => n = left)
  BY <1>3, <1>5, <1>6
<1>10. /\ off = pos + l /\ off + left <= Len(b) /\ call.got = SubSeq(b, pos + 1, off)
       /\ v.health # "ok" \/ l + left = call.asked \/ off + left = Len(b)
  BY <1>4, <1>5
<1>11. call'.left = left - n
  BY <1>7, <1>8, <1>9
<1>12. pos <= off /\ off + left <= Len(b) /\ n <= left /\ off + n <= Len(b)
  <2>1. n <= left /\ off = pos + l /\ off + left <= Len(b)
    BY <1>9, <1>10
  <2> QED
    BY <1>8, <2>1
<1>13. SubSeq(Sector(b, w), from + 1, from + n) = SubSeq(b, off + 1, off + n)
  <2>1. Inside(b, w, from, n, off)
    <3>1. from + n <= SectorSize /\ off = w * SectorSize + from
      BY <1>3, <1>5, <1>6
    <3>2. off + n <= Len(b)
      BY <1>12
    <3> QED
      BY <3>1, <3>2, Zenon DEF Inside
  <2> QED
    BY <1>8, <2>1, PieceOfSector
<1>14. /\ SubSeq(b, pos + 1, off) \o SubSeq(b, off + 1, off + n) = SubSeq(b, pos + 1, off + n)
       /\ Len(SubSeq(b, pos + 1, off + n)) = off + n - pos
  <2>1. n <= left /\ pos <= off /\ off + left <= Len(b)
    BY <1>12
  <2> QED
    BY <1>8, <2>1, GotMore
<1>15. call'.got = SubSeq(b, pos + 1, off + n) /\ Len(call'.got) = off + n - pos
  <2>1. call'.got = SubSeq(b, pos + 1, off) \o SubSeq(b, off + 1, off + n)
    BY <1>7, <1>13, <1>10
  <2> QED
    BY <1>14, <2>1
<1>16. pool'[call'.slot] = v
  BY <1>7
<1> HIDE DEF v
<1>17. /\ call'.offset = pos + Len(call'.got)
       /\ call'.offset + call'.left <= Len(b)
       /\ \/ v.health # "ok"
          \/ Len(call'.got) + call'.left = call'.asked
          \/ call'.offset + call'.left = Len(b)
  <2>1. /\ off + n = pos + (off + n - pos)
        /\ off + n + (left - n) = off + left
        /\ off + n - pos + (left - n) = l + left
    <3>1. off = pos + l
      BY <1>10
    <3> QED
      BY <1>8, <3>1
  <2>2. call'.offset = off + n /\ call'.left = left - n /\ Len(call'.got) = off + n - pos
        /\ call'.asked = call.asked
    BY <1>7, <1>11, <1>15
  <2>3. /\ off + left <= Len(b)
        /\ v.health # "ok" \/ l + left = call.asked \/ off + left = Len(b)
    BY <1>10
  <2> QED
    BY <2>1, <2>2, <2>3
<1> QED
  BY <1>4, <1>5, <1>7, <1>15, <1>16, <1>17 DEF ReadSoFar

\* A step that leaves the read where it is, or gives it up because the disk failed.
LEMMA KeptRead ==
    ASSUME ReadSoFar, call.at \in {"loop", "block"}, call.slot \in Slots,
           call'.slot = call.slot, call'.asked = call.asked, call'.offset = call.offset,
           call'.got = call.got, call.left \in Nat, call.offset \in Nat,
           Len(pool[call.slot].bytes) \in Nat,
           pool'[call.slot].pos = pool[call.slot].pos,
           pool'[call.slot].bytes = pool[call.slot].bytes,
           \/ call'.left = call.left /\ pool'[call.slot].health = pool[call.slot].health
           \/ call'.left = 0 /\ pool'[call.slot].health # "ok"
    PROVE  ReadSoFar'
<1> DEFINE v == pool[call.slot]
           w == pool'[call'.slot]
<1>1. /\ call.asked > 0 /\ call.offset = v.pos + Len(call.got)
      /\ call.offset + call.left <= Len(v.bytes)
      /\ call.got = SubSeq(v.bytes, v.pos + 1, call.offset)
      /\ \/ v.health # "ok"
         \/ Len(call.got) + call.left = call.asked
         \/ call.offset + call.left = Len(v.bytes)
  BY Zenon DEF ReadSoFar
<1>2. w.pos = v.pos /\ w.bytes = v.bytes
  BY Zenon
<1>3. \/ call'.left = call.left /\ w.health = v.health
      \/ call'.left = 0 /\ w.health # "ok"
  BY Zenon
<1>4. Len(v.bytes) \in Nat /\ call.offset \in Nat /\ call.left \in Nat
  OBVIOUS
<1> HIDE DEF v, w
<1>5. /\ call'.offset + call'.left <= Len(w.bytes)
      /\ \/ w.health # "ok"
         \/ Len(call'.got) + call'.left = call'.asked
         \/ call'.offset + call'.left = Len(w.bytes)
  <2>1. CASE call'.left = call.left /\ w.health = v.health
    BY <1>1, <1>2, <2>1, Zenon
  <2>2. CASE call'.left = 0 /\ w.health # "ok"
    <3>1. call.offset + call.left <= Len(v.bytes)
      BY <1>1
    <3>2. call'.offset <= Len(w.bytes) /\ call'.offset \in Nat
      BY <1>2, <1>4, <3>1
    <3> QED
      BY <2>2, <3>2
  <2> QED
    BY <1>3, <2>1, <2>2
<1>6. /\ call'.asked > 0 /\ call'.offset = w.pos + Len(call'.got)
      /\ call'.got = SubSeq(w.bytes, w.pos + 1, call'.offset)
  BY <1>1, <1>2, Zenon
<1> QED
  BY <1>5, <1>6, Zenon DEF ReadSoFar, w

\* The locals of a call under way, as numbers.
LEMMA CallTypes ==
    ASSUME IInv, call.at \in {"loop", "block"}
    PROVE  /\ call \in CallRecords /\ call.slot \in Slots
           /\ call.left \in Nat /\ call.offset \in Nat /\ call.locked \subseteq Entries
           /\ pool[call.slot] \in SlotRecords
           /\ pool[call.slot].bytes \in Contents /\ Len(pool[call.slot].bytes) \in Nat
           /\ pool[call.slot].health \in {"ok", "failed", "stale"}
<1>1. call \in CallRecords /\ call.slot \in Slots /\ pool[call.slot] \in SlotRecords
  BY DEF IInv, TypeOK
<1>2. call.left \in Nat /\ call.offset \in Nat /\ call.locked \subseteq Entries
  BY <1>1 DEF CallRecords
<1> QED
  BY <1>1, <1>2 DEF SlotRecords, Contents

LEMMA BeginReads ==
    ASSUME IInv, NEW s \in Slots, NEW n \in Sizes, BeginRead(s, n)
    PROVE  ReadSoFar' /\ BlockSoFar'
<1>1. /\ call'.at = "loop" /\ call'.slot = s /\ call'.offset = pool[s].pos
      /\ call'.asked = n /\ call'.got = <<>> /\ call'.locked = {}
      /\ call'.left = Least(n, Len(pool[s].bytes) - pool[s].pos) /\ pool' = pool
      /\ pool[s].pos < Len(pool[s].bytes)
  BY DEF BeginRead, Idle
<1>2. /\ n \in Nat /\ n > 0
      /\ pool[s].pos \in Nat /\ pool[s].bytes \in Contents /\ Len(pool[s].bytes) \in Nat
  BY SectorCacheAssumption DEF IInv, TypeOK, SlotRecords, Contents
<1>3. SubSeq(pool[s].bytes, pool[s].pos + 1, pool[s].pos) = <<>>
  BY <1>2, SubSeqEmpty
<1>4. BlockSoFar'
  BY <1>1 DEF BlockSoFar
<1>5. /\ call'.asked > 0
      /\ call'.offset = pool[s].pos + Len(call'.got)
      /\ call'.offset + call'.left <= Len(pool[s].bytes)
      /\ \/ Len(call'.got) + call'.left = call'.asked
         \/ call'.offset + call'.left = Len(pool[s].bytes)
  <2>1. Len(call'.got) = 0
    BY <1>1
  <2> QED
    BY <1>1, <1>2, <2>1 DEF Least
<1> QED
  BY <1>1, <1>3, <1>4, <1>5 DEF ReadSoFar

\* A turn of the loop that ends with it copies a sector.
LEMMA CopiedBlock ==
    ASSUME call \in CallRecords, NEW data, NEW valid, call' = Copied(data, valid)
    PROVE  BlockSoFar'
BY CopiedFields DEF BlockSoFar

LEMMA HitReads ==
    ASSUME IInv, BlockSoFar, Hit
    PROVE  BlockSoFar' /\ (ReadSoFar /\ ~ PartFails => ReadSoFar')
<1>1. PICK e \in Entries :
         /\ e \in Found(call.slot, Wanted)
         /\ call' = Copied(cache[e].data, SectorSize)
  BY DEF Hit, Found
<1>2. call.at = "loop" /\ call.left > 0 /\ pool' = pool /\ call \in CallRecords
  BY DEF Hit, AtLoop, IInv, TypeOK
<1>3. BlockSoFar'
  BY <1>1, <1>2, CopiedBlock
<1>4. ASSUME ReadSoFar, ~ PartFails PROVE ReadSoFar'
  <2>1. cache[e].data = Sector(pool[call.slot].bytes, Wanted)
    BY <1>1, <1>4 DEF IInv, CacheParts, CacheCoherent, Found
  <2>2. call' = Copied(Sector(pool[call.slot].bytes, Wanted), SectorSize)
    BY <1>1, <2>1
  <2> QED
    BY <1>2, <1>4, <2>2, TurnReads
<1> QED
  BY <1>3, <1>4

LEMMA WantedReads ==
    ASSUME IInv, call.at \in {"loop", "block"}, call.left > 0,
           NEW e \in Entries, cache' = Stored(e, call.slot, Wanted),
           call' = Copied(cache'[e].data, Bytes(call.slot, Wanted)), pool' = pool
    PROVE  BlockSoFar' /\ (ReadSoFar => ReadSoFar')
<1>1. call \in CallRecords /\ call.slot \in Slots /\ Wanted \in Nat
  BY CallTypes, AtTurn
<1>2. cache'[e].data = Sector(pool[call.slot].bytes, Wanted)
  BY <1>1, StoredEntry DEF IInv
<1>3. call' = Copied(Sector(pool[call.slot].bytes, Wanted), Bytes(call.slot, Wanted))
  BY <1>2
<1>4. BlockSoFar'
  BY <1>1, CopiedBlock
<1>5. ASSUME ReadSoFar PROVE ReadSoFar'
  BY <1>3, <1>5, TurnReads
<1> QED
  BY <1>4, <1>5

LEMMA MissOneReads ==
    ASSUME IInv, BlockSoFar, MissOne
    PROVE  BlockSoFar' /\ (ReadSoFar => ReadSoFar')
<1>1. call.at = "loop" /\ call.left > 0 /\ pool' = pool
  BY DEF MissOne, Missed, AtLoop
<1>2. PICK e \in Entries :
         /\ cache' = Stored(e, call.slot, Wanted)
         /\ call' = Copied(cache'[e].data, Bytes(call.slot, Wanted))
  BY VictimsAreEntries DEF MissOne
<1> QED
  BY <1>1, <1>2, WantedReads

LEMMA FailedReads ==
    ASSUME IInv, call.at = "loop", call' = [call EXCEPT !.left = 0],
           pool' = [pool EXCEPT ![call.slot].health = Failing(pool[call.slot])]
    PROVE  BlockSoFar' /\ (ReadSoFar => ReadSoFar')
<1>1. /\ call \in CallRecords /\ call.slot \in Slots
      /\ call.left \in Nat /\ call.offset \in Nat
      /\ Len(pool[call.slot].bytes) \in Nat /\ pool[call.slot] \in SlotRecords
      /\ pool[call.slot].health \in {"ok", "failed", "stale"}
  BY CallTypes
<1>2. /\ call'.at = "loop" /\ call'.slot = call.slot /\ call'.left = 0
      /\ call'.asked = call.asked /\ call'.offset = call.offset /\ call'.got = call.got
  BY <1>1 DEF CallRecords
<1>3. /\ pool'[call.slot].pos = pool[call.slot].pos
      /\ pool'[call.slot].bytes = pool[call.slot].bytes
      /\ pool'[call.slot].health = Failing(pool[call.slot])
  BY <1>1 DEF SlotRecords, IInv, TypeOK
<1>4. Failing(pool[call.slot]) # "ok"
  BY DEF Failing
<1>5. ASSUME ReadSoFar PROVE ReadSoFar'
  BY <1>1, <1>2, <1>3, <1>4, <1>5, KeptRead
<1>6. BlockSoFar'
  BY <1>2 DEF BlockSoFar
<1> QED
  BY <1>5, <1>6

LEMMA MissOneFailsReads ==
    ASSUME IInv, BlockSoFar, MissOneFails
    PROVE  BlockSoFar' /\ (ReadSoFar => ReadSoFar')
BY FailedReads DEF MissOneFails, Missed, AtLoop

LEMMA MissBlockReads ==
    ASSUME IInv, BlockSoFar, MissBlock
    PROVE  BlockSoFar' /\ (ReadSoFar => ReadSoFar')
<1> DEFINE base == Wanted - (Wanted % pool[call.slot].ahead)
           inFile == (Len(pool[call.slot].bytes) + SectorSize - 1) \div SectorSize
           end == Least(base + pool[call.slot].ahead, inFile)
           todo == (base..end - 1) \ {Wanted}
<1>1. call.at = "loop" /\ call.left > 0
  BY DEF MissBlock, Missed, AtLoop
<1>2. CASE /\ call' = [call EXCEPT !.at = "block", !.block = <<base, end>>, !.todo = todo]
           /\ pool' = pool
  <2>1. /\ call \in CallRecords /\ call.slot \in Slots /\ call.left \in Nat
        /\ call.offset \in Nat /\ Len(pool[call.slot].bytes) \in Nat
    BY <1>1, CallTypes
  <2> HIDE DEF base, end, todo
  <2>2. /\ call'.at = "block" /\ call'.slot = call.slot /\ call'.left = call.left
        /\ call'.asked = call.asked /\ call'.offset = call.offset /\ call'.got = call.got
        /\ call'.block = <<base, end>> /\ call'.todo = todo
    BY <1>2, <2>1 DEF CallRecords
  <2>3. ASSUME ReadSoFar PROVE ReadSoFar'
    BY <1>1, <1>2, <2>1, <2>2, <2>3, KeptRead
  <2>4. call'.block[1] = base /\ call'.block[2] = end /\ Wanted' = Wanted
    BY <2>2 DEF Wanted
  <2>5. \A n \in call'.block[1]..call'.block[2] - 1 : n \in call'.todo \/ n = Wanted'
    BY <2>2, <2>4 DEF todo
  <2>6. BlockSoFar'
    BY <1>1, <2>2, <2>5 DEF BlockSoFar
  <2> QED
    BY <2>3, <2>6
<1>3. CASE /\ pool' = [pool EXCEPT ![call.slot].health = Failing(pool[call.slot])]
           /\ call' = [call EXCEPT !.left = 0]
  BY <1>1, <1>3, FailedReads
<1> QED
  BY <1>2, <1>3 DEF MissBlock

\* A sector of the block is stored, and the others that are there stay.
LEMMA StoreAheadReads ==
    ASSUME IInv, BlockSoFar, StoreAhead
    PROVE  BlockSoFar' /\ (ReadSoFar => ReadSoFar')
<1>1. PICK n \in call.todo, e \in Entries :
         /\ call' = [call EXCEPT !.todo = @ \ {n}, !.locked = @ \cup {e}]
         /\ \/ e \in Found(call.slot, n) /\ cache' = cache
            \/ e \notin call.locked /\ cache' = Stored(e, call.slot, n)
  BY DEF StoreAhead, Found, Victims
<1>2. /\ call.at = "block" /\ pool' = pool /\ call \in CallRecords /\ call.slot \in Slots
      /\ call.left \in Nat /\ call.offset \in Nat /\ Len(pool[call.slot].bytes) \in Nat
      /\ call.locked \subseteq Entries
  BY CallTypes DEF StoreAhead
<1>3. n \in Nat
  BY <1>1, <1>2 DEF CallRecords
<1>4. /\ call'.at = "block" /\ call'.slot = call.slot /\ call'.left = call.left
      /\ call'.asked = call.asked /\ call'.offset = call.offset /\ call'.got = call.got
      /\ call'.block = call.block
      /\ call'.todo = call.todo \ {n} /\ call'.locked = call.locked \cup {e}
  <2> DEFINE t == call.todo \ {n}
             k == call.locked \cup {e}
  <2>1. call' = [call EXCEPT !.todo = t, !.locked = k]
    BY <1>1
  <2> HIDE DEF t, k
  <2>2. /\ call'.at = "block" /\ call'.slot = call.slot /\ call'.left = call.left
        /\ call'.asked = call.asked /\ call'.offset = call.offset /\ call'.got = call.got
        /\ call'.block = call.block /\ call'.todo = t /\ call'.locked = k
    BY <1>2, <2>1 DEF CallRecords
  <2> QED
    BY <2>2 DEF t, k
<1>5. ASSUME ReadSoFar PROVE ReadSoFar'
  BY <1>2, <1>4, <1>5, KeptRead
<1>6. /\ cache'[e].valid /\ cache'[e].slot = call.slot /\ cache'[e].sector = n
      /\ \A x \in call.locked :
           /\ cache'[x].valid <=> cache[x].valid
           /\ cache'[x].slot = cache[x].slot
           /\ cache'[x].sector = cache[x].sector
  <2>1. CASE e \in Found(call.slot, n) /\ cache' = cache
    BY <2>1 DEF Found
  <2>2. CASE e \notin call.locked /\ cache' = Stored(e, call.slot, n)
    <3>1. /\ cache'[e].valid /\ cache'[e].slot = call.slot /\ cache'[e].sector = n
          /\ \A x \in Entries \ {e} :
                /\ cache'[x].valid <=> cache[x].valid
                /\ cache'[x].slot = cache[x].slot
                /\ cache'[x].sector = cache[x].sector
      BY <1>1, <1>2, <1>3, <2>2, StoredEntry DEF IInv
    <3>2. call.locked \subseteq Entries \ {e}
      BY <1>2, <2>2
    <3> QED
      BY <3>1, <3>2
  <2> QED
    BY <1>1, <2>1, <2>2
<1>7. ASSUME NEW m \in call'.block[1]..call'.block[2] - 1, m \notin call'.todo, m # Wanted'
      PROVE  \E x \in call'.locked : /\ cache'[x].valid /\ cache'[x].slot = call'.slot
                                     /\ cache'[x].sector = m
  <2>1. CASE m = n
    BY <1>4, <1>6, <2>1
  <2>2. CASE m # n
    <3>1. m \in call.block[1]..call.block[2] - 1 /\ m \notin call.todo /\ m # Wanted
      BY <1>4, <1>7, <2>2 DEF Wanted
    <3>2. PICK x \in call.locked : /\ cache[x].valid /\ cache[x].slot = call.slot
                                   /\ cache[x].sector = m
      BY <1>2, <3>1 DEF BlockSoFar
    <3> QED
      BY <1>4, <1>6, <3>2
  <2> QED
    BY <2>1, <2>2
<1>8. BlockSoFar'
  <2>1. call'.left > 0
    BY <1>2, <1>4 DEF BlockSoFar
  <2> QED
    BY <1>4, <1>7, <2>1 DEF BlockSoFar
<1> QED
  BY <1>5, <1>8

\* The wanted sector is stored last, and all of the block is there.
LEMMA StoreWantedReads ==
    ASSUME IInv, BlockSoFar, StoreWanted
    PROVE  /\ BlockSoFar' /\ (ReadSoFar => ReadSoFar')
           /\ \A n \in call.block[1]..call.block[2] - 1 :
                 \E e \in Entries : /\ cache'[e].valid /\ cache'[e].slot = call.slot
                                    /\ cache'[e].sector = n
<1>1. PICK e \in Entries :
         /\ e \notin call.locked
         /\ cache' = Stored(e, call.slot, Wanted)
         /\ call' = Copied(cache'[e].data, Bytes(call.slot, Wanted))
  BY DEF StoreWanted, Victims
<1>2. /\ call.at = "block" /\ call.todo = {} /\ pool' = pool /\ call.left > 0
      /\ call.slot \in Slots /\ Wanted \in Nat /\ call.locked \subseteq Entries
  BY CallTypes, AtTurn DEF StoreWanted, BlockSoFar
<1>3. BlockSoFar' /\ (ReadSoFar => ReadSoFar')
  BY <1>1, <1>2, WantedReads
<1>4. /\ cache'[e].valid /\ cache'[e].slot = call.slot /\ cache'[e].sector = Wanted
      /\ \A x \in Entries \ {e} :
           /\ cache'[x].valid <=> cache[x].valid
           /\ cache'[x].slot = cache[x].slot
           /\ cache'[x].sector = cache[x].sector
  BY <1>1, <1>2, StoredEntry DEF IInv
<1>5. ASSUME NEW n \in call.block[1]..call.block[2] - 1
      PROVE  \E x \in Entries : /\ cache'[x].valid /\ cache'[x].slot = call.slot
                                /\ cache'[x].sector = n
  <2>1. CASE n = Wanted
    BY <1>4, <2>1
  <2>2. CASE n # Wanted
    <3>1. PICK x \in call.locked : /\ cache[x].valid /\ cache[x].slot = call.slot
                                   /\ cache[x].sector = n
      BY <1>2, <1>5, <2>2 DEF BlockSoFar
    <3>2. x \in Entries \ {e}
      BY <1>1, <1>2, <3>1
    <3> QED
      BY <1>4, <3>1, <3>2
  <2> QED
    BY <2>1, <2>2
<1> QED
  BY <1>3, <1>5

\* No other step is taken while a read is under way, or it ends it.
LEMMA OtherReads ==
    ASSUME (call.at = "idle" /\ call' = call) \/ call'.at \in {"idle", "done"}
    PROVE  BlockSoFar' /\ ReadSoFar'
BY DEF BlockSoFar, ReadSoFar

ReadInv == Inv /\ BlockSoFar

LEMMA InitRead == Init => ReadInv /\ ReadSoFar
<1> SUFFICES ASSUME Init PROVE BlockSoFar /\ ReadSoFar
  BY InitAll DEF ReadInv
<1> QED
  BY DEF Init, Idle, BlockSoFar, ReadSoFar

LEMMA NextRead ==
    ASSUME ReadInv, [Next]_vars
    PROVE  ReadInv' /\ (ReadSoFar /\ ~ PartFails => ReadSoFar')
<1>1. IInv /\ BlockSoFar /\ Inv'
  BY NextAll DEF ReadInv, Inv
<1>2. SUFFICES BlockSoFar' /\ (ReadSoFar /\ ~ PartFails => ReadSoFar')
  BY <1>1 DEF ReadInv
<1>3. ASSUME NEW s \in Slots,
             \/ \E f \in Files, mode \in Modes : OpenFile(s, f, mode)
             \/ Close(s)
             \/ \E b \in Written : Write(s, b)
             \/ Sync(s)
             \/ \E n \in 0..AheadMax + 1 : SetReadAhead(s, n)
             \/ \E offset \in Offsets : Seek(s, offset)
      PROVE  BlockSoFar' /\ ReadSoFar'
  BY <1>3, OtherReads DEF OpenFile, Close, Write, Sync, SetReadAhead, Seek
<1>4. CASE Remount \/ \E src \in Temporary, dst \in Files : Replace(src, dst)
  BY <1>4, OtherReads DEF Remount, Replace
<1>5. CASE EndRead \/ Return
  <2>1. CASE EndRead
    BY <2>1, OtherReads DEF EndRead, Idle
  <2>2. CASE Return
    BY <2>2, OtherReads DEF Return, Idle
  <2> QED
    BY <1>5, <2>1, <2>2
<1>6. ASSUME NEW s \in Slots, NEW n \in Sizes, BeginRead(s, n)
      PROVE  BlockSoFar' /\ ReadSoFar'
  BY <1>1, <1>6, BeginReads
<1>7. CASE Hit \/ MissOne \/ MissOneFails \/ MissBlock \/ StoreAhead \/ StoreWanted
  BY <1>1, <1>7, HitReads, MissOneReads, MissOneFailsReads, MissBlockReads, StoreAheadReads,
     StoreWantedReads
<1>8. CASE UNCHANGED vars
  BY <1>1, <1>8 DEF vars, BlockSoFar, ReadSoFar, Wanted
<1> QED
  BY <1>3, <1>4, <1>5, <1>6, <1>7, <1>8 DEF Next, ReadSteps

\* After a read of a block all its sectors are in the cache: the entries that
\* read_block_cached has locked are not the victims of the next.
THEOREM BlockIsKept == Spec => BlockStays
<1>1. ASSUME ReadInv, Next, call.at = "block", call'.at = "loop"
      PROVE  \A n \in call.block[1]..call.block[2] - 1 :
                \E e \in Entries : /\ cache'[e].valid /\ cache'[e].slot = call.slot
                                   /\ cache'[e].sector = n
  <2>1. StoreAhead \/ StoreWanted
    BY <1>1 DEF Next, ReadSteps, OpenFile, Close, Write, Sync, SetReadAhead, Seek, BeginRead,
       Replace, Remount, Hit, MissOne, MissOneFails, MissBlock, EndRead, Return, Missed, AtLoop
  <2>2. ~ StoreAhead
    <3> SUFFICES ASSUME StoreAhead PROVE call'.at = "block"
      BY <1>1
    <3>1. PICK n, e : call' = [call EXCEPT !.todo = @ \ {n}, !.locked = @ \cup {e}]
      BY DEF StoreAhead
    <3>2. call \in CallRecords
      BY <1>1 DEF ReadInv, Inv, IInv, TypeOK
    <3> QED
      BY <1>1, <3>1, <3>2 DEF CallRecords
  <2> QED
    BY <1>1, <2>1, <2>2, StoreWantedReads DEF ReadInv, Inv
<1>2. ReadInv /\ [Next]_vars => ReadInv'
  BY NextRead
<1>3. Init => ReadInv
  BY InitRead
<1>4. ReadInv /\ [Next]_vars =>
         [call.at = "block" /\ call'.at = "loop" =>
            \A n \in call.block[1]..call.block[2] - 1 :
               \E e \in Entries : /\ cache'[e].valid /\ cache'[e].slot = call.slot
                                  /\ cache'[e].sector = n]_vars
  BY <1>1
<1> QED
  BY <1>2, <1>3, <1>4, PTL DEF Spec, BlockStays

----------------------------------------------------------------------------
(* What a reader of the files sees of it.                                  *)

Shut == [open |-> FALSE, file |-> Absent, bytes |-> <<>>, pos |-> 0, sick |-> FALSE]

\* A slot as a handle of FileReads, and all of them.
View(v) ==
    IF v.inUse /\ v.mode = "read"
    THEN [open |-> TRUE, file |-> v.file, bytes |-> v.bytes, pos |-> v.pos,
          sick |-> v.health # "ok"]
    ELSE Shut

Views == [s \in Slots |-> View(pool[s])]

Returned ==
    IF call.at = "done" THEN [asked |-> call.asked, bytes |-> call.got]
    ELSE [asked |-> 0, bytes |-> <<>>]

FileStep == [Reads!Next]_(Reads!vars)

LEMMA StepIsStutter ==
    ASSUME card' = card, Views' = Views, Returned' = Returned
    PROVE  FileStep
BY DEF FileStep, Reads!vars, Views, View, Shut, Returned, Reader

LEMMA StepIsOpen ==
    ASSUME NEW s \in Slots, NEW f \in Files, ~ Views[s].open, card[f] # Absent,
           Views' = [Views EXCEPT ![s] = [open |-> TRUE, file |-> f, bytes |-> card[f],
                                          pos |-> 0, sick |-> FALSE]],
           card' = card, Returned' = Returned
    PROVE  FileStep
<1>1. Reads!Open(s, f)
  BY Zenon DEF Reads!Open, Views, View, Shut, Returned, Reader
<1> QED
  BY <1>1 DEF FileStep, Reads!Next

LEMMA StepIsClose ==
    ASSUME NEW s \in Slots, Views[s].open, Views' = [Views EXCEPT ![s] = Shut],
           card' = card, Returned' = Returned
    PROVE  FileStep
<1>1. Reads!Close(s)
  BY Zenon DEF Reads!Close, Reads!Closed, Views, View, Shut, Returned, Reader
<1> QED
  BY <1>1 DEF FileStep, Reads!Next

LEMMA StepIsSeek ==
    ASSUME NEW s \in Slots, Views[s].open, NEW pos \in 0..Len(Views[s].bytes),
           Views' = [Views EXCEPT ![s].pos = pos], card' = card, Returned' = Returned
    PROVE  FileStep
<1>1. Reads!Seek(s, pos) /\ pos \in 0..Len(Views[s].bytes)
  BY DEF Reads!Seek, Views, View, Shut, Returned, Reader
<1> QED
  BY <1>1 DEF FileStep, Reads!Next, Views, View, Shut, Reader

LEMMA StepIsRead ==
    ASSUME NEW s \in Slots, Views[s].open, Returned'.asked > 0,
           Len(Returned'.bytes) <= Len(Views[s].bytes) - Views[s].pos,
           Returned'.bytes = SubSeq(Views[s].bytes, Views[s].pos + 1,
                                    Views[s].pos + Len(Returned'.bytes)),
           Views' = [Views EXCEPT ![s].pos = Views[s].pos + Len(Returned'.bytes)],
           \/ Views[s].sick
           \/ Len(Returned'.bytes) = Returned'.asked
           \/ Len(Returned'.bytes) = Len(Views[s].bytes) - Views[s].pos,
           card' = card
    PROVE  FileStep
<1>1. Reads!Read(s)
  BY Zenon DEF Reads!Read, Views, View, Shut, Returned, Reader
<1> QED
  BY <1>1 DEF FileStep, Reads!Next

LEMMA StepIsForget ==
    ASSUME Returned' = [asked |-> 0, bytes |-> <<>>], Views' = Views, card' = card
    PROVE  FileStep
<1>1. Reads!Forget
  BY Zenon DEF Reads!Forget, Reads!Nothing, Views, View, Shut, Returned, Reader
<1> QED
  BY <1>1 DEF FileStep, Reads!Next

LEMMA StepIsChange ==
    ASSUME \A s \in Slots :
              IF Views[s].open
              THEN /\ Views'[s] \in {Views[s], Reads!Sick(Views[s])}
                   /\ Views'[s].sick \/ card'[Views[s].file] = card[Views[s].file]
              ELSE Views'[s] = Shut,
           Returned' = Returned
    PROVE  FileStep
<1>1. Reads!Change
  BY Zenon DEF Reads!Change, Reads!Closed, Reads!Sick, Views, View, Shut, Returned, Reader
<1> QED
  BY <1>1 DEF FileStep, Reads!Next

\* What is seen of a slot.
LEMMA ViewParts ==
    ASSUME TypeOK
    PROVE  \A s \in Slots :
              /\ Views[s] = View(pool[s]) /\ Views'[s] = View(pool'[s])
              /\ Views[s].open <=> Reader(s)
              /\ Reader(s) => /\ Views[s] = [open |-> TRUE, file |-> pool[s].file,
                                             bytes |-> pool[s].bytes, pos |-> pool[s].pos,
                                             sick |-> pool[s].health # "ok"]
                              /\ Views[s].file = pool[s].file
                              /\ Views[s].bytes = pool[s].bytes
                              /\ Views[s].pos = pool[s].pos
                              /\ Views[s].sick = (pool[s].health # "ok")
              /\ ~ Reader(s) => Views[s] = Shut
BY DEF Views, View, Shut, Reader

\* A step that only slot s can be seen to take.
LEMMA OneView ==
    ASSUME TypeOK, NEW s \in Slots, \A x \in Slots \ {s} : pool'[x] = pool[x]
    PROVE  Views' = [Views EXCEPT ![s] = View(pool'[s])]
BY DEF Views

\* A step that no slot can be seen to take.
LEMMA SameViews ==
    ASSUME TypeOK,
           \A s \in Slots : /\ SameReader(s) /\ pool'[s].file = pool[s].file
                            /\ pool'[s].pos = pool[s].pos
                            /\ pool'[s].health = pool[s].health
    PROVE  Views' = Views
<1>1. ASSUME NEW s \in Slots PROVE View(pool'[s]) = View(pool[s])
  BY DEF SameReader, View
<1> QED
  BY <1>1 DEF Views

\* A file that is open to be read by a handle that is well is locked.
LEMMA ReadersLock ==
    ASSUME Inv, NEW s \in Slots, Reader(s), pool[s].health = "ok"
    PROVE  /\ pool[s].file \in Files /\ lock[pool[s].file] > 0
           /\ \A x \in Holders(pool[s].file) : pool[x].mode = "read"
<1>1. pool[s].file \in Files
  BY DEF Inv, IInv, TypeOK, Reader
<1>2. s \in Holders(pool[s].file)
  BY DEF Holders, Reader, Live
<1>3. lock[pool[s].file] > 0
  BY <1>1, <1>2, LockCases DEF Inv, LockInv, Reader
<1>4. lock[pool[s].file] \in Int
  BY <1>1 DEF Inv, IInv, TypeOK
<1>5. \A x \in Holders(pool[s].file) : pool[x].mode = "read"
  BY <1>1, <1>3, <1>4, LockCases DEF Inv, LockInv
<1> QED
  BY <1>1, <1>3, <1>5

\* The files change, but none that a handle that is well has open.
LEMMA FilesChange ==
    ASSUME Inv, Views' = Views, Returned' = Returned,
           \A s \in Slots : Reader(s) /\ pool[s].health = "ok" =>
              card'[pool[s].file] = card[pool[s].file]
    PROVE  FileStep
<1>1. TypeOK
  BY DEF Inv, IInv
<1>2. ASSUME NEW s \in Slots
      PROVE  IF Views[s].open
             THEN /\ Views'[s] \in {Views[s], Reads!Sick(Views[s])}
                  /\ Views'[s].sick \/ card'[Views[s].file] = card[Views[s].file]
             ELSE Views'[s] = Shut
  <2>1. CASE Reader(s)
    <3>1. /\ Views[s].open /\ Views[s].file = pool[s].file
          /\ Views[s].sick = (pool[s].health # "ok")
      BY <1>1, <2>1, ViewParts
    <3>2. Views'[s] = Views[s]
      OBVIOUS
    <3>3. Views'[s].sick \/ card'[Views[s].file] = card[Views[s].file]
      <4>1. CASE pool[s].health = "ok"
        BY <2>1, <3>1, <4>1
      <4>2. CASE pool[s].health # "ok"
        BY <3>1, <3>2, <4>2
      <4> QED
        BY <4>1, <4>2
    <3> QED
      BY <3>1, <3>2, <3>3, Zenon
  <2>2. CASE ~ Reader(s)
    <3>1. ~ Views[s].open /\ Views[s] = Shut
      BY <1>1, <2>2, ViewParts
    <3> QED
      BY <3>1
  <2> QED
    BY <2>1, <2>2
<1> QED
  BY <1>2, StepIsChange

LEMMA OpenedView ==
    ASSUME NEW f, NEW b, NEW d
    PROVE  View(Opened(f, "read", b, d)) = [open |-> TRUE, file |-> f, bytes |-> b,
                                            pos |-> 0, sick |-> FALSE]
BY DEF Opened, View

LEMMA OpenFileSeen ==
    ASSUME Inv, NEW s \in Slots, NEW f \in Files, NEW mode \in Modes, OpenFile(s, f, mode)
    PROVE  FileStep
<1>1. /\ TypeOK /\ ~ Reader(s) /\ Returned' = Returned
      /\ \A x \in Slots \ {s} : pool'[x] = pool[x]
      /\ pool'[s] = Opened(f, mode, card'[f], mode = "create" \/ card[f] = Absent)
  BY DEF OpenFile, Inv, IInv, TypeOK, Reader, Returned
<1>2. Views[s] = Shut /\ ~ Views[s].open
  BY <1>1, ViewParts
<1>3. Views' = [Views EXCEPT ![s] = View(pool'[s])]
  BY <1>1, OneView
<1>4. CASE mode = "read"
  <2>1. card' = card /\ card[f] # Absent
    BY <1>4 DEF OpenFile
  <2>2. View(pool'[s]) = [open |-> TRUE, file |-> f, bytes |-> card[f], pos |-> 0,
                          sick |-> FALSE]
    BY <1>1, <1>4, <2>1, OpenedView
  <2> QED
    BY <1>1, <1>2, <1>3, <2>1, <2>2, StepIsOpen
<1>5. CASE mode # "read"
  <2>1. View(pool'[s]) = Shut
    BY <1>1, <1>5 DEF Opened, View
  <2>2. Views' = Views
    BY <1>2, <1>3, <2>1 DEF Views
  <2>3. ASSUME NEW x \in Slots, Reader(x), pool[x].health = "ok"
        PROVE  card'[pool[x].file] = card[pool[x].file]
    <3>1. pool[x].file \in Files /\ lock[pool[x].file] > 0 /\ lock[pool[x].file] \in Int
      BY <2>3, ReadersLock DEF Inv, IInv, TypeOK
    <3>2. lock[f] = 0 /\ card \in [Files -> Contents \cup {Absent}]
      BY <1>5 DEF OpenFile, Shared, Inv, IInv, TypeOK
    <3>3. pool[x].file # f
      BY <3>1, <3>2
    <3>4. card' = card \/ card' = [card EXCEPT ![f] = <<>>]
      BY DEF OpenFile
    <3> QED
      BY <3>1, <3>2, <3>3, <3>4
  <2> QED
    BY <1>1, <2>2, <2>3, FilesChange
<1> QED
  BY <1>4, <1>5

LEMMA CloseSeen ==
    ASSUME Inv, NEW s \in Slots, Close(s)
    PROVE  FileStep
<1>1. /\ TypeOK /\ card' = card /\ Returned' = Returned
      /\ \A x \in Slots \ {s} : pool'[x] = pool[x]
      /\ View(pool'[s]) = Shut
  BY DEF Close, Inv, IInv, TypeOK, Returned, Free, View
<1>2. Views' = [Views EXCEPT ![s] = Shut]
  BY <1>1, OneView
<1>3. CASE Reader(s)
  BY <1>1, <1>2, <1>3, ViewParts, StepIsClose
<1>4. CASE ~ Reader(s)
  <2>1. Views[s] = Shut
    BY <1>1, <1>4, ViewParts
  <2>2. Views' = Views
    BY <1>2, <2>1 DEF Views
  <2> QED
    BY <1>1, <2>2, StepIsStutter
<1> QED
  BY <1>3, <1>4

LEMMA WriteSeen ==
    ASSUME Inv, NEW s \in Slots, NEW b \in Written, Write(s, b)
    PROVE  FileStep
<1>1. /\ TypeOK /\ Returned' = Returned /\ pool[s].inUse /\ pool[s].mode # "read"
      /\ pool \in [Slots -> SlotRecords] /\ card \in [Files -> Contents \cup {Absent}]
  BY DEF Write, Inv, IInv, TypeOK, Returned
<1>2. \/ /\ pool[s].health = "ok" /\ card' = [card EXCEPT ![pool[s].file] = Append(@, b)]
         /\ \E h \in {"ok", "failed"} :
              pool' = [pool EXCEPT ![s].dirty = TRUE, ![s].health = h]
      \/ card' = card /\ pool' = [pool EXCEPT ![s].health = Failing(pool[s])]
  BY DEF Write
<1>3. \A x \in Slots \ {s} : pool'[x] = pool[x]
  BY <1>1, <1>2
<1>4. pool'[s].mode = pool[s].mode
  BY <1>1, <1>2 DEF SlotRecords
<1>5. View(pool'[s]) = Shut /\ Views[s] = Shut
  BY <1>1, <1>4, ViewParts DEF View, Reader
<1>6. Views' = Views
  <2>1. Views' = [Views EXCEPT ![s] = View(pool'[s])]
    BY <1>1, <1>3, OneView
  <2> QED
    BY <1>5, <2>1 DEF Views
<1>7. ASSUME NEW x \in Slots, Reader(x), pool[x].health = "ok"
      PROVE  card'[pool[x].file] = card[pool[x].file]
  <2>1. CASE card' = card
    BY <2>1
  <2>2. CASE pool[s].health = "ok" /\ card' = [card EXCEPT ![pool[s].file] = Append(@, b)]
    <3>1. s \in Holders(pool[s].file)
      BY <1>1, <2>2 DEF Holders, Live
    <3>2. pool[x].file # pool[s].file
      BY <1>1, <1>7, <3>1, ReadersLock
    <3>3. pool[x].file \in Files
      BY <1>7, ReadersLock
    <3> QED
      BY <1>1, <2>2, <3>2, <3>3
  <2> QED
    BY <1>2, <2>1, <2>2
<1> QED
  BY <1>1, <1>6, <1>7, FilesChange

LEMMA ReplaceSeen ==
    ASSUME Inv, NEW src \in Temporary, NEW dst \in Files, Replace(src, dst)
    PROVE  FileStep
<1>1. /\ TypeOK /\ Returned' = Returned /\ pool' = pool /\ lock[dst] = 0 /\ src \in Files
      /\ card \in [Files -> Contents \cup {Absent}] /\ lock \in [Files -> Int]
  BY SectorCacheAssumption DEF Replace, Inv, IInv, TypeOK, Returned
<1>2. Views' = Views
  BY <1>1 DEF Views
<1>3. ASSUME NEW x \in Slots, Reader(x), pool[x].health = "ok"
      PROVE  card'[pool[x].file] = card[pool[x].file]
  <2>1. pool[x].file \in Files /\ lock[pool[x].file] > 0
    BY <1>3, ReadersLock
  <2>2. CASE lock[src] = 0 /\ card' = [card EXCEPT ![dst] = card[src], ![src] = Absent]
    BY <1>1, <2>1, <2>2
  <2>3. CASE card' = [card EXCEPT ![dst] = Absent]
    BY <1>1, <2>1, <2>3
  <2> QED
    BY <2>2, <2>3 DEF Replace
<1> QED
  BY <1>1, <1>2, <1>3, FilesChange

\* A handle as FileReads sees it, when it is moved.
LEMMA HandleMoved ==
    ASSUME NEW O, NEW F, NEW B, NEW P, NEW K,
           NEW h \in [open : O, file : F, bytes : B, pos : P, sick : K], NEW q \in P
    PROVE  [h EXCEPT !.pos = q] = [open |-> h.open, file |-> h.file, bytes |-> h.bytes,
                                   pos |-> q, sick |-> h.sick]
OBVIOUS

\* A slot that lost its card is sick, and the others were not open.
LEMMA RemountSeen ==
    ASSUME Inv, Remount
    PROVE  FileStep
<1>1. /\ TypeOK /\ Returned' = Returned /\ pool \in [Slots -> SlotRecords]
      /\ pool' = [s \in Slots |->
                    IF pool[s].inUse THEN [pool[s] EXCEPT !.health = "stale"] ELSE pool[s]]
  BY DEF Remount, Inv, IInv, TypeOK, Returned
<1>2. ASSUME NEW s \in Slots
      PROVE  IF Views[s].open
             THEN /\ Views'[s] \in {Views[s], Reads!Sick(Views[s])}
                  /\ Views'[s].sick \/ card'[Views[s].file] = card[Views[s].file]
             ELSE Views'[s] = Shut
  <2>1. Views'[s] = View(pool'[s])
    BY <1>1, ViewParts
  <2>2. CASE Reader(s)
    <3>1. /\ Views[s].open
          /\ Views[s] = [open |-> TRUE, file |-> pool[s].file, bytes |-> pool[s].bytes,
                         pos |-> pool[s].pos, sick |-> pool[s].health # "ok"]
      BY <1>1, <2>2, ViewParts
    <3>2. /\ pool'[s].inUse /\ pool'[s].mode = "read" /\ pool'[s].file = pool[s].file
          /\ pool'[s].bytes = pool[s].bytes /\ pool'[s].pos = pool[s].pos
          /\ pool'[s].health = "stale"
      BY <1>1, <2>2 DEF Reader, SlotRecords
    <3>3. Views'[s] = [open |-> TRUE, file |-> pool[s].file, bytes |-> pool[s].bytes,
                       pos |-> pool[s].pos, sick |-> TRUE]
      BY <2>1, <3>2 DEF View
    <3>4. Views'[s] = Reads!Sick(Views[s])
      BY <3>1, <3>3 DEF Reads!Sick
    <3>5. Views'[s].sick
      BY <3>3
    <3> QED
      BY <3>1, <3>4, <3>5, Zenon
  <2>3. CASE ~ Reader(s)
    <3>1. ~ Views[s].open
      BY <1>1, <2>3, ViewParts DEF Shut
    <3>2. ~ (pool'[s].inUse /\ pool'[s].mode = "read")
      BY <1>1, <2>3 DEF Reader, SlotRecords
    <3> QED
      BY <2>1, <3>1, <3>2 DEF View
  <2> QED
    BY <2>2, <2>3
<1> QED
  BY <1>1, <1>2, StepIsChange

\* A write-back, the length of the read-ahead and the start of a read are not seen.
LEMMA UnseenSteps ==
    ASSUME Inv, NEW s \in Slots,
           \/ Sync(s)
           \/ \E n \in 0..AheadMax + 1 : SetReadAhead(s, n)
           \/ \E n \in Sizes : BeginRead(s, n)
    PROVE  FileStep
<1>1. TypeOK /\ pool \in [Slots -> SlotRecords]
  BY DEF Inv, IInv, TypeOK
<1>2. card' = card /\ Returned' = Returned
  BY DEF Sync, SetReadAhead, BeginRead, Idle, Returned
<1>3. \/ pool' = pool
      \/ pool' = [pool EXCEPT ![s].dirty = FALSE]
      \/ \E n : pool' = [pool EXCEPT ![s].ahead = n]
  BY DEF Sync, SetReadAhead, BeginRead
<1>4. \A x \in Slots : /\ SameReader(x) /\ pool'[x].file = pool[x].file
                       /\ pool'[x].pos = pool[x].pos /\ pool'[x].health = pool[x].health
  BY <1>1, <1>3 DEF SameReader, SlotRecords
<1> QED
  BY <1>1, <1>2, <1>4, SameViews, StepIsStutter

\* Where a slot is moved to, and that only it is.
LEMMA MovedView ==
    ASSUME TypeOK, NEW s \in Slots, Reader(s), NEW pos,
           pool' = [pool EXCEPT ![s].pos = pos]
    PROVE  Views' = [Views EXCEPT ![s].pos = pos]
<1>1. pool \in [Slots -> SlotRecords]
  BY DEF TypeOK
<1>2. \A x \in Slots \ {s} : pool'[x] = pool[x]
  BY <1>1
<1>3. Views' = [Views EXCEPT ![s] = View(pool'[s])]
  BY <1>2, OneView
<1>4. /\ pool'[s].inUse /\ pool'[s].mode = "read" /\ pool'[s].file = pool[s].file
      /\ pool'[s].bytes = pool[s].bytes /\ pool'[s].pos = pos
      /\ pool'[s].health = pool[s].health
  BY <1>1 DEF Reader, SlotRecords
<1>5. View(pool'[s]) = [open |-> TRUE, file |-> pool[s].file, bytes |-> pool[s].bytes,
                        pos |-> pos, sick |-> pool[s].health # "ok"]
  BY <1>4 DEF View
<1>6. Views[s] = [open |-> TRUE, file |-> pool[s].file, bytes |-> pool[s].bytes,
                  pos |-> pool[s].pos, sick |-> pool[s].health # "ok"]
  BY ViewParts
<1>7. View(pool'[s]) = [open |-> Views[s].open, file |-> Views[s].file,
                        bytes |-> Views[s].bytes, pos |-> pos, sick |-> Views[s].sick]
  BY <1>5, <1>6
<1>8. Views[s] \in [open : BOOLEAN, file : {pool[s].file}, bytes : {pool[s].bytes},
                   pos : {pool[s].pos, pos}, sick : BOOLEAN]
  BY <1>6
<1>9. [Views[s] EXCEPT !.pos = pos] = View(pool'[s])
  BY <1>7, <1>8, HandleMoved
<1> QED
  BY <1>3, <1>9

LEMMA SeekSeen ==
    ASSUME Inv, NEW s \in Slots, NEW offset \in Offsets, Seek(s, offset)
    PROVE  FileStep
<1> DEFINE pos == Least(offset, Len(pool[s].bytes))
<1>1. /\ TypeOK /\ Reader(s) /\ card' = card /\ Returned' = Returned
      /\ pool' = [pool EXCEPT ![s].pos = pos]
  BY DEF Seek, Inv, IInv, TypeOK, Reader, Returned
<1>2. Views[s].open /\ Views[s].bytes = pool[s].bytes
  BY <1>1, ViewParts
<1>3. pos \in 0..Len(Views[s].bytes)
  <2>1. offset \in Nat /\ Len(pool[s].bytes) \in Nat
    BY <1>1, SectorCacheAssumption DEF TypeOK, SlotRecords, Contents
  <2> QED
    BY <1>2, <2>1 DEF Least
<1> HIDE DEF pos
<1>4. Views' = [Views EXCEPT ![s].pos = pos]
  BY <1>1, MovedView
<1> QED
  BY <1>1, <1>2, <1>3, <1>4, StepIsSeek

\* The turns of the loop are not seen while the disk is well.
LEMMA TurnSeen ==
    ASSUME Inv, Hit \/ MissOne \/ StoreAhead \/ StoreWanted
    PROVE  FileStep
<1>1. /\ card' = card /\ pool' = pool /\ call.at \in {"loop", "block"}
      /\ call \in CallRecords
  BY DEF Hit, MissOne, StoreAhead, StoreWanted, Missed, AtLoop, Inv, IInv, TypeOK
<1>2. call'.at \in {"loop", "block"}
  <2>1. ASSUME NEW data, NEW valid, call' = Copied(data, valid)
        PROVE  call'.at = "loop"
    BY <1>1, <2>1, CopiedFields
  <2>2. CASE Hit
    BY <2>1, <2>2 DEF Hit
  <2>3. CASE MissOne
    BY <2>1, <2>3 DEF MissOne
  <2>4. CASE StoreWanted
    BY <2>1, <2>4 DEF StoreWanted
  <2>5. CASE StoreAhead
    <3>1. PICK n, e : call' = [call EXCEPT !.todo = @ \ {n}, !.locked = @ \cup {e}]
      BY <2>5 DEF StoreAhead
    <3> QED
      BY <1>1, <3>1 DEF CallRecords
  <2> QED
    BY <2>2, <2>3, <2>4, <2>5
<1>3. Returned' = Returned
  BY <1>1, <1>2 DEF Returned
<1>4. Views' = Views
  BY <1>1 DEF Views
<1> QED
  BY <1>1, <1>3, <1>4, StepIsStutter

\* A read that fails makes its slot sick.
LEMMA FailedSeen ==
    ASSUME Inv, call.at = "loop", call' = [call EXCEPT !.left = 0], card' = card,
           pool' = [pool EXCEPT ![call.slot].health = Failing(pool[call.slot])]
    PROVE  FileStep
<1> DEFINE s == call.slot
<1>1. /\ TypeOK /\ pool \in [Slots -> SlotRecords] /\ s \in Slots /\ Reader(s)
      /\ call \in CallRecords
  BY DEF Inv, IInv, TypeOK
<1>2. call'.at = "loop"
  BY <1>1 DEF CallRecords
<1>3. Returned' = Returned
  BY <1>2 DEF Returned
<1>4. \A x \in Slots \ {s} : pool'[x] = pool[x]
  BY <1>1
<1>5. /\ pool'[s].inUse /\ pool'[s].mode = "read" /\ pool'[s].file = pool[s].file
      /\ pool'[s].bytes = pool[s].bytes /\ pool'[s].pos = pool[s].pos
      /\ pool'[s].health # "ok"
  BY <1>1 DEF Reader, SlotRecords, Failing
<1>6. Views'[s] = [open |-> TRUE, file |-> pool[s].file, bytes |-> pool[s].bytes,
                   pos |-> pool[s].pos, sick |-> TRUE]
  <2>1. Views'[s] = View(pool'[s])
    BY <1>1, ViewParts
  <2> QED
    BY <1>5, <2>1 DEF View
<1>7. Views[s] = [open |-> TRUE, file |-> pool[s].file, bytes |-> pool[s].bytes,
                  pos |-> pool[s].pos, sick |-> pool[s].health # "ok"]
  BY <1>1, ViewParts
<1>8. Views'[s] = Reads!Sick(Views[s]) /\ Views'[s].sick /\ Views[s].open
  BY <1>6, <1>7 DEF Reads!Sick
<1>9. ASSUME NEW x \in Slots
      PROVE  IF Views[x].open
             THEN /\ Views'[x] \in {Views[x], Reads!Sick(Views[x])}
                  /\ Views'[x].sick \/ card'[Views[x].file] = card[Views[x].file]
             ELSE Views'[x] = Shut
  <2>1. CASE x = s
    BY <1>8, <2>1, Zenon
  <2>2. CASE x # s
    <3>1. Views'[x] = Views[x]
      BY <1>4, <2>2 DEF Views
    <3>2. ~ Views[x].open => Views[x] = Shut
      BY <1>1, ViewParts
    <3> QED
      BY <3>1, <3>2, Zenon
  <2> QED
    BY <2>1, <2>2
<1> QED
  BY <1>3, <1>9, StepIsChange

\* The one read of a block is not seen, unless it fails.
LEMMA MissBlockSeen ==
    ASSUME Inv, MissBlock
    PROVE  FileStep
<1>1. call.at = "loop" /\ call \in CallRecords /\ card' = card
  BY DEF MissBlock, Missed, AtLoop, Inv, IInv, TypeOK
<1>2. CASE pool' = pool /\ call'.at = "block"
  <2>1. Returned' = Returned /\ Views' = Views
    BY <1>1, <1>2 DEF Returned, Views
  <2> QED
    BY <1>1, <2>1, StepIsStutter
<1>3. CASE /\ pool' = [pool EXCEPT ![call.slot].health = Failing(pool[call.slot])]
           /\ call' = [call EXCEPT !.left = 0]
  BY <1>1, <1>3, FailedSeen
<1>4. \A b, t : call' = [call EXCEPT !.at = "block", !.block = b, !.todo = t] => call'.at = "block"
  BY <1>1 DEF CallRecords
<1> QED
  BY <1>2, <1>3, <1>4 DEF MissBlock

\* The end of a read gives the bytes of the file from the place of its slot, and moves it.
LEMMA EndReadSeen ==
    ASSUME Inv, ReadSoFar, EndRead
    PROVE  FileStep
<1> DEFINE s == call.slot
           v == pool[s]
<1>1. /\ TypeOK /\ s \in Slots /\ Reader(s) /\ call.at = "loop" /\ call.left = 0
      /\ card' = card /\ pool' = [pool EXCEPT ![s].pos = call.offset]
      /\ call' = [Idle EXCEPT !.at = "done", !.asked = call.asked, !.got = call.got]
  BY DEF EndRead, Inv, IInv, TypeOK
<1>2. /\ call.asked > 0
      /\ call.offset = v.pos + Len(call.got)
      /\ call.offset + call.left <= Len(v.bytes)
      /\ call.got = SubSeq(v.bytes, v.pos + 1, call.offset)
      /\ \/ v.health # "ok"
         \/ Len(call.got) + call.left = call.asked
         \/ call.offset + call.left = Len(v.bytes)
  BY <1>1 DEF ReadSoFar
<1>3. /\ v.pos \in Nat /\ Len(v.bytes) \in Nat /\ call.offset \in Nat /\ Len(call.got) \in Nat
      /\ call.asked \in Nat
  BY <1>1 DEF TypeOK, SlotRecords, Contents, CallRecords
<1>4. Returned'.asked = call.asked /\ Returned'.bytes = call.got
  BY <1>1 DEF Returned, Idle
<1>5. /\ Views[s].open /\ Views[s].bytes = v.bytes /\ Views[s].pos = v.pos
      /\ Views[s].sick = (v.health # "ok")
  BY <1>1, ViewParts
<1>6. Views' = [Views EXCEPT ![s].pos = call.offset]
  BY <1>1, MovedView
<1>7. /\ Len(call.got) <= Len(v.bytes) - v.pos
      /\ v.health # "ok" \/ Len(call.got) = call.asked \/ Len(call.got) = Len(v.bytes) - v.pos
  <2>1. call.left = 0
    BY <1>1
  <2>2. /\ call.offset = v.pos + Len(call.got) /\ call.offset + call.left <= Len(v.bytes)
        /\ \/ v.health # "ok"
           \/ Len(call.got) + call.left = call.asked
           \/ call.offset + call.left = Len(v.bytes)
    BY <1>2
  <2> HIDE DEF v
  <2> QED
    BY <1>3, <2>1, <2>2
<1>8. /\ Returned'.bytes = SubSeq(Views[s].bytes, Views[s].pos + 1,
                                  Views[s].pos + Len(Returned'.bytes))
      /\ Views' = [Views EXCEPT ![s].pos = Views[s].pos + Len(Returned'.bytes)]
  BY <1>2, <1>4, <1>5, <1>6
<1>9. /\ Returned'.asked > 0 /\ Len(Returned'.bytes) <= Len(Views[s].bytes) - Views[s].pos
      /\ \/ Views[s].sick
         \/ Len(Returned'.bytes) = Returned'.asked
         \/ Len(Returned'.bytes) = Len(Views[s].bytes) - Views[s].pos
  BY <1>2, <1>4, <1>5, <1>7
<1> QED
  BY <1>1, <1>5, <1>8, <1>9, StepIsRead

\* Every step of the cache is one of its readers' view of the files, or none.
LEMMA NextSeen ==
    ASSUME ReadInv, ReadSoFar, [Next]_vars
    PROVE  FileStep
<1>1. Inv
  BY DEF ReadInv
<1>2. ASSUME NEW s \in Slots, NEW f \in Files, NEW mode \in Modes, OpenFile(s, f, mode)
      PROVE  FileStep
  BY <1>1, <1>2, OpenFileSeen
<1>3. ASSUME NEW s \in Slots, Close(s)
      PROVE  FileStep
  BY <1>1, <1>3, CloseSeen
<1>4. ASSUME NEW s \in Slots, NEW b \in Written, Write(s, b)
      PROVE  FileStep
  BY <1>1, <1>4, WriteSeen
<1>5. ASSUME NEW s \in Slots,
             \/ Sync(s)
             \/ \E n \in 0..AheadMax + 1 : SetReadAhead(s, n)
             \/ \E n \in Sizes : BeginRead(s, n)
      PROVE  FileStep
  BY <1>1, <1>5, UnseenSteps
<1>6. ASSUME NEW s \in Slots, NEW offset \in Offsets, Seek(s, offset)
      PROVE  FileStep
  BY <1>1, <1>6, SeekSeen
<1>7. ASSUME NEW src \in Temporary, NEW dst \in Files, Replace(src, dst)
      PROVE  FileStep
  BY <1>1, <1>7, ReplaceSeen
<1>8. CASE Remount
  BY <1>1, <1>8, RemountSeen
<1>9. CASE Hit \/ MissOne \/ StoreAhead \/ StoreWanted
  BY <1>1, <1>9, TurnSeen
<1>10. CASE MissOneFails
  <2>1. /\ call.at = "loop" /\ call' = [call EXCEPT !.left = 0] /\ card' = card
        /\ pool' = [pool EXCEPT ![call.slot].health = Failing(pool[call.slot])]
    BY <1>10 DEF MissOneFails, Missed, AtLoop
  <2> QED
    BY <1>1, <2>1, FailedSeen
<1>11. CASE MissBlock
  BY <1>1, <1>11, MissBlockSeen
<1>12. CASE EndRead
  BY <1>1, <1>12, EndReadSeen
<1>13. CASE Return
  <2>1. Returned' = [asked |-> 0, bytes |-> <<>>] /\ Views' = Views /\ card' = card
    BY <1>13 DEF Return, Idle, Returned, Views
  <2> QED
    BY <2>1, StepIsForget
<1>14. CASE UNCHANGED vars
  <2>1. Returned' = Returned /\ Views' = Views /\ card' = card
    BY <1>14 DEF vars, Returned, Views
  <2> QED
    BY <2>1, StepIsStutter
<1> QED
  BY <1>2, <1>3, <1>4, <1>5, <1>6, <1>7, <1>8, <1>9, <1>10, <1>11, <1>12, <1>13, <1>14
  DEF Next, ReadSteps

\* Whoever reads is given the bytes of the file as it was when it was opened, in order
\* and complete, whatever the cache of purrgo_fs_read went through; provided that a read
\* of the disk that fails leaves its buffer alone.  The other disks leave junk behind an
\* entry's key.
THEOREM ReadersSeeTheFile ==
    ASSUME ~ PartFails
    PROVE  Spec => ReadsTheFile
<1>1. Init => Reads!Init
  <2>1. ASSUME Init PROVE Reads!Init
    BY <2>1 DEF Init, Idle, Free, Reader, Reads!Init, Reads!Closed, Reads!Nothing
  <2> QED
    BY <2>1
<1>2. ReadInv /\ ReadSoFar /\ [Next]_vars => [Reads!Next]_(Reads!vars)
  BY NextSeen DEF FileStep
<1>3. ReadInv /\ ReadSoFar /\ [Next]_vars => ReadInv' /\ ReadSoFar'
  BY NextRead
<1>4. Init => ReadInv /\ ReadSoFar
  BY InitRead
<1> QED
  BY <1>1, <1>2, <1>3, <1>4, PTL DEF Spec, ReadsTheFile, Reads!Spec
=============================================================================
