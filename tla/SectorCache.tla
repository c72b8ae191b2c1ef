---------------------------- MODULE SectorCache ----------------------------
(***************************************************************************)
(* fs_hal_stm32.c: a pool of file slots over FatFs and one cache of        *)
(* sectors that all of them share.  An entry is found by slot and sector,  *)
(* so what a slot's last file left behind must never be found by its next  *)
(* one.  Reads go through the cache, one sector or one aligned block at a  *)
(* time; the sectors of a block are stored one by one, each taking the     *)
(* place of the oldest entry.                                              *)
(*                                                                         *)
(* Of FatFs there is what this layer sees of it: its table of open files   *)
(* refuses to open a file that is being written or to write one that is    *)
(* open, its handles die with the mount, and an error of the disk stays    *)
(* with the handle it happened to.                                         *)
(***************************************************************************)
EXTENDS Integers, Sequences, FiniteSets

CONSTANTS Slots,       (* of file_pool, numbered                            *)
          CacheSize,   (* PURRGO_FS_LRU_ENTRIES                             *)
          AheadMax,    (* PURRGO_FS_READ_AHEAD_MAX_SECTORS                  *)
          SectorSize,  (* LRU_SECTOR_SIZE                                   *)
          PartFails,   (* may a read that fails have written to its buffer? *)
          Files,
          Temporary,   (* those that are written to replace another one     *)
          Absent,      (* what a name that is not on the card holds         *)
          Cards,       (* the cards there are: the contents of their files  *)
          Written,     (* the bytes the program writes                      *)
          LenMax,      (* bound: the longest file the program writes        *)
          Offsets,     (* bound: where the program seeks to                 *)
          Sizes        (* bound: how much it reads at once                  *)

Byte == Nat
Contents == Seq(Byte)

ASSUME SectorCacheAssumption ==
    /\ IsFiniteSet(Slots) /\ Slots \subseteq Nat
    /\ CacheSize \in Nat /\ AheadMax \in Nat \ {0} /\ AheadMax < CacheSize
    /\ SectorSize \in Nat \ {0}
    /\ PartFails \in BOOLEAN
    /\ Absent \notin Contents
    /\ Temporary \subseteq Files
    /\ Cards \subseteq [Files -> Contents \cup {Absent}]
    /\ Written \subseteq Byte
    /\ LenMax \in Nat /\ Offsets \subseteq Nat /\ Sizes \subseteq Nat \ {0}

VARIABLES
    card,    (* the contents of the files on the card                       *)
    lock,    (* FatFs's table of open files                                 *)
    pool,    (* file_pool                                                   *)
    cache,   (* lru_cache; last_used is the rank of an entry                *)
    call     (* the locals of the purrgo_fs_read under way                  *)

vars == <<card, lock, pool, cache, call>>

Entries == 1..CacheSize

\* A sector: its bytes, and zeros behind the end of the file.
Sector(b, n) ==
    [i \in 1..SectorSize |->
        IF n * SectorSize + i <= Len(b) THEN b[n * SectorSize + i] ELSE 0]

\* What a read that failed may leave in its buffer.
Junk == [i \in 1..SectorSize |-> -1]

Least(a, b) == IF a < b THEN a ELSE b

\* A slot.  bytes are what a file opened to be read held then (history); health is
\* that of its handle: "failed" with FIL.err set, "stale" of an earlier mount; dirty
\* is FA_MODIFIED.
Free == [inUse |-> FALSE, file |-> Absent, mode |-> "read", bytes |-> <<>>, pos |-> 0,
         ahead |-> 1, health |-> "ok", dirty |-> FALSE]

Opened(f, mode, bytes, dirty) ==
    [inUse |-> TRUE, file |-> f, mode |-> mode,
     bytes |-> IF mode = "read" THEN bytes ELSE <<>>, pos |-> 0,
     ahead |-> 1, health |-> "ok", dirty |-> dirty]

Live(v) == v.health # "stale"

Failing(v) == IF v.health = "ok" THEN "failed" ELSE v.health

\* What an entry holds that is not valid is never looked at.
Unused == [valid |-> FALSE, slot |-> 0, sector |-> 0, data |-> Sector(<<>>, 0), used |-> 0]

Idle == [at |-> "idle", slot |-> 0, offset |-> 0, asked |-> 0, left |-> 0, got |-> <<>>,
         block |-> <<0, 0>>, todo |-> {}, locked |-> {}]

Init ==
    /\ card \in Cards
    /\ lock = [f \in Files |-> 0]
    /\ pool = [s \in Slots |-> Free]
    /\ cache = [e \in Entries |-> Unused]
    /\ call = Idle

----------------------------------------------------------------------------
(* The cache.                                                              *)

\* invalidate_cache_for_file
Invalidated(s) ==
    [e \in Entries |-> IF cache[e].slot = s THEN Unused ELSE cache[e]]

Found_AnySlot(s, n) == {e \in Entries : cache[e].valid /\ cache[e].sector = n}

\* lru_find
Found(s, n) == {e \in Entries : cache[e].valid /\ cache[e].slot = s /\ cache[e].sector = n}

\* lru_victim: the first free entry, else the oldest.
Victims(locked) ==
    LET able == Entries \ locked
        free == {e \in able : ~cache[e].valid}
    IN  IF free # {} THEN {e \in free : \A x \in free : e <= x}
        ELSE {e \in able : \A x \in able : cache[e].used <= cache[x].used}

\* last_used = ++lru_counter
Touched(e, entry) ==
    [x \in Entries |->
        IF x = e THEN [entry EXCEPT !.used = CacheSize]
        ELSE IF cache[x].used > cache[e].used THEN [cache[x] EXCEPT !.used = @ - 1]
        ELSE cache[x]]

\* lru_store
Stored(e, s, n) ==
    Touched(e, [valid |-> TRUE, slot |-> s, sector |-> n,
                data |-> Sector(pool[s].bytes, n), used |-> 0])

----------------------------------------------------------------------------
(* Opening and closing.                                                    *)

\* inc_share and dec_share: how often a file is open to read, -1 to write.
Shared(f, mode) == IF mode = "read" THEN lock[f] >= 0 ELSE lock[f] = 0
Taken(f, mode) == [lock EXCEPT ![f] = IF mode = "read" THEN @ + 1 ELSE -1]
Given(f) == [lock EXCEPT ![f] = IF @ > 0 THEN @ - 1 ELSE 0]

\* purrgo_fs_open that succeeds; the file is created or truncated when the mode
\* says so.  The first free slot is taken.
OpenFile(s, f, mode) ==
    /\ call.at = "idle"
    /\ ~pool[s].inUse /\ \A x \in Slots : ~pool[x].inUse => s <= x
    /\ Shared(f, mode)
    /\ mode = "read" => card[f] # Absent
    /\ card' = IF mode = "create" \/ card[f] = Absent THEN [card EXCEPT ![f] = <<>>] ELSE card
    /\ lock' = Taken(f, mode)
    /\ pool' = [pool EXCEPT ![s] = Opened(f, mode, card'[f], mode = "create" \/ card[f] = Absent)]
    /\ cache' = Invalidated(s)
    /\ UNCHANGED call

Close_Once(s) ==
    /\ call.at = "idle" /\ pool[s].inUse
    /\ \E synced \in BOOLEAN :
        /\ ~Live(pool[s]) \/ ~pool[s].dirty => synced = Live(pool[s])
        /\ lock' = IF synced THEN Given(pool[s].file) ELSE lock
    /\ pool' = [pool EXCEPT ![s] = Free]
    /\ cache' = Invalidated(s)
    /\ UNCHANGED <<card, call>>

Close_KeepsCache(s) ==
    /\ call.at = "idle" /\ pool[s].inUse
    /\ lock' = IF Live(pool[s]) THEN Given(pool[s].file) ELSE lock
    /\ pool' = [pool EXCEPT ![s] = Free]
    /\ UNCHANGED <<card, cache, call>>

\* purrgo_fs_close.  FatFs keeps the lock when it cannot write what is left; the
\* second close, with nothing to write, gives it back.  A handle of an earlier
\* mount has no lock any more.
Close(s) ==
    /\ call.at = "idle" /\ pool[s].inUse
    /\ lock' = IF Live(pool[s]) THEN Given(pool[s].file) ELSE lock
    /\ pool' = [pool EXCEPT ![s] = Free]
    /\ cache' = Invalidated(s)
    /\ UNCHANGED <<card, call>>

\* purrgo_fs_write: all of it, or an error with or without a part.
Write(s, b) ==
    LET v == pool[s]
        f == v.file
    IN  /\ call.at = "idle" /\ v.inUse /\ v.mode # "read"
        /\ cache' = Invalidated(s)
        /\ \/ /\ v.health = "ok" /\ Len(card[f]) < LenMax
              /\ card' = [card EXCEPT ![f] = Append(@, b)]
              /\ \E health \in {"ok", "failed"} :
                    pool' = [pool EXCEPT ![s].dirty = TRUE, ![s].health = health]
           \/ /\ pool' = [pool EXCEPT ![s].health = Failing(v)]
              /\ UNCHANGED card
        /\ UNCHANGED <<lock, call>>

\* purrgo_fs_sync that succeeds; one that fails changes nothing here.
Sync(s) ==
    /\ call.at = "idle" /\ pool[s].inUse /\ Live(pool[s]) /\ pool[s].dirty
    /\ pool' = [pool EXCEPT ![s].dirty = FALSE]
    /\ UNCHANGED <<card, lock, cache, call>>

\* purrgo_fs_replace: FatFs refuses a file that is open.  The rename may fail when
\* dst is gone already.
Replace(src, dst) ==
    /\ call.at = "idle" /\ src # dst /\ lock[dst] = 0
    /\ \/ /\ lock[src] = 0 /\ card[src] # Absent
          /\ card' = [card EXCEPT ![dst] = card[src], ![src] = Absent]
       \/ card' = [card EXCEPT ![dst] = Absent]
    /\ UNCHANGED <<lock, pool, cache, call>>

SetReadAhead_Unclamped(s, n) ==
    /\ call.at = "idle" /\ pool[s].inUse /\ pool[s].mode = "read"
    /\ pool' = [pool EXCEPT ![s].ahead = n]
    /\ UNCHANGED <<card, lock, cache, call>>

\* purrgo_fs_set_read_ahead
SetReadAhead(s, n) ==
    /\ call.at = "idle" /\ pool[s].inUse /\ pool[s].mode = "read"
    /\ pool' = [pool EXCEPT ![s].ahead = IF n < 1 THEN 1 ELSE Least(n, AheadMax)]
    /\ UNCHANGED <<card, lock, cache, call>>

\* purrgo_fs_seek
Seek(s, offset) ==
    /\ call.at = "idle" /\ pool[s].inUse /\ pool[s].mode = "read"
    /\ pool' = [pool EXCEPT ![s].pos = Least(offset, Len(pool[s].bytes))]
    /\ UNCHANGED <<card, lock, cache, call>>

\* f_mount(NULL), and later the same card or another one: the table of open files
\* is emptied and no handle is valid any more.
Remount ==
    /\ call.at = "idle"
    /\ card' \in Cards \cup {card}
    /\ lock' = [f \in Files |-> 0]
    /\ pool' = [s \in Slots |->
                 IF pool[s].inUse THEN [pool[s] EXCEPT !.health = "stale"] ELSE pool[s]]
    /\ UNCHANGED <<cache, call>>

----------------------------------------------------------------------------
(* purrgo_fs_read.                                                         *)

\* Up to the loop: no more than the file has.
BeginRead(s, n) ==
    /\ call.at = "idle" /\ pool[s].inUse /\ pool[s].mode = "read"
    /\ pool[s].pos < Len(pool[s].bytes)
    /\ call' = [Idle EXCEPT !.at = "loop", !.slot = s, !.offset = pool[s].pos, !.asked = n,
                            !.left = Least(n, Len(pool[s].bytes) - pool[s].pos)]
    /\ UNCHANGED <<card, lock, pool, cache>>

\* The sector the loop is at.
Wanted == call.offset \div SectorSize

\* One turn of the loop with a sector of which so many bytes were read.  A sector
\* that is not full is the last one.
Copied(data, valid) ==
    LET from == call.offset % SectorSize
        chunk == Least(Least(SectorSize - from, call.left), valid - from)
        left == IF valid < SectorSize THEN 0 ELSE call.left - chunk
    IN  IF valid <= from THEN [call EXCEPT !.at = "loop", !.left = 0]
        ELSE [call EXCEPT !.at = "loop", !.left = left, !.offset = @ + chunk,
                          !.got = @ \o SubSeq(data, from + 1, from + chunk),
                          !.block = <<0, 0>>, !.locked = {}]

\* How many bytes of the file sector n has.
Bytes(s, n) == Least(SectorSize, Len(pool[s].bytes) - n * SectorSize)

AtLoop == call.at = "loop" /\ call.left > 0

\* read_cached_sector: it is there.
Hit ==
    /\ AtLoop
    /\ \E e \in Found(call.slot, Wanted) :
        /\ \A x \in Found(call.slot, Wanted) : e <= x
        /\ cache' = Touched(e, cache[e])
        /\ call' = Copied(cache[e].data, SectorSize)
    /\ UNCHANGED <<card, lock, pool>>

Missed == AtLoop /\ Found(call.slot, Wanted) = {}

CanRead(s) == pool[s].health = "ok"

\* A miss without read-ahead: FatFs reads into the entry.
MissOne ==
    /\ Missed /\ pool[call.slot].ahead = 1 /\ CanRead(call.slot)
    /\ \E e \in Victims({}) :
        /\ cache' = Stored(e, call.slot, Wanted)
        /\ call' = Copied(cache'[e].data, Bytes(call.slot, Wanted))
    /\ UNCHANGED <<card, lock, pool>>

\* The disk fails: nothing is read, and the entry keeps its key.
MissOneFails ==
    /\ Missed /\ pool[call.slot].ahead = 1
    /\ \/ UNCHANGED cache
       \/ /\ PartFails /\ CanRead(call.slot)
          /\ \E e \in Victims({}) : cache' = [cache EXCEPT ![e].data = Junk]
    /\ pool' = [pool EXCEPT ![call.slot].health = Failing(pool[call.slot])]
    /\ call' = [call EXCEPT !.left = 0]
    /\ UNCHANGED <<card, lock>>

\* read_block_cached, the one read of the block: its first sector, and the first
\* one after it or after the end of the file.
MissBlock ==
    LET s == call.slot
        base == Wanted - (Wanted % pool[s].ahead)
        inFile == (Len(pool[s].bytes) + SectorSize - 1) \div SectorSize
        end == Least(base + pool[s].ahead, inFile)
    IN  /\ Missed /\ pool[s].ahead > 1
        /\ \/ /\ CanRead(s)
              /\ call' = [call EXCEPT !.at = "block", !.block = <<base, end>>,
                                      !.todo = (base..end - 1) \ {Wanted}]
              /\ UNCHANGED pool
           \/ /\ pool' = [pool EXCEPT ![s].health = Failing(pool[s])]
              /\ call' = [call EXCEPT !.left = 0]
        /\ UNCHANGED <<card, lock, cache>>

StoreAhead_NotLocked ==
    /\ call.at = "block"
    /\ \E n \in call.todo :
        /\ \A m \in call.todo : n <= m
        /\ LET found == Found(call.slot, n)
           IN  \E e \in IF found # {} THEN found ELSE Victims(call.locked) :
                /\ call' = [call EXCEPT !.todo = @ \ {n},
                                        !.locked = IF found = {} THEN @ \cup {e} ELSE @]
                /\ cache' = IF found # {} THEN cache ELSE Stored(e, call.slot, n)
    /\ UNCHANGED <<card, lock, pool>>

StoreAhead_NotLooked ==
    /\ call.at = "block"
    /\ \E n \in call.todo :
        /\ \A m \in call.todo : n <= m
        /\ \E e \in Victims(call.locked) :
            /\ call' = [call EXCEPT !.todo = @ \ {n}, !.locked = @ \cup {e}]
            /\ cache' = Stored(e, call.slot, n)
    /\ UNCHANGED <<card, lock, pool>>

\* The other sectors of the block, the lowest first.
StoreAhead ==
    /\ call.at = "block"
    /\ \E n \in call.todo :
        /\ \A m \in call.todo : n <= m
        /\ LET found == Found(call.slot, n)
           IN  \E e \in IF found # {} THEN found ELSE Victims(call.locked) :
                /\ call' = [call EXCEPT !.todo = @ \ {n}, !.locked = @ \cup {e}]
                /\ cache' = IF found # {} THEN cache ELSE Stored(e, call.slot, n)
    /\ UNCHANGED <<card, lock, pool>>

\* The wanted one comes last.
StoreWanted ==
    /\ call.at = "block" /\ call.todo = {}
    /\ \E e \in Victims(call.locked) :
        /\ cache' = Stored(e, call.slot, Wanted)
        /\ call' = Copied(cache'[e].data, Bytes(call.slot, Wanted))
    /\ UNCHANGED <<card, lock, pool>>

\* The place is kept where the loop ended, and the bytes returned.
EndRead ==
    /\ call.at = "loop" /\ call.left = 0
    /\ pool' = [pool EXCEPT ![call.slot].pos = call.offset]
    /\ call' = [Idle EXCEPT !.at = "done", !.asked = call.asked, !.got = call.got]
    /\ UNCHANGED <<card, lock, cache>>

Return ==
    /\ call.at = "done"
    /\ call' = Idle
    /\ UNCHANGED <<card, lock, pool, cache>>

Modes == {"read", "create", "append"}

ReadSteps ==
    Hit \/ MissOne \/ MissOneFails \/ MissBlock \/ StoreAhead \/ StoreWanted \/ EndRead \/ Return

Next ==
    \/ \E s \in Slots :
        \/ \E f \in Files, mode \in Modes : OpenFile(s, f, mode)
        \/ Close(s)
        \/ \E b \in Written : Write(s, b)
        \/ Sync(s)
        \/ \E n \in 0..AheadMax + 1 : SetReadAhead(s, n)
        \/ \E offset \in Offsets : Seek(s, offset)
        \/ \E n \in Sizes : BeginRead(s, n)
    \/ \E src \in Temporary, dst \in Files : Replace(src, dst)
    \/ Remount
    \/ ReadSteps

Spec == Init /\ [][Next]_vars

----------------------------------------------------------------------------
Reader(s) == pool[s].inUse /\ pool[s].mode = "read"

Reads == INSTANCE FileReads WITH
    Handles <- Slots,
    disk <- card,
    open <- [s \in Slots |->
                IF Reader(s)
                THEN [open |-> TRUE, file |-> pool[s].file, bytes |-> pool[s].bytes,
                      pos |-> pool[s].pos, sick |-> pool[s].health # "ok"]
                ELSE [open |-> FALSE, file |-> Absent, bytes |-> <<>>, pos |-> 0,
                      sick |-> FALSE]],
    given <- IF call.at = "done" THEN [asked |-> call.asked, bytes |-> call.got]
             ELSE [asked |-> 0, bytes |-> <<>>]

SlotRecords ==
    [inUse : BOOLEAN, file : Files \cup {Absent}, mode : Modes, bytes : Contents, pos : Nat,
     ahead : 1..AheadMax, health : {"ok", "failed", "stale"}, dirty : BOOLEAN]

EntryRecords ==
    [valid : BOOLEAN, slot : Slots \cup {0}, sector : Nat,
     data : [1..SectorSize -> Byte \cup {-1}], used : 0..CacheSize]

CallRecords ==
    [at : {"idle", "loop", "block", "done"}, slot : Slots \cup {0}, offset : Nat,
     asked : Nat, left : Nat, got : Seq(Byte \cup {-1}), block : Nat \X Nat,
     todo : SUBSET Nat, locked : SUBSET Entries]

TypeOK ==
    /\ card \in [Files -> Contents \cup {Absent}]
    /\ lock \in [Files -> Int]
    /\ pool \in [Slots -> SlotRecords]
    /\ cache \in [Entries -> EntryRecords]
    /\ call \in CallRecords
    /\ \A s \in Slots : pool[s].inUse => pool[s].file \in Files
    /\ call.at \in {"loop", "block"} => call.slot \in Slots /\ Reader(call.slot)

\* An entry that can be found holds its sector of the file its slot has open now,
\* as that was opened: nothing of an earlier file or mount, of another slot, or of
\* a shorter version of the file.
CacheCoherent ==
    \A e \in Entries : cache[e].valid =>
        /\ cache[e].slot \in Slots /\ Reader(cache[e].slot)
        /\ \/ cache[e].data = Sector(pool[cache[e].slot].bytes, cache[e].sector)
           \/ PartFails /\ cache[e].data = Junk

\* A sector has one place in the cache, and so one truth.
NoDuplicates ==
    \A d, e \in Entries :
        /\ cache[d].valid /\ cache[e].valid
        /\ cache[d].slot = cache[e].slot /\ cache[d].sector = cache[e].sector
        => d = e

Holders(f) == {s \in Slots : pool[s].inUse /\ Live(pool[s]) /\ pool[s].file = f}

\* The locks are those of the open files of this mount: no failed close leaves one
\* behind that would keep the next open out until the card is mounted anew.
LocksMatchSlots ==
    \A f \in Files :
        IF \E s \in Holders(f) : pool[s].mode # "read"
        THEN lock[f] = -1 /\ Cardinality(Holders(f)) = 1
        ELSE lock[f] = Cardinality(Holders(f))

\* Whoever reads is given the bytes of the file, in order and complete, through
\* hits, misses, read-ahead, reused slots and remounts.
ReadsTheFile == Reads!Spec

\* After a read of a block all its sectors are in the cache: storing one has not
\* put out another.
BlockStays ==
    [][call.at = "block" /\ call'.at = "loop" =>
        \A n \in call.block[1]..call.block[2] - 1 :
            \E e \in Entries : /\ cache'[e].valid /\ cache'[e].slot = call.slot
                               /\ cache'[e].sector = n]_vars

\* What is found in the cache while a block is stored is the same as what was read
\* (the comment at fs_hal_stm32.c:189).
FoundIsTheSame ==
    call.at = "block" =>
        \A n \in call.todo : \A e \in Found(call.slot, n) :
            cache[e].data = Sector(pool[call.slot].bytes, n)
=============================================================================
