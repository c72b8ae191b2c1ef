---------------------------- MODULE TrackLogger ----------------------------
(***************************************************************************)
(* The GPX track logger (src/core/track_logger.c) and the one file it      *)
(* keeps on the card.                                                      *)
(*                                                                         *)
(* The C statics and the files are one record, tl, because every handler   *)
(* is a chain of calls that each may fail half-way: an operator below maps *)
(* a record to the set of records a call may leave behind, so a handler is *)
(* the composition of its calls, in the code's order.                      *)
(*                                                                         *)
(* Time and position are reduced to the outcomes of the comparisons        *)
(* add_point makes (a Fix, below).                                         *)
(***************************************************************************)
EXTENDS GpxFile, FiniteSets

CONSTANTS
    TrackIds,                    (* what a fix's date may give as file number *)
    LOGGER_NAME_MAX_ATTEMPTS,    (* names probed for a new file               *)
    LOGGER_SYNC_POINTS,          (* points between two f_sync                 *)
    LOGGER_OUTLIER_RESET_COUNT,  (* agreeing outliers that move the reference *)
    TRACK_RAM_MAX_POINTS,        (* size of the RAM ring                      *)
    MaxPoints,                   (* bound: points accepted in a behaviour     *)
    Faults,                      (* what the card may do wrong                *)
    NoName                       (* s_active_filename is empty                *)

\* The faults: a short f_write, a failed f_sync, a file that does not open for
\* append, one that cannot be created, an f_close that loses what was written
\* since the last sync, an existing file that does not open for reading.
FaultKinds == {"write", "sync", "append", "create", "lossyClose", "probe"}

Names == { id + a : id \in TrackIds, a \in 0..(LOGGER_NAME_MAX_ATTEMPTS - 1) }

ASSUME TrackLoggerAssumption ==
    /\ TrackIds \subseteq Nat
    /\ LOGGER_NAME_MAX_ATTEMPTS \in Nat \ {0}
    /\ LOGGER_SYNC_POINTS \in Nat \ {0}
    /\ LOGGER_OUTLIER_RESET_COUNT \in Nat \ {0, 1}
    /\ TRACK_RAM_MAX_POINTS \in Nat \ {0}
    /\ MaxPoints \in Nat
    /\ Faults \subseteq FaultKinds
    /\ NoName \notin Nat

\* EXPEDITION differs from STANDARD in the distances behind a Fix's motion only.
Modes == {"STANDARD", "OFF"}

\* A valid fix as add_point sees it.  newDay: the local day is not the track's.
\* motion: a jump is farther from the last recorded point than 500 m/s allows, an
\* agreeing jump is also near the previous rejected one; otherwise distance, turn
\* or timeout ask for a point ("far") or not ("near").  due: 60 s have passed
\* since the last sync.  Fixes the quality filter drops, and fixes without a
\* usable date, leave add_point with no change.
Fix == [newDay : BOOLEAN, motion : {"jump", "agreeing jump", "far", "near"},
        due : BOOLEAN]

VARIABLE tl

(***************************************************************************)
(* tl.files and tl.disk are the directory and what would be read back      *)
(* after a power loss; tl.data is what FatFs has accepted for the open     *)
(* file (tl.open is active_file # NULL).  tl.stream is a history: every    *)
(* string write_to_buffer took for the current file.  A point's name is    *)
(* its ram_track_serial; tl.serial is not reset by a power loss, so names  *)
(* stay unique across boots (the code compares serials of one boot only).  *)
(***************************************************************************)
Boot(files, disk, serial) ==
    [state |-> "IDLE", mode |-> "STANDARD", name |-> NoName,
     open |-> FALSE, data |-> <<>>, buf |-> <<>>, stream |-> <<>>,
     first |-> TRUE, unsynced |-> 0, outliers |-> 0,
     ring |-> [j \in 0..(TRACK_RAM_MAX_POINTS - 1) |-> 0],
     head |-> 0, count |-> 0, serial |-> serial,
     files |-> files, disk |-> disk]

Init == tl = Boot({}, [n \in Names |-> <<>>], 0)

----------------------------------------------------------------------------
(* FatFs, behind fs_hal.                                                   *)

\* f_sync, or a close that works: the directory entry has the file's size.
Persisted(w) == [w EXCEPT !.disk[w.name] = w.data]

Closed(w) == [w EXCEPT !.open = FALSE, !.data = <<>>]

\* purrgo_fs_close: the slot is released even when f_close fails, and the
\* callers do not let the result change the logger's state.
Close(w) ==
    {Closed(Persisted(w))}
        \cup (IF "lossyClose" \in Faults THEN {Closed(w)} ELSE {})

\* purrgo_fs_open(name, FS_WRITE_APPEND): FA_OPEN_ALWAYS, so a missing file is
\* created.
Appending(w) ==
    [w EXCEPT !.state = "RECORDING", !.open = TRUE, !.data = w.disk[w.name],
              !.files = @ \cup {w.name}]

\* The first k units of the buffer reached FatFs, the rest moved to its front.
Written(w, k) ==
    [w EXCEPT !.data = @ \o SubSeq(w.buf, 1, k),
              !.buf = SubSeq(w.buf, k + 1, Len(w.buf))]

----------------------------------------------------------------------------
(* The buffer.  flush and sync are only reached with the file open.        *)

FlushOk(w) == {Written(w, Len(w.buf))}

FlushFail_DropsTail(w) ==
    { [Written(w, k) EXCEPT !.buf = <<>>] :
        k \in (IF "write" \in Faults THEN 0..(Len(w.buf) - 1) ELSE {}) }

FlushFail_KeepsAll(w) ==
    { [Written(w, k) EXCEPT !.buf = w.buf] :
        k \in (IF "write" \in Faults THEN 0..(Len(w.buf) - 1) ELSE {}) }

FlushFail(w) ==
    { Written(w, k) :
        k \in (IF "write" \in Faults THEN 0..(Len(w.buf) - 1) ELSE {}) }

SyncOk(w) == { Persisted(v) : v \in FlushOk(w) }

SyncFail(w) ==
    FlushFail(w) \cup (IF "sync" \in Faults THEN FlushOk(w) ELSE {})

\* A string goes into the buffer whole or not at all.
Fits(w, s) == Len(s) <= GPX_BUFFER_SIZE - Len(w.buf)

Buffered(w, s) == [w EXCEPT !.buf = @ \o s, !.stream = @ \o s]

WriteOk(w, s) ==
    { Buffered(v, s) : v \in (IF Fits(w, s) THEN {w} ELSE FlushOk(w)) }

WriteFail(w, s) == IF Fits(w, s) THEN {} ELSE FlushFail(w)

\* enter_error_state: the name and the unwritten tail stay.
EnterError(w) == { [v EXCEPT !.state = "ERROR"] : v \in Close(w) }

----------------------------------------------------------------------------
(* Starting and stopping.                                                  *)

ClearRam_KeepsCount(w) == [w EXCEPT !.head = 0]

ClearRam(w) == [w EXCEPT !.head = 0, !.count = 0]

Forget(w) == [w EXCEPT !.name = NoName, !.buf = <<>>, !.stream = <<>>]

\* finalize_active_file
Finalize(w) ==
    LET footed == UNION { FlushOk(v) \cup FlushFail(v) : v \in WriteOk(w, Footer) }
    IN  UNION { Close(v) : v \in WriteFail(w, Footer) \cup footed }

\* In ERROR the unfinished file gets one attempt at its footer.
StopImpl(w, clearRam) ==
    LET failed == w.state = "ERROR" /\ w.name # NoName
        reopened == (IF failed THEN {Appending(w)} ELSE {w})
                        \cup (IF failed /\ "append" \in Faults THEN {w} ELSE {})
        closed == UNION { IF v.state = "RECORDING" THEN Finalize(v) ELSE {v} :
                            v \in reopened }
        idle == { [Forget(v) EXCEPT !.state = "IDLE"] : v \in closed }
    IN  IF clearRam THEN { ClearRam(v) : v \in idle } ELSE idle

FreeNames_NoProbe(w, id) == {id}

\* The file number probing settles on: the first name that does not open for
\* reading.
FreeNames(w, id) ==
    { id + a : a \in { b \in 0..(LOGGER_NAME_MAX_ATTEMPTS - 1) :
                        /\ id + b \notin w.files \/ "probe" \in Faults
                        /\ \A c \in 0..(b - 1) : id + c \in w.files } }

AllTaken(w, id) ==
    \A a \in 0..(LOGGER_NAME_MAX_ATTEMPTS - 1) : id + a \in w.files

Created(w, n, keepRam) ==
    LET v == [w EXCEPT !.name = n, !.open = TRUE, !.data = <<>>,
                       !.files = @ \cup {n}, !.disk[n] = <<>>,
                       !.buf = Header, !.stream = Header, !.first = TRUE,
                       !.unsynced = 0, !.outliers = 0, !.state = "RECORDING"]
    IN  IF keepRam THEN v ELSE ClearRam(v)

\* The part of logger_start_impl that makes a new file.  id is NoName when the
\* fix's date gives no number.
NewFile(w, id, keepRam) ==
    LET failed == [w EXCEPT !.state = "ERROR"]
    IN  IF id = NoName THEN {w}
        ELSE { Created(w, n, keepRam) : n \in FreeNames(w, id) }
                \cup (IF "create" \in Faults \/ AllTaken(w, id) THEN {failed} ELSE {})

StartImpl_KeepsRamIfTold(w, id, keepRam) ==
    IF w.state = "ERROR" /\ w.name # NoName
    THEN {Appending(w)}
            \cup (IF "append" \in Faults THEN NewFile(Forget(w), id, keepRam) ELSE {})
    ELSE NewFile(w, id, keepRam)

\* Resuming the failed file comes first; only if it does not open is it given up.
StartImpl(w, id, keepRam) ==
    IF w.state = "ERROR" /\ w.name # NoName
    THEN {Appending(w)}
            \cup (IF "append" \in Faults THEN NewFile(Forget(w), id, TRUE) ELSE {})
    ELSE NewFile(w, id, keepRam)

----------------------------------------------------------------------------
(* A point.                                                                *)

Drawn_CountsOn(w) ==
    [w EXCEPT !.ring[w.head] = w.serial + 1,
              !.head = (w.head + 1) % TRACK_RAM_MAX_POINTS,
              !.count = w.count + 1,
              !.serial = w.serial + 1]

\* The RAM ring takes the point that was just numbered.
Drawn(w) ==
    [w EXCEPT !.ring[w.head] = w.serial + 1,
              !.head = (w.head + 1) % TRACK_RAM_MAX_POINTS,
              !.count = IF w.count < TRACK_RAM_MAX_POINTS THEN w.count + 1 ELSE w.count,
              !.serial = w.serial + 1]

SyncIfDue_OneLate(w, due) ==
    IF w.unsynced > LOGGER_SYNC_POINTS
    THEN { [v EXCEPT !.unsynced = 0] : v \in SyncOk(w) }
            \cup (UNION { EnterError(v) : v \in SyncFail(w) })
    ELSE {w}

\* The point is in the buffer and in the ring; the file is synced when 50 points
\* or 60 s have gathered.
SyncIfDue(w, due) ==
    IF w.unsynced >= LOGGER_SYNC_POINTS \/ due
    THEN { [v EXCEPT !.unsynced = 0] : v \in SyncOk(w) }
            \cup (UNION { EnterError(v) : v \in SyncFail(w) })
    ELSE {w}

Record(w, due) ==
    LET p == Point(w.serial + 1)
        accepted == { [Drawn(v) EXCEPT !.first = FALSE, !.unsynced = @ + 1] :
                        v \in WriteOk(w, p) }
        failed == UNION { EnterError(v) : v \in WriteFail(w, p) }
    IN  failed \cup (UNION { SyncIfDue(v, due) : v \in accepted })

\* The decimation filter.  Agreeing outliers are counted; the one that completes
\* the chain is recorded and becomes the reference.
Filter(w, fix) ==
    LET jump == ~ w.first /\ fix.motion \in {"jump", "agreeing jump"}
        chain == IF fix.motion = "agreeing jump" /\ w.outliers # 0
                 THEN w.outliers + 1 ELSE 1
        rejected == jump /\ chain < LOGGER_OUTLIER_RESET_COUNT
        idle == ~ w.first /\ fix.motion = "near"
        kept == IF w.first THEN w ELSE [w EXCEPT !.outliers = 0]
    IN  CASE rejected -> {[w EXCEPT !.outliers = chain]}
          [] idle -> {[w EXCEPT !.outliers = 0]}
          [] ~ rejected /\ ~ idle -> Record(kept, fix.due)

\* A new local day closes the file and opens the next one; when that fails the
\* fix is dropped.
Rollover_ClearsRam(w, id) ==
    UNION { StartImpl(v, id, FALSE) : v \in StopImpl(w, FALSE) }

Rollover(w, id) == UNION { StartImpl(v, id, TRUE) : v \in StopImpl(w, FALSE) }

AddPointTo(w, fix, id) ==
    IF ~ fix.newDay THEN Filter(w, fix)
    ELSE UNION { IF v.state = "RECORDING" THEN Filter(v, fix) ELSE {v} :
                    v \in Rollover(w, id) }

----------------------------------------------------------------------------
(* Actions: the calls of the other modules, and the loss of power.         *)

\* purrgo_logger_set_mode
SetMode(m) ==
    LET w == [tl EXCEPT !.mode = m]
    IN  IF m = "OFF" /\ w.state \in {"RECORDING", "ERROR"}
        THEN tl' \in StopImpl(w, TRUE)
        ELSE tl' = w

\* purrgo_logger_start
Start(id) ==
    /\ tl.mode # "OFF"
    /\ tl.state # "RECORDING"
    /\ tl' \in StartImpl(tl, id, FALSE)

\* purrgo_logger_add_point
AddPoint(fix, id) ==
    /\ tl.mode # "OFF"
    /\ tl.state = "RECORDING"
    /\ tl.serial < MaxPoints
    /\ tl' \in AddPointTo(tl, fix, id)

\* purrgo_logger_stop
Stop == tl' \in StopImpl(tl, TRUE)

\* purrgo_logger_suspend: as stop, but what the screen shows stays.
Suspend == tl' \in StopImpl(tl, FALSE)

\* purrgo_logger_reset: the file is closed without a footer.
Reset ==
    tl' \in { Boot(v.files, v.disk, v.serial) :
                v \in (IF tl.open THEN Close(tl) ELSE {tl}) }

\* The card keeps what was synced.
PowerLoss == tl' = Boot(tl.files, tl.disk, tl.serial)

Next ==
    \/ \E m \in Modes : SetMode(m)
    \/ \E id \in TrackIds \cup {NoName} : Start(id)
    \/ \E fix \in Fix, id \in TrackIds : AddPoint(fix, id)
    \/ Stop
    \/ Suspend
    \/ Reset
    \/ PowerLoss

vars == <<tl>>

Spec == Init /\ [][Next]_vars

----------------------------------------------------------------------------
(* Reading the RAM track.                                                  *)

\* purrgo_logger_get_track_point: index 0 is the oldest point kept.
TrackPoint(w, index) ==
    LET oldest == IF w.head >= w.count THEN w.head - w.count
                  ELSE TRACK_RAM_MAX_POINTS - (w.count - w.head)
    IN  w.ring[(oldest + index) % TRACK_RAM_MAX_POINTS]

\* purrgo_logger_get_last_two_points: the newest point and the one before it.
LastTwoPoints(w) ==
    LET last == IF w.head = 0 THEN TRACK_RAM_MAX_POINTS - 1 ELSE w.head - 1
        prev == IF last = 0 THEN TRACK_RAM_MAX_POINTS - 1 ELSE last - 1
    IN  <<w.ring[prev], w.ring[last]>>

----------------------------------------------------------------------------
(* Properties.                                                             *)

TrackLoggerState ==
    [state : {"IDLE", "RECORDING", "ERROR"}, mode : Modes,
     name : Names \cup {NoName}, open : BOOLEAN,
     data : Seq(Unit), buf : Seq(Unit), stream : Seq(Unit),
     first : BOOLEAN, unsynced : Nat, outliers : 0..(LOGGER_OUTLIER_RESET_COUNT - 1),
     ring : [0..(TRACK_RAM_MAX_POINTS - 1) -> Nat],
     head : 0..(TRACK_RAM_MAX_POINTS - 1), count : 0..TRACK_RAM_MAX_POINTS,
     serial : Nat, files : SUBSET Names, disk : [Names -> Seq(Unit)]]

\* Types, and what the C code relies on: the buffer never overflows, the ring
\* indices stay inside the ring, a file is open exactly while recording (so an
\* error or a stop never leaks its slot), and it is the named one.
TypeOK ==
    /\ tl \in TrackLoggerState
    /\ Len(tl.buf) <= GPX_BUFFER_SIZE
    /\ tl.open <=> tl.state = "RECORDING"
    /\ tl.open => tl.name # NoName
    /\ tl.state = "IDLE" => tl.name = NoName

\* What the current file holds: FatFs's view while it is open.
OnFile(w) == IF w.open THEN w.data ELSE w.disk[w.name]

\* Whatever writes, syncs and opens failed on the way, each string the logger
\* took for its file is in the file or still in the buffer: nothing is lost in
\* the middle, written twice or reordered by flush_buffer's memmove, by the
\* error state or by resuming in append mode.
StreamIntact == tl.name # NoName => OnFile(tl) \o tl.buf = tl.stream

\* Every file a reader may find on the card, after a power loss too, is a GPX
\* file that is whole or was cut at one point: the header first, points whole,
\* consecutive and in order, nothing after the footer.
FilesWellFormed == \A n \in Names : WellFormed(tl.disk[n])

\* The loss window the comment at LOGGER_SYNC_POINTS promises: while recording, a
\* power loss costs the file fewer than LOGGER_SYNC_POINTS accepted points.
LossWindow ==
    tl.open => Cardinality(PointsIn(tl.stream) \ PointsIn(tl.disk[tl.name]))
                    < LOGGER_SYNC_POINTS

\* The ring the map draws from holds the last points accepted, oldest first, and
\* the last-two accessor agrees with it.
RamTrackIsRecent ==
    /\ \A k \in 0..(tl.count - 1) : TrackPoint(tl, k) = tl.serial - tl.count + k + 1
    /\ tl.count >= 2 => LastTwoPoints(tl) = <<tl.serial - 1, tl.serial>>

\* A step never takes back or changes what a file on the card already holds: an
\* existing file is not created over, a resumed one only grows.
FilesOnlyGrow ==
    [][\A n \in Names :
        /\ Len(tl.disk[n]) <= Len(tl'.disk[n])
        /\ SubSeq(tl'.disk[n], 1, Len(tl.disk[n])) = tl.disk[n]]_vars

\* The comment at logger_start_impl: what is drawn of a track stays when recording
\* goes on after a change of day or after a failure.  While the logger has a file to
\* record to or to resume, no step that ends in a recording shortens the track: not the
\* change of day under a recording, not a resume after an error, and not the new file
\* that the same start makes when the old one cannot be resumed.
RecordingKeepsRamTrack ==
    [][tl.name # NoName /\ tl'.open => tl'.count >= tl.count]_vars
=============================================================================
