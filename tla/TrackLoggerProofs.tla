------------------------- MODULE TrackLoggerProofs -------------------------
(***************************************************************************)
(* Theorems about the track logger.                                        *)
(*                                                                         *)
(* A handler is a chain of calls, so the invariant of a step is carried by *)
(* what holds between two calls:                                           *)
(*   Typed(w)     the fields have their types and the buffer does not      *)
(*                overflow;                                                *)
(*   Writing(w)   a file is open and it, with the buffer, is the stream;   *)
(*   Resting(w)   no file is open, and the same of the file on the card.   *)
(* Each call maps one of them to another; a handler maps Sound to Sound.   *)
(* The part about the stream needs a card that keeps what a close wrote.   *)
(*                                                                         *)
(* What the files hold, and what the map's track holds, is carried next to *)
(* it, by formulas that a handler may rely on at any moment:               *)
(*   Good(w)      the ring has the last numbers given; every file on the   *)
(*                card is well formed and so is the stream; all points but *)
(*                the last unsynced ones are on the card;                  *)
(*   Track(w, n)  the stream is a header, then the points up to n - 1 one  *)
(*                after another, nothing between them;                     *)
(*   Timely(w)    the next sync has not come due, or FatFs and the card    *)
(*                agree about the file.                                    *)
(* Full is all of them together, and it is what the theorems about files   *)
(* and about the track rest on.                                            *)
(***************************************************************************)
EXTENDS TrackLogger, SequenceTheorems, FiniteSetTheorems, TLAPS

Typed(w) == w \in TrackLoggerState /\ Len(w.buf) <= GPX_BUFFER_SIZE

Intact(w) ==
    "lossyClose" \notin Faults =>
        (w.name # NoName => OnFile(w) \o w.buf = w.stream)

Writing(w) == Typed(w) /\ w.open /\ w.name # NoName /\ Intact(w)

Resting(w) == Typed(w) /\ ~ w.open /\ Intact(w)

Sound(w) ==
    \/ w.state = "RECORDING" /\ Writing(w)
    \/ w.state = "ERROR" /\ Resting(w)
    \/ w.state = "IDLE" /\ w.name = NoName /\ Resting(w)

----------------------------------------------------------------------------
(* Strings.                                                                *)

\* Every string is a sequence of units of the length StrLen says.
LEMMA StrType ==
    ASSUME NEW k \in Kinds, NEW p \in Nat
    PROVE  Str(k, p) \in Seq(Unit) /\ Len(Str(k, p)) = StrLen[k]
<1>1. StrLen[k] \in Nat
  BY StrLenAssumption
<1>2. \A j \in 1..StrLen[k] : [kind |-> k, pt |-> p, i |-> j] \in Unit
  BY <1>1 DEF Unit
<1>3. Str(k, p) \in [1..StrLen[k] -> Unit]
  BY <1>2 DEF Str
<1> QED
  BY <1>1, <1>3

\* A string is an allowed argument of write_to_buffer: it fits the empty buffer.
IsString(s) == s \in Seq(Unit) /\ Len(s) <= GPX_BUFFER_SIZE

LEMMA StringsFit ==
    /\ IsString(Header)
    /\ IsString(Footer)
    /\ \A p \in Nat : IsString(Point(p))
<1>1. \A k \in Kinds : StrLen[k] <= GPX_BUFFER_SIZE
  BY StrLenAssumption
<1>2. \A k \in Kinds, p \in Nat : IsString(Str(k, p))
  BY <1>1, StrType DEF IsString
<1>3. {"header", "point", "footer"} \subseteq Kinds /\ 0 \in Nat
  BY DEF Kinds
<1> QED
  BY <1>2, <1>3 DEF Header, Footer, Point

\* A file number is never the mark of an empty name.
LEMMA NamesAreNumbers == Names \subseteq Nat /\ NoName \notin Names
<1>1. ASSUME NEW id \in TrackIds, NEW a \in 0..(LOGGER_NAME_MAX_ATTEMPTS - 1)
      PROVE  id + a \in Nat
  BY TrackLoggerAssumption
<1> QED
  BY <1>1, TrackLoggerAssumption DEF Names

----------------------------------------------------------------------------
(* Writing.                                                                *)

\* flush_buffer moves units from the buffer to the file and drops none of them,
\* however many FatFs takes.
LEMMA WrittenKeeps ==
    ASSUME NEW w, Writing(w), NEW k \in 0..Len(w.buf)
    PROVE  /\ Writing(Written(w, k))
           /\ Len(Written(w, k).buf) = Len(w.buf) - k
           /\ Written(w, k).state = w.state
           /\ Written(w, k).serial = w.serial
<1> DEFINE front == SubSeq(w.buf, 1, k)
           tail == SubSeq(w.buf, k + 1, Len(w.buf))
<1>1. /\ w \in TrackLoggerState
      /\ w.buf \in Seq(Unit) /\ w.data \in Seq(Unit)
      /\ Len(w.buf) \in Nat /\ Len(w.buf) <= GPX_BUFFER_SIZE
      /\ w.open /\ w.name # NoName
  BY DEF Writing, Typed, TrackLoggerState
<1>2. front \in Seq(Unit) /\ tail \in Seq(Unit) /\ Len(tail) = Len(w.buf) - k
  <2>1. \A i \in 1..Len(w.buf) : w.buf[i] \in Unit
    BY <1>1, ElementOfSeq
  <2>2. k \in Int /\ Len(w.buf) \in Int /\ 0 <= k /\ k <= Len(w.buf)
    BY <1>1
  <2>3. front \in Seq(Unit)
    <3>1. \A i \in 1..k : w.buf[i] \in Unit
      BY <2>1, <2>2
    <3> QED
      BY <2>2, <3>1, SubSeqProperties
  <2>4. tail \in Seq(Unit) /\ Len(tail) = Len(w.buf) - k
    <3>1. \A i \in (k + 1)..Len(w.buf) : w.buf[i] \in Unit
      BY <2>1, <2>2
    <3>2. k + 1 \in Int
      BY <2>2
    <3>3. /\ tail \in Seq(Unit)
          /\ Len(tail) = IF k + 1 <= Len(w.buf) THEN Len(w.buf) - (k + 1) + 1 ELSE 0
      BY <2>2, <3>1, <3>2, SubSeqProperties
    <3> QED
      BY <2>2, <3>3
  <2> QED
    BY <2>3, <2>4
<1>3. front \o tail = w.buf
  <2>1. 1 \in 1..(Len(w.buf) + 1) /\ k \in (1 - 1)..Len(w.buf) /\ Len(w.buf) \in k..Len(w.buf)
    BY <1>1
  <2>2. front \o tail = SubSeq(w.buf, 1, Len(w.buf))
    BY <1>1, <2>1, ConcatAdjacentSubSeq
  <2> QED
    BY <1>1, <2>2, SubSeqFull
<1>4. w.data \o front \in Seq(Unit)
  BY <1>1, <1>2, ConcatProperties
<1>5. (w.data \o front) \o tail = w.data \o w.buf
  <2> HIDE DEF front, tail
  <2>1. (w.data \o front) \o tail = w.data \o (front \o tail)
    <3>1. w.data \in Seq(Unit) /\ front \in Seq(Unit) /\ tail \in Seq(Unit)
      BY <1>1, <1>2
    <3>2. \A s, t, u \in Seq(Unit) : (s \o t) \o u = s \o (t \o u)
      BY ConcatAssociative, SMTT(30)
    <3> QED
      BY <3>1, <3>2, Zenon
  <2> QED
    BY <1>3, <2>1
<1>6. Written(w, k) \in TrackLoggerState
  BY <1>1, <1>2, <1>4 DEF Written, TrackLoggerState
<1>7. /\ Written(w, k).open = w.open /\ Written(w, k).name = w.name
      /\ Written(w, k).state = w.state /\ Written(w, k).serial = w.serial
      /\ Written(w, k).stream = w.stream
      /\ Written(w, k).data = w.data \o front /\ Written(w, k).buf = tail
  BY <1>1 DEF Written, TrackLoggerState
<1>8. Len(tail) <= GPX_BUFFER_SIZE
  BY <1>1, <1>2, StrLenAssumption
<1>9. Intact(Written(w, k))
  BY <1>1, <1>5, <1>7 DEF Writing, Intact, OnFile
<1> QED
  BY <1>1, <1>2, <1>6, <1>7, <1>8, <1>9 DEF Writing, Typed

\* Flushing keeps what is written and never touches the state; a complete flush
\* leaves the buffer empty.
LEMMA FlushKeeps ==
    ASSUME NEW w, Writing(w)
    PROVE  /\ \A v \in FlushOk(w) \cup FlushFail(w) :
                 Writing(v) /\ v.state = w.state /\ v.serial = w.serial
           /\ \A v \in FlushOk(w) : Len(v.buf) = 0
<1>1. Len(w.buf) \in Nat
  BY DEF Writing, Typed, TrackLoggerState
<1>2. \A v \in FlushOk(w) :
         Writing(v) /\ v.state = w.state /\ v.serial = w.serial /\ Len(v.buf) = 0
  <2>1. Len(w.buf) \in 0..Len(w.buf) /\ Len(w.buf) - Len(w.buf) = 0
    BY <1>1
  <2> QED
    BY <2>1, WrittenKeeps DEF FlushOk
<1>3. ASSUME NEW v \in FlushFail(w)
      PROVE  Writing(v) /\ v.state = w.state /\ v.serial = w.serial
  <2>1. PICK k \in 0..(Len(w.buf) - 1) : v = Written(w, k)
    BY DEF FlushFail
  <2>2. k \in 0..Len(w.buf)
    BY <1>1
  <2> QED
    BY <2>1, <2>2, WrittenKeeps
<1> QED
  BY <1>2, <1>3

\* f_sync changes what a power loss leaves, nothing else.
LEMMA PersistedKeeps ==
    ASSUME NEW w, Writing(w)
    PROVE  /\ Writing(Persisted(w))
           /\ Persisted(w).state = w.state
           /\ Persisted(w).serial = w.serial
<1>1. w \in TrackLoggerState /\ w.name \in Names
  BY DEF Writing, Typed, TrackLoggerState
<1>2. Persisted(w) \in TrackLoggerState
  BY <1>1 DEF Persisted, TrackLoggerState
<1>3. /\ Persisted(w).open = w.open /\ Persisted(w).name = w.name
      /\ Persisted(w).data = w.data /\ Persisted(w).buf = w.buf
      /\ Persisted(w).stream = w.stream /\ Persisted(w).state = w.state
      /\ Persisted(w).serial = w.serial
  BY <1>1 DEF Persisted, TrackLoggerState
<1> QED
  BY <1>2, <1>3 DEF Writing, Typed, Intact, OnFile

\* sync_active_file keeps what is written, whether it works or not.
LEMMA SyncKeeps ==
    ASSUME NEW w, Writing(w)
    PROVE  \A v \in SyncOk(w) \cup SyncFail(w) :
             Writing(v) /\ v.state = w.state /\ v.serial = w.serial
<1>1. ASSUME NEW v \in SyncOk(w)
      PROVE  Writing(v) /\ v.state = w.state /\ v.serial = w.serial
  <2>1. PICK u \in FlushOk(w) : v = Persisted(u)
    BY DEF SyncOk
  <2> QED
    BY <2>1, FlushKeeps, PersistedKeeps
<1>2. SyncFail(w) \subseteq FlushOk(w) \cup FlushFail(w)
  BY DEF SyncFail
<1> QED
  BY <1>1, <1>2, FlushKeeps

\* A string that fits joins the buffer and the stream together.
LEMMA BufferedKeeps ==
    ASSUME NEW w, Writing(w), NEW s, IsString(s), Fits(w, s)
    PROVE  /\ Writing(Buffered(w, s))
           /\ Buffered(w, s).state = w.state
           /\ Buffered(w, s).serial = w.serial
<1>1. /\ w \in TrackLoggerState /\ s \in Seq(Unit)
      /\ w.buf \in Seq(Unit) /\ w.data \in Seq(Unit) /\ w.stream \in Seq(Unit)
      /\ w.open /\ w.name # NoName
  BY DEF Writing, Typed, TrackLoggerState, IsString
<1>2. w.buf \o s \in Seq(Unit) /\ w.stream \o s \in Seq(Unit)
  BY <1>1, ConcatProperties
<1>3. Len(w.buf \o s) <= GPX_BUFFER_SIZE
  <2>1. Len(w.buf \o s) = Len(w.buf) + Len(s)
    BY <1>1, ConcatProperties
  <2>2. Len(w.buf) \in Nat /\ Len(s) \in Nat
    BY <1>1, LenProperties
  <2> QED
    BY <2>1, <2>2, StrLenAssumption DEF Fits
<1>4. w.data \o (w.buf \o s) = (w.data \o w.buf) \o s
  <2>1. \A a, b, c \in Seq(Unit) : (a \o b) \o c = a \o (b \o c)
    BY ConcatAssociative
  <2> QED
    BY <1>1, <2>1, Zenon
<1>5. Buffered(w, s) \in TrackLoggerState
  BY <1>1, <1>2 DEF Buffered, TrackLoggerState
<1>6. /\ Buffered(w, s).open = w.open /\ Buffered(w, s).name = w.name
      /\ Buffered(w, s).data = w.data /\ Buffered(w, s).buf = w.buf \o s
      /\ Buffered(w, s).stream = w.stream \o s
      /\ Buffered(w, s).state = w.state /\ Buffered(w, s).serial = w.serial
  BY <1>1 DEF Buffered, TrackLoggerState
<1>7. Intact(Buffered(w, s))
  BY <1>1, <1>4, <1>6 DEF Writing, Intact, OnFile
<1> QED
  BY <1>1, <1>3, <1>5, <1>6, <1>7 DEF Writing, Typed

\* write_to_buffer takes the string whole or, when the buffer cannot be flushed,
\* not at all.
LEMMA WriteKeeps ==
    ASSUME NEW w, Writing(w), NEW s, IsString(s)
    PROVE  \A v \in WriteOk(w, s) \cup WriteFail(w, s) :
             Writing(v) /\ v.state = w.state /\ v.serial = w.serial
<1>1. WriteFail(w, s) \subseteq FlushFail(w)
  BY DEF WriteFail
<1>2. ASSUME NEW v \in WriteOk(w, s)
      PROVE  Writing(v) /\ v.state = w.state /\ v.serial = w.serial
  <2>1. CASE Fits(w, s)
    <3>1. v = Buffered(w, s)
      BY <2>1 DEF WriteOk
    <3> QED
      BY <2>1, <3>1, BufferedKeeps
  <2>2. CASE ~ Fits(w, s)
    <3>1. PICK u \in FlushOk(w) : v = Buffered(u, s)
      BY <2>2 DEF WriteOk
    <3>2. Writing(u) /\ u.state = w.state /\ u.serial = w.serial /\ Len(u.buf) = 0
      BY FlushKeeps
    <3>3. Fits(u, s)
      BY <3>2, StrLenAssumption DEF Fits, IsString
    <3> QED
      BY <3>1, <3>2, <3>3, BufferedKeeps
  <2> QED
    BY <2>1, <2>2
<1> QED
  BY <1>1, <1>2, FlushKeeps

\* Closing leaves the file on the card as FatFs had it, when it does not fail.
LEMMA CloseRests ==
    ASSUME NEW w, Writing(w)
    PROVE  \A v \in Close(w) :
             Resting(v) /\ v.state = w.state /\ v.serial = w.serial
<1>1. w \in TrackLoggerState /\ w.name \in Names /\ w.open /\ w.name # NoName
  BY DEF Writing, Typed, TrackLoggerState
<1>2. <<>> \in Seq(Unit)
  BY EmptySeq
<1>3. ASSUME NEW u \in TrackLoggerState
      PROVE  /\ Closed(u) \in TrackLoggerState
             /\ ~ Closed(u).open /\ Closed(u).buf = u.buf
             /\ Closed(u).name = u.name /\ Closed(u).disk = u.disk
             /\ Closed(u).stream = u.stream
             /\ Closed(u).state = u.state /\ Closed(u).serial = u.serial
  BY <1>2 DEF Closed, TrackLoggerState
<1>4. /\ Persisted(w) \in TrackLoggerState
      /\ Persisted(w).name = w.name /\ Persisted(w).buf = w.buf
      /\ Persisted(w).stream = w.stream
      /\ Persisted(w).state = w.state /\ Persisted(w).serial = w.serial
      /\ Persisted(w).disk[w.name] = w.data
  BY <1>1 DEF Persisted, TrackLoggerState
<1>5. LET v == Closed(Persisted(w))
      IN  Resting(v) /\ v.state = w.state /\ v.serial = w.serial
  <2> DEFINE v == Closed(Persisted(w))
  <2>1. /\ v \in TrackLoggerState /\ ~ v.open
        /\ v.name = w.name /\ v.buf = w.buf /\ v.stream = w.stream
        /\ v.state = w.state /\ v.serial = w.serial
        /\ v.disk[w.name] = w.data
    BY <1>3, <1>4
  <2>2. Len(w.buf) <= GPX_BUFFER_SIZE /\ Intact(w)
    BY DEF Writing, Typed
  <2> HIDE DEF v
  <2>3. Typed(v)
    BY <2>1, <2>2 DEF Typed
  <2>4. Intact(v)
    BY <1>1, <2>1, <2>2 DEF Intact, OnFile
  <2>5. Resting(v) /\ v.state = w.state /\ v.serial = w.serial
    BY <2>1, <2>3, <2>4 DEF Resting
  <2> QED
    BY <2>5 DEF v
<1>6. ASSUME "lossyClose" \in Faults
      PROVE  LET v == Closed(w)
             IN  Resting(v) /\ v.state = w.state /\ v.serial = w.serial
  BY <1>1, <1>3, <1>6 DEF Writing, Resting, Typed, Intact
<1> QED
  BY <1>5, <1>6 DEF Close

----------------------------------------------------------------------------
(* Starting and stopping.                                                  *)

\* Opening the named file for append: what the card holds of it is written to
\* again, and the buffer carries the rest of the stream.
LEMMA AppendingWrites ==
    ASSUME NEW w, Resting(w), w.name # NoName
    PROVE  Writing(Appending(w)) /\ Appending(w).state = "RECORDING"
<1>1. w \in TrackLoggerState /\ w.name \in Names /\ ~ w.open
  BY DEF Resting, Typed, TrackLoggerState
<1>2. Appending(w) \in TrackLoggerState
  BY <1>1 DEF Appending, TrackLoggerState
<1>3. /\ Appending(w).open /\ Appending(w).name = w.name
      /\ Appending(w).data = w.disk[w.name] /\ Appending(w).buf = w.buf
      /\ Appending(w).stream = w.stream /\ Appending(w).state = "RECORDING"
  BY <1>1 DEF Appending, TrackLoggerState
<1> QED
  BY <1>1, <1>2, <1>3 DEF Resting, Writing, Typed, Intact, OnFile

\* An abandoned or finished file has no stream left to keep.
LEMMA ForgetRests ==
    ASSUME NEW w, Resting(w)
    PROVE  /\ Resting(Forget(w))
           /\ Forget(w).name = NoName
           /\ Forget(w).state = w.state
<1>1. w \in TrackLoggerState /\ ~ w.open
  BY DEF Resting, Typed
<1>2. <<>> \in Seq(Unit) /\ Len(<<>>) = 0 /\ 0 <= GPX_BUFFER_SIZE
  BY EmptySeq, StrLenAssumption
<1>3. Forget(w) \in TrackLoggerState
  BY <1>1, <1>2 DEF Forget, TrackLoggerState
<1>4. /\ ~ Forget(w).open /\ Forget(w).name = NoName
      /\ Forget(w).buf = <<>> /\ Forget(w).state = w.state
  BY <1>1 DEF Forget, TrackLoggerState
<1> QED
  BY <1>2, <1>3, <1>4 DEF Resting, Typed, Intact

\* A change of state alone, with no file open.
LEMMA StateRests ==
    ASSUME NEW w, Resting(w), NEW st \in {"IDLE", "RECORDING", "ERROR"}
    PROVE  /\ Resting([w EXCEPT !.state = st])
           /\ [w EXCEPT !.state = st].state = st
           /\ [w EXCEPT !.state = st].name = w.name
           /\ [w EXCEPT !.state = st].serial = w.serial
<1> DEFINE v == [w EXCEPT !.state = st]
<1>1. w \in TrackLoggerState /\ ~ w.open
  BY DEF Resting, Typed
<1>2. v \in TrackLoggerState
  BY <1>1 DEF TrackLoggerState
<1>3. /\ v.open = w.open /\ v.name = w.name /\ v.buf = w.buf /\ v.disk = w.disk
      /\ v.stream = w.stream /\ v.state = st /\ v.serial = w.serial
      /\ v.data = w.data
  BY <1>1 DEF TrackLoggerState
<1> HIDE DEF v
<1>4. Resting(v)
  BY <1>2, <1>3 DEF Resting, Typed, Intact, OnFile
<1> QED
  BY <1>3, <1>4 DEF v

\* Emptying the ring concerns no file.
LEMMA ClearRamRests ==
    ASSUME NEW w, Resting(w)
    PROVE  /\ Resting(ClearRam(w))
           /\ ClearRam(w).state = w.state
           /\ ClearRam(w).name = w.name
<1>1. w \in TrackLoggerState /\ ~ w.open
  BY DEF Resting, Typed
<1>2. 0 \in 0..(TRACK_RAM_MAX_POINTS - 1) /\ 0 \in 0..TRACK_RAM_MAX_POINTS
  BY TrackLoggerAssumption
<1>3. ClearRam(w) \in TrackLoggerState
  BY <1>1, <1>2 DEF ClearRam, TrackLoggerState
<1>4. /\ ClearRam(w).open = w.open /\ ClearRam(w).name = w.name
      /\ ClearRam(w).buf = w.buf /\ ClearRam(w).disk = w.disk
      /\ ClearRam(w).stream = w.stream /\ ClearRam(w).state = w.state
      /\ ClearRam(w).data = w.data
  BY <1>1 DEF ClearRam, TrackLoggerState
<1> QED
  BY <1>3, <1>4 DEF Resting, Typed, Intact, OnFile

\* Whatever the footer's way to the card, the file is closed afterwards.
LEMMA FinalizeRests ==
    ASSUME NEW w, Writing(w)
    PROVE  \A v \in Finalize(w) : Resting(v)
<1> DEFINE footed == UNION { FlushOk(v) \cup FlushFail(v) : v \in WriteOk(w, Footer) }
<1>1. \A v \in WriteOk(w, Footer) \cup WriteFail(w, Footer) : Writing(v)
  BY StringsFit, WriteKeeps
<1>2. \A v \in footed : Writing(v)
  BY <1>1, FlushKeeps
<1>3. \A v \in WriteFail(w, Footer) \cup footed : Writing(v)
  BY <1>1, <1>2
<1> HIDE DEF footed
<1>4. \A u \in UNION { Close(v) : v \in WriteFail(w, Footer) \cup footed } : Resting(u)
  BY <1>3, CloseRests
<1> QED
  BY <1>4 DEF Finalize, footed

\* logger_stop_impl always comes to IDLE with no file, from every state.
LEMMA StopRests ==
    ASSUME NEW w, Sound(w), NEW c \in BOOLEAN
    PROVE  \A v \in StopImpl(w, c) :
             v.state = "IDLE" /\ v.name = NoName /\ Resting(v)
<1> DEFINE failed == w.state = "ERROR" /\ w.name # NoName
           reopened == (IF failed THEN {Appending(w)} ELSE {w})
                           \cup (IF failed /\ "append" \in Faults THEN {w} ELSE {})
           closed == UNION { IF v.state = "RECORDING" THEN Finalize(v) ELSE {v} :
                               v \in reopened }
           idle == { [Forget(v) EXCEPT !.state = "IDLE"] : v \in closed }
<1>1. \A v \in reopened :
        \/ v.state = "RECORDING" /\ Writing(v)
        \/ v.state # "RECORDING" /\ Resting(v)
  <2>1. failed => Writing(Appending(w)) /\ Appending(w).state = "RECORDING"
    BY AppendingWrites DEF Sound
  <2> QED
    BY <2>1 DEF Sound
<1> HIDE DEF reopened
<1>2. \A v \in closed : Resting(v)
  BY <1>1, FinalizeRests
<1> HIDE DEF closed
<1>3. \A v \in idle : v.state = "IDLE" /\ v.name = NoName /\ Resting(v)
  <2>1. ASSUME NEW u \in closed
        PROVE  LET v == [Forget(u) EXCEPT !.state = "IDLE"]
               IN  v.state = "IDLE" /\ v.name = NoName /\ Resting(v)
    <3>1. Resting(Forget(u)) /\ Forget(u).name = NoName
      BY <1>2, ForgetRests
    <3> QED
      BY <3>1, StateRests
  <2> QED
    BY <2>1
<1> HIDE DEF idle
<1>4. \A v \in idle : ClearRam(v).state = "IDLE" /\ ClearRam(v).name = NoName
                        /\ Resting(ClearRam(v))
  BY <1>3, ClearRamRests
<1>5. StopImpl(w, c) = IF c THEN { ClearRam(v) : v \in idle } ELSE idle
  BY DEF StopImpl, idle, closed, reopened
<1> QED
  BY <1>3, <1>4, <1>5

\* A new file begins with the header in the buffer and as its stream.
LEMMA CreatedWrites ==
    ASSUME NEW w, Resting(w), NEW n \in Names, NEW keepRam \in BOOLEAN
    PROVE  Writing(Created(w, n, keepRam)) /\ Created(w, n, keepRam).state = "RECORDING"
<1> DEFINE v == [w EXCEPT !.name = n, !.open = TRUE, !.data = <<>>,
                          !.files = @ \cup {n}, !.disk[n] = <<>>,
                          !.buf = Header, !.stream = Header, !.first = TRUE,
                          !.unsynced = 0, !.outliers = 0, !.state = "RECORDING"]
<1>1. w \in TrackLoggerState /\ n # NoName
  BY NamesAreNumbers DEF Resting, Typed
<1>2. <<>> \in Seq(Unit) /\ Header \in Seq(Unit) /\ Len(Header) <= GPX_BUFFER_SIZE
  BY EmptySeq, StringsFit DEF IsString
<1>3. 0 \in 0..(LOGGER_OUTLIER_RESET_COUNT - 1)
  BY TrackLoggerAssumption
<1>4. v \in TrackLoggerState
  BY <1>1, <1>2, <1>3, ZenonT(40) DEF TrackLoggerState
<1>5. /\ v.open = TRUE /\ v.name = n /\ v.data = <<>> /\ v.buf = Header
      /\ v.stream = Header /\ v.state = "RECORDING"
  BY <1>1 DEF TrackLoggerState
<1>6. <<>> \o Header = Header
  BY <1>2, ConcatEmptySeq
<1> HIDE DEF v
<1>7. Intact(v)
  BY <1>5, <1>6 DEF Intact, OnFile
<1>8. Writing(v)
  BY <1>1, <1>2, <1>4, <1>5, <1>7 DEF Writing, Typed
<1>9. ClearRam(v) \in TrackLoggerState
  <2>1. 0 \in 0..(TRACK_RAM_MAX_POINTS - 1) /\ 0 \in 0..TRACK_RAM_MAX_POINTS
    BY TrackLoggerAssumption
  <2> QED
    BY <1>4, <2>1 DEF ClearRam, TrackLoggerState
<1>10. /\ ClearRam(v).open = v.open /\ ClearRam(v).name = v.name
       /\ ClearRam(v).data = v.data /\ ClearRam(v).buf = v.buf
       /\ ClearRam(v).stream = v.stream /\ ClearRam(v).state = v.state
  BY <1>4 DEF ClearRam, TrackLoggerState
<1>11. Writing(ClearRam(v))
  BY <1>8, <1>9, <1>10, <1>5 DEF Writing, Typed, Intact, OnFile
<1>12. Created(w, n, keepRam) = IF keepRam THEN v ELSE ClearRam(v)
  BY DEF Created, v
<1> QED
  BY <1>5, <1>8, <1>10, <1>11, <1>12

\* Opening a new file records, fails, or (no date) changes nothing.
LEMMA NewFileSound ==
    ASSUME NEW w, Resting(w), w.state \in {"IDLE", "ERROR"},
           w.state = "IDLE" => w.name = NoName,
           NEW id \in TrackIds \cup {NoName}, NEW keepRam \in BOOLEAN
    PROVE  \A v \in NewFile(w, id, keepRam) : Sound(v)
<1>1. Sound(w)
  BY DEF Sound
<1>2. ASSUME id # NoName, NEW n \in FreeNames(w, id)
      PROVE  Sound(Created(w, n, keepRam))
  <2>1. n \in Names
    BY <1>2 DEF FreeNames, Names
  <2> QED
    BY <2>1, CreatedWrites DEF Sound
<1>3. Sound([w EXCEPT !.state = "ERROR"])
  BY StateRests DEF Sound
<1> QED
  BY <1>1, <1>2, <1>3 DEF NewFile

\* logger_start_impl, entered in IDLE or ERROR as its early return demands.
LEMMA StartSound ==
    ASSUME NEW w, Sound(w), w.state # "RECORDING",
           NEW id \in TrackIds \cup {NoName}, NEW keepRam \in BOOLEAN
    PROVE  \A v \in StartImpl(w, id, keepRam) : Sound(v)
<1>1. CASE w.state = "ERROR" /\ w.name # NoName
  <2>1. Sound(Appending(w))
    BY <1>1, AppendingWrites DEF Sound
  <2>2. /\ Resting(Forget(w)) /\ Forget(w).state = "ERROR"
    BY <1>1, ForgetRests DEF Sound
  <2>3. \A v \in NewFile(Forget(w), id, TRUE) : Sound(v)
    BY <2>2, NewFileSound
  <2> QED
    BY <1>1, <2>1, <2>3 DEF StartImpl
<1>2. CASE ~ (w.state = "ERROR" /\ w.name # NoName)
  <2>1. \A v \in NewFile(w, id, keepRam) : Sound(v)
    BY <1>2, NewFileSound DEF Sound
  <2> QED
    BY <1>2, <2>1 DEF StartImpl
<1> QED
  BY <1>1, <1>2

----------------------------------------------------------------------------
(* A point.                                                                *)

\* The ring's indices stay inside the ring, and its counters are numbers.
LEMMA DrawnKeeps ==
    ASSUME NEW w, Writing(w)
    PROVE  LET v == [Drawn(w) EXCEPT !.first = FALSE, !.unsynced = @ + 1]
           IN  Writing(v) /\ v.state = w.state
<1> DEFINE v == [Drawn(w) EXCEPT !.first = FALSE, !.unsynced = @ + 1]
           head == (w.head + 1) % TRACK_RAM_MAX_POINTS
           count == IF w.count < TRACK_RAM_MAX_POINTS THEN w.count + 1 ELSE w.count
           ring == [w.ring EXCEPT ![w.head] = w.serial + 1]
<1>1. w \in TrackLoggerState
  BY DEF Writing, Typed
<1>2. head \in 0..(TRACK_RAM_MAX_POINTS - 1) /\ count \in 0..TRACK_RAM_MAX_POINTS
  <2>1. /\ w.head \in 0..(TRACK_RAM_MAX_POINTS - 1) /\ w.count \in 0..TRACK_RAM_MAX_POINTS
        /\ TRACK_RAM_MAX_POINTS \in Nat /\ TRACK_RAM_MAX_POINTS > 0
    BY <1>1, TrackLoggerAssumption DEF TrackLoggerState
  <2>2. \A a, m \in Nat : m > 0 => a % m \in 0..(m - 1)
    OBVIOUS
  <2>3. w.head + 1 \in Nat
    BY <2>1
  <2>4. head \in 0..(TRACK_RAM_MAX_POINTS - 1)
    BY <2>1, <2>2, <2>3
  <2>5. count \in 0..TRACK_RAM_MAX_POINTS
    BY <2>1
  <2> QED
    BY <2>4, <2>5
<1>3. /\ w.serial + 1 \in Nat /\ w.unsynced + 1 \in Nat
      /\ ring \in [0..(TRACK_RAM_MAX_POINTS - 1) -> Nat]
  BY <1>1 DEF TrackLoggerState
<1>4. v = [w EXCEPT !.ring = ring, !.head = head, !.count = count,
                    !.serial = w.serial + 1, !.first = FALSE,
                    !.unsynced = w.unsynced + 1]
  BY <1>1 DEF Drawn, TrackLoggerState
<1> HIDE DEF head, count, ring, v
<1>5. v \in TrackLoggerState
  BY <1>1, <1>2, <1>3, <1>4 DEF TrackLoggerState
<1>6. /\ v.open = w.open /\ v.name = w.name /\ v.data = w.data /\ v.buf = w.buf
      /\ v.stream = w.stream /\ v.state = w.state
  BY <1>1, <1>4 DEF TrackLoggerState
<1>7. Writing(v) /\ v.state = w.state
  BY <1>5, <1>6 DEF Writing, Typed, Intact, OnFile
<1> QED
  BY <1>7 DEF v

\* The error state keeps the name and the tail, and closes the file.
LEMMA EnterErrorSound ==
    ASSUME NEW w, Writing(w)
    PROVE  \A v \in EnterError(w) : Sound(v)
<1>1. ASSUME NEW u \in Close(w)
      PROVE  Sound([u EXCEPT !.state = "ERROR"])
  BY CloseRests, StateRests DEF Sound
<1> QED
  BY <1>1 DEF EnterError

\* The periodic sync goes on recording or ends in the error state.
LEMMA SyncIfDueSound ==
    ASSUME NEW w, Writing(w), w.state = "RECORDING", NEW due \in BOOLEAN
    PROVE  \A v \in SyncIfDue(w, due) : Sound(v)
<1>1. ASSUME NEW u \in SyncOk(w)
      PROVE  Sound([u EXCEPT !.unsynced = 0])
  <2> DEFINE v == [u EXCEPT !.unsynced = 0]
  <2>1. Writing(u) /\ u.state = "RECORDING"
    BY SyncKeeps
  <2>2. u \in TrackLoggerState
    BY <2>1 DEF Writing, Typed
  <2>3. v \in TrackLoggerState
    BY <2>2 DEF TrackLoggerState
  <2>4. /\ v.open = u.open /\ v.name = u.name /\ v.data = u.data /\ v.buf = u.buf
        /\ v.stream = u.stream /\ v.state = u.state
    BY <2>2 DEF TrackLoggerState
  <2> HIDE DEF v
  <2>5. Writing(v) /\ v.state = "RECORDING"
    BY <2>1, <2>3, <2>4 DEF Writing, Typed, Intact, OnFile
  <2>6. Sound(v)
    BY <2>5 DEF Sound
  <2> QED
    BY <2>6 DEF v
<1>2. ASSUME NEW u \in SyncFail(w)
      PROVE  \A v \in EnterError(u) : Sound(v)
  BY SyncKeeps, EnterErrorSound
<1>3. Sound(w)
  BY DEF Sound
<1> QED
  BY <1>1, <1>2, <1>3 DEF SyncIfDue

\* Recording a point: written, drawn and perhaps synced, or the error state.
LEMMA RecordSound ==
    ASSUME NEW w, Writing(w), w.state = "RECORDING", NEW due \in BOOLEAN
    PROVE  \A v \in Record(w, due) : Sound(v)
<1> DEFINE p == Point(w.serial + 1)
           accepted == { [Drawn(v) EXCEPT !.first = FALSE, !.unsynced = @ + 1] :
                           v \in WriteOk(w, p) }
           failed == UNION { EnterError(v) : v \in WriteFail(w, p) }
           synced == UNION { SyncIfDue(v, due) : v \in accepted }
<1>1. IsString(p)
  <2>1. w.serial + 1 \in Nat
    BY DEF Writing, Typed, TrackLoggerState
  <2> QED
    BY <2>1, StringsFit
<1> HIDE DEF p
<1>2. \A u \in failed : Sound(u)
  BY <1>1, WriteKeeps, EnterErrorSound
<1>3. \A v \in accepted : Writing(v) /\ v.state = "RECORDING"
  <2>1. ASSUME NEW u \in WriteOk(w, p)
        PROVE  LET v == [Drawn(u) EXCEPT !.first = FALSE, !.unsynced = @ + 1]
               IN  Writing(v) /\ v.state = "RECORDING"
    <3>1. Writing(u) /\ u.state = "RECORDING"
      BY <1>1, WriteKeeps
    <3> QED
      BY <3>1, DrawnKeeps
  <2> QED
    BY <2>1
<1> HIDE DEF accepted
<1>4. \A u \in synced : Sound(u)
  BY <1>3, SyncIfDueSound
<1>5. Record(w, due) = failed \cup synced
  BY DEF Record, accepted, p, failed, synced
<1> HIDE DEF failed, synced
<1> QED
  BY <1>2, <1>4, <1>5

\* Counting outliers touches neither the file nor the buffer.
LEMMA OutliersKeep ==
    ASSUME NEW w, Writing(w), NEW n \in 0..(LOGGER_OUTLIER_RESET_COUNT - 1)
    PROVE  LET v == [w EXCEPT !.outliers = n]
           IN  Writing(v) /\ v.state = w.state
<1> DEFINE v == [w EXCEPT !.outliers = n]
<1>1. w \in TrackLoggerState
  BY DEF Writing, Typed
<1>2. v \in TrackLoggerState
  BY <1>1 DEF TrackLoggerState
<1>3. /\ v.open = w.open /\ v.name = w.name /\ v.data = w.data /\ v.buf = w.buf
      /\ v.stream = w.stream /\ v.state = w.state
  BY <1>1 DEF TrackLoggerState
<1> HIDE DEF v
<1>4. Writing(v) /\ v.state = w.state
  BY <1>2, <1>3 DEF Writing, Typed, Intact, OnFile
<1> QED
  BY <1>4 DEF v

\* The filter drops the fix, counts it as an outlier, or has it recorded.
LEMMA FilterSound ==
    ASSUME NEW w, Writing(w), w.state = "RECORDING", NEW fix \in Fix
    PROVE  \A v \in Filter(w, fix) : Sound(v)
<1> DEFINE jump == ~ w.first /\ fix.motion \in {"jump", "agreeing jump"}
           chain == IF fix.motion = "agreeing jump" /\ w.outliers # 0
                    THEN w.outliers + 1 ELSE 1
           rejected == jump /\ chain < LOGGER_OUTLIER_RESET_COUNT
           idle == ~ w.first /\ fix.motion = "near"
           kept == IF w.first THEN w ELSE [w EXCEPT !.outliers = 0]
<1>1. fix.due \in BOOLEAN
  BY DEF Fix
<1>2. 0 \in 0..(LOGGER_OUTLIER_RESET_COUNT - 1)
  BY TrackLoggerAssumption
<1>3. w.outliers \in Nat
  BY DEF Writing, Typed, TrackLoggerState
<1>4. chain \in Nat
  <2>1. w.outliers + 1 \in Nat /\ 1 \in Nat
    BY <1>3
  <2> QED
    BY <2>1, Zenon
<1> HIDE DEF chain
<1>5. CASE rejected
  <2>1. chain \in 0..(LOGGER_OUTLIER_RESET_COUNT - 1)
    <3>1. chain < LOGGER_OUTLIER_RESET_COUNT
      BY <1>5, Zenon
    <3>2. LOGGER_OUTLIER_RESET_COUNT \in Nat
      BY TrackLoggerAssumption
    <3> QED
      BY <1>4, <3>1, <3>2
  <2>2. Sound([w EXCEPT !.outliers = chain])
    BY <2>1, OutliersKeep DEF Sound
  <2>3. ~ idle
    BY <1>5
  <2>4. Filter(w, fix) = {[w EXCEPT !.outliers = chain]}
    BY <1>5, <2>3 DEF Filter, chain
  <2> QED
    BY <2>2, <2>4
<1>6. CASE idle
  <2>1. Sound([w EXCEPT !.outliers = 0])
    BY <1>2, OutliersKeep DEF Sound
  <2>2. ~ rejected
    BY <1>6
  <2>3. Filter(w, fix) = {[w EXCEPT !.outliers = 0]}
    BY <1>6, <2>2 DEF Filter, chain
  <2> QED
    BY <2>1, <2>3
<1>7. CASE ~ rejected /\ ~ idle
  <2>1. Writing(kept) /\ kept.state = "RECORDING"
    BY <1>2, OutliersKeep
  <2>2. Filter(w, fix) = Record(kept, fix.due)
    BY <1>7 DEF Filter, chain
  <2> HIDE DEF kept
  <2>3. \A v \in Record(kept, fix.due) : Sound(v)
    BY <1>1, <2>1, RecordSound
  <2> QED
    BY <2>2, <2>3
<1> QED
  BY <1>5, <1>6, <1>7

\* purrgo_logger_add_point, the change of day included.
LEMMA AddPointSound ==
    ASSUME NEW w, Writing(w), w.state = "RECORDING",
           NEW fix \in Fix, NEW id \in TrackIds
    PROVE  \A v \in AddPointTo(w, fix, id) : Sound(v)
<1>1. \A v \in Rollover(w, id) : Sound(v)
  <2>1. Sound(w)
    BY DEF Sound
  <2>2. ASSUME NEW u \in StopImpl(w, FALSE)
        PROVE  \A v \in StartImpl(u, id, TRUE) : Sound(v)
    <3>1. u.state = "IDLE" /\ u.name = NoName /\ Resting(u)
      BY <2>1, StopRests
    <3>2. Sound(u) /\ u.state # "RECORDING"
      BY <3>1 DEF Sound
    <3> QED
      BY <3>2, StartSound
  <2> QED
    BY <2>2 DEF Rollover
<1>2. ASSUME NEW u \in Rollover(w, id)
      PROVE  \A v \in (IF u.state = "RECORDING" THEN Filter(u, fix) ELSE {u}) : Sound(v)
  <2>1. CASE u.state = "RECORDING"
    <3>1. Writing(u)
      BY <1>1, <2>1 DEF Sound
    <3> QED
      BY <2>1, <3>1, FilterSound
  <2>2. CASE u.state # "RECORDING"
    BY <1>1, <2>2
  <2> QED
    BY <2>1, <2>2
<1> QED
  BY <1>2, FilterSound DEF AddPointTo

----------------------------------------------------------------------------
(* The specification.                                                      *)

\* The state after a boot, whatever the card holds.
LEMMA BootSound ==
    ASSUME NEW files \in SUBSET Names, NEW disk \in [Names -> Seq(Unit)],
           NEW serial \in Nat
    PROVE  Sound(Boot(files, disk, serial))
<1> DEFINE v == Boot(files, disk, serial)
<1>1. /\ <<>> \in Seq(Unit) /\ Len(<<>>) = 0 /\ 0 <= GPX_BUFFER_SIZE
      /\ 0 \in 0..(LOGGER_OUTLIER_RESET_COUNT - 1)
      /\ 0 \in 0..(TRACK_RAM_MAX_POINTS - 1) /\ 0 \in 0..TRACK_RAM_MAX_POINTS
      /\ [j \in 0..(TRACK_RAM_MAX_POINTS - 1) |-> 0] \in [0..(TRACK_RAM_MAX_POINTS - 1) -> Nat]
  BY EmptySeq, StrLenAssumption, TrackLoggerAssumption
<1>2. v \in TrackLoggerState
  BY <1>1 DEF Boot, TrackLoggerState, Modes
<1>3. v.state = "IDLE" /\ v.name = NoName /\ ~ v.open /\ v.buf = <<>>
  BY DEF Boot
<1> HIDE DEF v
<1>4. Sound(v)
  BY <1>1, <1>2, <1>3 DEF Sound, Resting, Typed, Intact
<1> QED
  BY <1>4 DEF v

LEMMA InitSound == Init => Sound(tl)
<1>1. {} \in SUBSET Names /\ 0 \in Nat
  OBVIOUS
<1>2. [n \in Names |-> <<>>] \in [Names -> Seq(Unit)]
  BY EmptySeq
<1> QED
  BY <1>1, <1>2, BootSound DEF Init

\* One step per action, and one per call that may leave several states.
LEMMA NextSound == Sound(tl) /\ [Next]_vars => Sound(tl')
<1> SUFFICES ASSUME Sound(tl), [Next]_vars
             PROVE  Sound(tl')
  OBVIOUS
<1>1. ASSUME NEW m \in Modes, SetMode(m)
      PROVE  Sound(tl')
  <2> DEFINE w == [tl EXCEPT !.mode = m]
  <2>1. tl \in TrackLoggerState
    BY DEF Sound, Writing, Resting, Typed
  <2>2. w \in TrackLoggerState
    BY <2>1 DEF TrackLoggerState
  <2>3. /\ w.open = tl.open /\ w.name = tl.name /\ w.data = tl.data
        /\ w.buf = tl.buf /\ w.stream = tl.stream /\ w.state = tl.state
        /\ w.disk = tl.disk
    BY <2>1 DEF TrackLoggerState
  <2>4. tl' = w \/ tl' \in StopImpl(w, TRUE)
    BY <1>1 DEF SetMode
  <2> HIDE DEF w
  <2>5. Intact(tl) => Intact(w)
    BY <2>3 DEF Intact, OnFile
  <2>6. (Typed(tl) => Typed(w)) /\ (Writing(tl) => Writing(w)) /\ (Resting(tl) => Resting(w))
    BY <2>2, <2>3, <2>5 DEF Typed, Writing, Resting
  <2>7. Sound(w)
    BY <2>3, <2>6 DEF Sound
  <2>8. \A v \in StopImpl(w, TRUE) : Sound(v)
    BY <2>7, StopRests DEF Sound
  <2> QED
    BY <2>4, <2>7, <2>8
<1>2. ASSUME NEW id \in TrackIds \cup {NoName}, Start(id)
      PROVE  Sound(tl')
  BY <1>2, StartSound DEF Start
<1>3. ASSUME NEW fix \in Fix, NEW id \in TrackIds, AddPoint(fix, id)
      PROVE  Sound(tl')
  <2>1. tl.state = "RECORDING" /\ Writing(tl)
    BY <1>3 DEF AddPoint, Sound
  <2> QED
    BY <1>3, <2>1, AddPointSound DEF AddPoint
<1>4. ASSUME NEW c \in BOOLEAN, tl' \in StopImpl(tl, c)
      PROVE  Sound(tl')
  BY <1>4, StopRests DEF Sound
<1>5. ASSUME NEW w \in TrackLoggerState
      PROVE  Sound(Boot(w.files, w.disk, w.serial))
  <2>1. w.files \in SUBSET Names /\ w.disk \in [Names -> Seq(Unit)] /\ w.serial \in Nat
    BY DEF TrackLoggerState
  <2> QED
    BY <2>1, BootSound
<1>6. CASE Reset
  <2>1. tl.open => Writing(tl)
    BY DEF Sound, Writing, Resting
  <2>2. \A v \in (IF tl.open THEN Close(tl) ELSE {tl}) : v \in TrackLoggerState
    BY <2>1, CloseRests DEF Sound, Writing, Resting, Typed
  <2> QED
    BY <1>5, <1>6, <2>2 DEF Reset
<1>7. CASE PowerLoss
  BY <1>5, <1>7 DEF PowerLoss, Sound, Writing, Resting, Typed
<1>8. CASE UNCHANGED vars
  <2>1. tl' = tl
    BY <1>8 DEF vars
  <2> QED
    BY <2>1
<1> QED
  BY <1>1, <1>2, <1>3, <1>4, <1>6, <1>7, <1>8 DEF Next, Stop, Suspend

\* The invariant everything below follows from.
IInv == Sound(tl)

LEMMA AlwaysSound == Spec => []IInv
<1>1. Init => IInv
  BY InitSound DEF IInv
<1>2. IInv /\ [Next]_vars => IInv'
  BY NextSound DEF IInv
<1> QED
  BY <1>1, <1>2, PTL DEF Spec

\* The types, the bounds of the buffer and of the ring, and the relation between
\* the logger's state, its file slot and its file name hold in every reachable
\* state, for every card, every sequence of faults and every size of the buffers.
THEOREM TypeCorrect == Spec => []TypeOK
<1>1. IInv => TypeOK
  BY DEF IInv, Sound, Writing, Resting, Typed, TypeOK
<1> QED
  BY <1>1, AlwaysSound, PTL

\* On a card whose f_close does not lose what f_write took, every string taken for
\* the current file is in the file or in the buffer, in order and once, whatever
\* short writes, failed syncs, failed opens and power losses came before.
THEOREM StreamIsIntact ==
    ASSUME "lossyClose" \notin Faults
    PROVE  Spec => []StreamIntact
<1>1. IInv => StreamIntact
  BY DEF IInv, Sound, Writing, Resting, Typed, Intact, StreamIntact
<1> QED
  BY <1>1, AlwaysSound, PTL

----------------------------------------------------------------------------
(* What a file is made of.                                                 *)

HeaderLen == StrLen["header"]
PointLen == StrLen["point"]

LEMMA Lengths == HeaderLen \in Nat \ {0} /\ PointLen \in Nat \ {0}
<1>1. "header" \in Kinds /\ "point" \in Kinds
  BY DEF Kinds
<1> QED
  BY <1>1, StrLenAssumption DEF HeaderLen, PointLen

\* t begins with s.
Extends(t, s) == Len(s) <= Len(t) /\ \A j \in 1..Len(s) : t[j] = s[j]

LEMMA ExtendsItself ==
    ASSUME NEW s \in Seq(Unit)
    PROVE  Extends(s, s) /\ Extends(s, <<>>)
<1>1. Len(s) \in Nat /\ Len(<<>>) = 0
  BY LenProperties
<1> QED
  BY <1>1 DEF Extends

LEMMA ExtendsOn ==
    ASSUME NEW s \in Seq(Unit), NEW t \in Seq(Unit), NEW u \in Seq(Unit),
           Extends(t, s), Extends(u, t)
    PROVE  Extends(u, s)
<1>1. Len(s) \in Nat /\ Len(t) \in Nat /\ Len(u) \in Nat
  BY LenProperties
<1> QED
  BY <1>1 DEF Extends

LEMMA ConcatExtends ==
    ASSUME NEW s \in Seq(Unit), NEW t \in Seq(Unit)
    PROVE  Extends(s \o t, s)
<1>1. /\ Len(s) \in Nat /\ Len(t) \in Nat /\ Len(s \o t) = Len(s) + Len(t)
      /\ \A j \in 1..Len(s) + Len(t) :
            (s \o t)[j] = IF j <= Len(s) THEN s[j] ELSE t[j - Len(s)]
  BY ConcatProperties, LenProperties
<1> QED
  BY <1>1 DEF Extends

\* What FilesOnlyGrow says of one file.
LEMMA ExtendsIsPrefix ==
    ASSUME NEW s \in Seq(Unit), NEW t \in Seq(Unit), Extends(t, s)
    PROVE  Len(s) <= Len(t) /\ SubSeq(t, 1, Len(s)) = s
<1>1. Len(s) \in Nat /\ Len(t) \in Nat /\ Len(s) <= Len(t)
  BY LenProperties DEF Extends
<1>2. \A j \in 1..Len(s) : t[j] \in Unit /\ t[j] = s[j]
  BY <1>1, ElementOfSeq DEF Extends
<1>3. /\ SubSeq(t, 1, Len(s)) \in Seq(Unit)
      /\ Len(SubSeq(t, 1, Len(s))) = Len(s)
      /\ \A j \in 1..Len(s) : SubSeq(t, 1, Len(s))[j] = t[j]
  <2>1. 1 \in Int /\ Len(s) \in Int
    BY <1>1
  <2>2. /\ SubSeq(t, 1, Len(s)) \in Seq(Unit)
        /\ Len(SubSeq(t, 1, Len(s))) = IF 1 <= Len(s) THEN Len(s) - 1 + 1 ELSE 0
        /\ \A j \in 1..(Len(s) - 1 + 1) : SubSeq(t, 1, Len(s))[j] = t[1 + j - 1]
    BY <1>2, <2>1, SubSeqProperties
  <2> QED
    BY <1>1, <2>2
<1>4. SubSeq(t, 1, Len(s)) = s
  BY <1>2, <1>3, SeqEqual
<1> QED
  BY <1>1, <1>4

----------------------------------------------------------------------------
(* Files that are well formed.                                             *)

LEMMA EmptyWellFormed == WellFormed(<<>>)
BY DEF WellFormed

LEMMA PrefixWellFormed ==
    ASSUME NEW s \in Seq(Unit), NEW t \in Seq(Unit), Extends(t, s), WellFormed(t)
    PROVE  WellFormed(s)
<1>1. Len(s) \in Nat /\ Len(t) \in Nat
  BY LenProperties
<1> QED
  BY <1>1 DEF Extends, WellFormed

\* The units of a string follow one another.
LEMMA StrUnits ==
    ASSUME NEW k \in Kinds, NEW p \in Nat
    PROVE  /\ \A j \in 1..StrLen[k] : Str(k, p)[j] = [kind |-> k, pt |-> p, i |-> j]
           /\ \A j \in 1..(StrLen[k] - 1) : Adjacent(Str(k, p)[j], Str(k, p)[j + 1])
<1>1. StrLen[k] \in Nat
  BY StrLenAssumption
<1>2. \A j \in 1..StrLen[k] : Str(k, p)[j] = [kind |-> k, pt |-> p, i |-> j]
  BY DEF Str
<1>3. ASSUME NEW j \in 1..(StrLen[k] - 1)
      PROVE  Adjacent(Str(k, p)[j], Str(k, p)[j + 1])
  <2>1. j \in 1..StrLen[k] /\ j + 1 \in 1..StrLen[k] /\ j # StrLen[k]
    BY <1>1
  <2>2. /\ Str(k, p)[j] = [kind |-> k, pt |-> p, i |-> j]
        /\ Str(k, p)[j + 1] = [kind |-> k, pt |-> p, i |-> j + 1]
    BY <1>2, <2>1
  <2> QED
    BY <2>1, <2>2 DEF Adjacent, EndsString
<1> QED
  BY <1>2, <1>3

LEMMA HeaderWellFormed == WellFormed(Header)
<1>1. "header" \in Kinds /\ 0 \in Nat
  BY DEF Kinds
<1>2. Len(Header) = HeaderLen
  BY <1>1, StrType DEF Header, HeaderLen
<1>3. 1 \in 1..HeaderLen
  BY Lengths
<1>4. Header[1] = [kind |-> "header", pt |-> 0, i |-> 1]
  BY <1>1, <1>3, StrUnits DEF Header, HeaderLen
<1>5. \A j \in 1..(HeaderLen - 1) : Adjacent(Header[j], Header[j + 1])
  BY <1>1, StrUnits DEF Header, HeaderLen
<1> QED
  BY <1>2, <1>4, <1>5 DEF WellFormed

\* A whole string after a whole string that it may follow.
LEMMA StrFollows ==
    ASSUME NEW s \in Seq(Unit), Len(s) > 0, WellFormed(s), EndsString(s[Len(s)]),
           NEW k \in Kinds, NEW p \in Nat,
           MayFollow(s[Len(s)], [kind |-> k, pt |-> p, i |-> 1])
    PROVE  WellFormed(s \o Str(k, p))
<1> DEFINE t == Str(k, p)
           m == Len(s)
           l == StrLen[k]
<1>1. /\ m \in Nat /\ m > 0 /\ l \in Nat /\ l > 0 /\ Len(t) = l /\ t \in Seq(Unit)
  BY StrType, StrLenAssumption, LenProperties
<1>2. /\ \A j \in 1..l : t[j] = [kind |-> k, pt |-> p, i |-> j]
      /\ \A j \in 1..(l - 1) : Adjacent(t[j], t[j + 1])
  BY StrUnits
<1>3. t[1] = [kind |-> k, pt |-> p, i |-> 1]
  BY <1>1, <1>2
<1> HIDE DEF t
<1>4. /\ Len(s \o t) = m + l
      /\ \A j \in 1..m + l : (s \o t)[j] = IF j <= m THEN s[j] ELSE t[j - m]
  BY <1>1, ConcatProperties
<1>5. Adjacent(s[m], t[1])
  BY <1>3 DEF Adjacent
<1>6. /\ s[1].kind = "header" /\ s[1].i = 1
      /\ \A j \in 1..(m - 1) : Adjacent(s[j], s[j + 1])
  BY <1>1 DEF WellFormed
<1> HIDE DEF m, l
<1>7. ASSUME NEW j \in 1..(m + l - 1)
      PROVE  Adjacent((s \o t)[j], (s \o t)[j + 1])
  <2>1. j \in 1..m + l /\ j + 1 \in 1..m + l
    BY <1>1
  <2>2. CASE j < m
    <3>1. j \in 1..(m - 1) /\ j <= m /\ j + 1 <= m
      BY <1>1, <2>2
    <3>2. (s \o t)[j] = s[j] /\ (s \o t)[j + 1] = s[j + 1]
      BY <1>4, <2>1, <3>1
    <3> QED
      BY <1>6, <3>1, <3>2
  <2>3. CASE j = m
    <3>1. m <= m /\ ~ m + 1 <= m /\ (m + 1) - m = 1
      BY <1>1
    <3>2. (s \o t)[j] = s[m] /\ (s \o t)[j + 1] = t[1]
      BY <1>4, <2>1, <2>3, <3>1
    <3> QED
      BY <1>5, <3>2
  <2>4. CASE j > m
    <3>1. /\ j - m \in 1..(l - 1) /\ ~ j <= m /\ ~ j + 1 <= m
          /\ (j + 1) - m = (j - m) + 1
      BY <1>1, <2>4
    <3>2. (s \o t)[j] = t[j - m] /\ (s \o t)[j + 1] = t[(j - m) + 1]
      BY <1>4, <2>1, <3>1
    <3> QED
      BY <1>2, <3>1, <3>2
  <2>5. j < m \/ j = m \/ j > m
    BY <1>1
  <2> QED
    BY <2>2, <2>3, <2>4, <2>5, Zenon
<1>8. (s \o t)[1] = s[1]
  BY <1>1, <1>4
<1>9. WellFormed(s \o t)
  <2> DEFINE f == s \o t
  <2>1. f[1].kind = "header" /\ f[1].i = 1
    BY <1>6, <1>8, Zenon
  <2>2. Len(f) = m + l
    BY <1>4, Zenon
  <2>3. \A j \in 1..(m + l - 1) : Adjacent(f[j], f[j + 1])
    BY <1>7, Zenon
  <2> HIDE DEF f
  <2>4. ASSUME NEW j \in 1..(Len(f) - 1)
        PROVE  Adjacent(f[j], f[j + 1])
    <3>1. j \in 1..(m + l - 1)
      BY <1>1, <2>2
    <3> QED
      BY <2>3, <3>1, Zenon
  <2>5. WellFormed(f)
    BY <2>1, <2>4, Zenon DEF WellFormed
  <2> QED
    BY <2>5 DEF f
<1> QED
  BY <1>9 DEF t

----------------------------------------------------------------------------
(* The points of a file.                                                   *)

LEMMA PointsAre ==
    ASSUME NEW s, NEW p
    PROVE  p \in PointsIn(s) <=>
             \E j \in 1..Len(s) : s[j].kind = "point" /\ EndsString(s[j]) /\ s[j].pt = p
BY DEF PointsIn

LEMMA PointsGrow ==
    ASSUME NEW s \in Seq(Unit), NEW t \in Seq(Unit), Extends(t, s)
    PROVE  PointsIn(s) \subseteq PointsIn(t)
<1> SUFFICES ASSUME NEW p \in PointsIn(s)
             PROVE  p \in PointsIn(t)
  OBVIOUS
<1>1. PICK j \in 1..Len(s) : s[j].kind = "point" /\ EndsString(s[j]) /\ s[j].pt = p
  BY PointsAre
<1>2. j \in 1..Len(t) /\ t[j] = s[j]
  BY LenProperties DEF Extends
<1> QED
  BY <1>1, <1>2, PointsAre

\* A string adds no point but the one it is.
LEMMA PointsWithStr ==
    ASSUME NEW s \in Seq(Unit), NEW k \in Kinds, NEW n \in Nat,
           NEW p \in PointsIn(s \o Str(k, n))
    PROVE  p \in PointsIn(s) \/ (k = "point" /\ p = n)
<1> DEFINE t == Str(k, n)
           m == Len(s)
           l == StrLen[k]
<1>1. t \in Seq(Unit) /\ Len(t) = l /\ m \in Nat /\ l \in Nat
  BY StrType, LenProperties, StrLenAssumption
<1>2. \A j \in 1..l : t[j] = [kind |-> k, pt |-> n, i |-> j]
  BY StrUnits
<1> HIDE DEF t
<1>3. /\ Len(s \o t) = m + l
      /\ \A j \in 1..m + l : (s \o t)[j] = IF j <= m THEN s[j] ELSE t[j - m]
  BY <1>1, ConcatProperties
<1> HIDE DEF m, l
<1>4. PICK j \in 1..Len(s \o t) :
         (s \o t)[j].kind = "point" /\ EndsString((s \o t)[j]) /\ (s \o t)[j].pt = p
  BY PointsAre DEF t
<1> j \in 1..m + l
  BY <1>1, <1>3
<1>5. CASE j <= m
  <2>1. (s \o t)[j] = s[j] /\ j \in 1..m
    BY <1>1, <1>3, <1>5
  <2> QED
    BY <1>4, <2>1, PointsAre DEF m
<1>6. CASE j > m
  <2>1. PICK i \in 1..l : (s \o t)[j] = t[i]
    BY <1>1, <1>3, <1>6
  <2>2. t[i] = [kind |-> k, pt |-> n, i |-> i]
    BY <1>2, Zenon
  <2> QED
    BY <1>4, <2>1, <2>2
<1> QED
  BY <1>1, <1>5, <1>6

----------------------------------------------------------------------------
(* A track that goes on: the header and the points from f up to n - 1,     *)
(* each at its place.                                                      *)

Ends(s, f, n) ==
    /\ EndsString(s[Len(s)])
    /\ n = f => s[Len(s)].kind = "header"
    /\ n # f => s[Len(s)].kind = "point" /\ s[Len(s)].pt = n - 1

Placed(s, f, n) ==
    \A j \in 1..Len(s) : s[j].kind = "point" =>
        /\ s[j].pt \in f..n - 1
        /\ j = HeaderLen + (s[j].pt - f) * PointLen + s[j].i

Body(s, f, n) ==
    /\ Len(s) = HeaderLen + (n - f) * PointLen
    /\ WellFormed(s)
    /\ Ends(s, f, n)
    /\ Placed(s, f, n)

LEMMA HeaderBody ==
    ASSUME NEW n \in Nat
    PROVE  Body(Header, n, n)
<1>1. "header" \in Kinds /\ 0 \in Nat
  BY DEF Kinds
<1>2. Len(Header) = HeaderLen /\ HeaderLen \in Nat \ {0}
  BY <1>1, StrType, Lengths DEF Header, HeaderLen
<1>3. \A j \in 1..HeaderLen : Header[j] = [kind |-> "header", pt |-> 0, i |-> j]
  BY <1>1, StrUnits DEF Header, HeaderLen
<1>4. Header[Len(Header)] = [kind |-> "header", pt |-> 0, i |-> HeaderLen]
  BY <1>2, <1>3
<1>5. Ends(Header, n, n)
  BY <1>4 DEF Ends, EndsString, HeaderLen
<1>6. Placed(Header, n, n)
  <2>1. \A j \in 1..Len(Header) : Header[j].kind = "header"
    BY <1>2, <1>3
  <2> QED
    BY <2>1 DEF Placed
<1>7. Len(Header) = HeaderLen + (n - n) * PointLen
  BY <1>2, Lengths
<1> QED
  BY <1>5, <1>6, <1>7, HeaderWellFormed DEF Body

LEMMA BodyIsNotEmpty ==
    ASSUME NEW s \in Seq(Unit), NEW f \in Nat, NEW n \in Nat, f <= n, Body(s, f, n)
    PROVE  Len(s) \in Nat /\ Len(s) > 0
<1>1. Len(s) \in Nat
  BY LenProperties
<1>2. s # <<>>
  <2>1. n - f \in Nat /\ HeaderLen \in Nat \ {0} /\ PointLen \in Nat
    BY Lengths
  <2>2. (n - f) * PointLen \in Nat
    BY <2>1
  <2>3. Len(s) = HeaderLen + (n - f) * PointLen
    BY DEF Body
  <2>4. Len(s) > 0
    BY <2>1, <2>2, <2>3
  <2> QED
    BY <2>4
<1> QED
  BY <1>1, <1>2, EmptySeq

\* The next point goes where it belongs.
LEMMA PointBody ==
    ASSUME NEW s \in Seq(Unit), NEW f \in Nat, NEW n \in Nat, f <= n, Body(s, f, n)
    PROVE  Body(s \o Point(n), f, n + 1)
<1> DEFINE t == Point(n)
           m == Len(s)
<1>1. /\ "point" \in Kinds /\ m \in Nat /\ m > 0 /\ t \in Seq(Unit) /\ Len(t) = PointLen
      /\ PointLen \in Nat \ {0} /\ HeaderLen \in Nat \ {0}
  BY BodyIsNotEmpty, StrType, Lengths DEF Point, Kinds, PointLen
<1>2. \A j \in 1..PointLen : t[j] = [kind |-> "point", pt |-> n, i |-> j]
  BY <1>1, StrUnits DEF Point, PointLen
<1>3. WellFormed(s \o t)
  <2>1. MayFollow(s[Len(s)], [kind |-> "point", pt |-> n, i |-> 1])
    <3>1. CASE n = f
      BY <3>1 DEF Body, Ends, MayFollow
    <3>2. CASE n # f
      BY <3>2 DEF Body, Ends, MayFollow
    <3> QED
      BY <3>1, <3>2
  <2> QED
    BY <1>1, <2>1, StrFollows DEF Body, Ends, Point
<1> HIDE DEF t
<1>4. /\ Len(s \o t) = m + PointLen
      /\ \A j \in 1..m + PointLen : (s \o t)[j] = IF j <= m THEN s[j] ELSE t[j - m]
  BY <1>1, ConcatProperties
<1>5. m = HeaderLen + (n - f) * PointLen
  BY DEF Body
<1>6. m + PointLen = HeaderLen + ((n + 1) - f) * PointLen
  <2>1. ((n + 1) - f) * PointLen = (n - f) * PointLen + PointLen
    BY <1>1
  <2>2. (n - f) * PointLen \in Int
    BY <1>1
  <2> QED
    BY <1>1, <1>5, <2>1, <2>2
<1>7. Placed(s, f, n)
  BY DEF Body
<1> HIDE DEF m
<1>8. Ends(s \o t, f, n + 1)
  <2>1. (s \o t)[m + PointLen] = t[PointLen]
    <3>1. /\ m + PointLen \in 1..m + PointLen /\ ~ m + PointLen <= m
          /\ (m + PointLen) - m = PointLen
      BY <1>1
    <3> QED
      BY <1>4, <3>1
  <2>2. t[PointLen] = [kind |-> "point", pt |-> n, i |-> PointLen]
    BY <1>1, <1>2
  <2>3. (s \o t)[Len(s \o t)] = [kind |-> "point", pt |-> n, i |-> PointLen]
    BY <1>4, <2>1, <2>2
  <2>4. n + 1 # f /\ (n + 1) - 1 = n
    OBVIOUS
  <2> QED
    BY <2>3, <2>4 DEF Ends, EndsString, PointLen
<1>9. Placed(s \o t, f, n + 1)
  <2> SUFFICES ASSUME NEW j \in 1..m + PointLen, (s \o t)[j].kind = "point"
               PROVE  /\ (s \o t)[j].pt \in f..(n + 1) - 1
                      /\ j = HeaderLen + ((s \o t)[j].pt - f) * PointLen + (s \o t)[j].i
    BY <1>4 DEF Placed
  <2>1. CASE j <= m
    <3>1. (s \o t)[j] = s[j] /\ j \in 1..m
      BY <1>1, <1>4, <2>1
    <3>2. s[j].pt \in f..n - 1 /\ j = HeaderLen + (s[j].pt - f) * PointLen + s[j].i
      BY <1>7, <3>1 DEF Placed, m
    <3>3. s[j].pt \in f..(n + 1) - 1
      BY <3>2
    <3> QED
      BY <3>1, <3>2, <3>3
  <2>2. CASE j > m
    <3>1. PICK i \in 1..PointLen : (s \o t)[j] = t[i] /\ j = m + i
      BY <1>1, <1>4, <2>2
    <3>2. t[i] = [kind |-> "point", pt |-> n, i |-> i]
      BY <1>2, Zenon
    <3>3. n \in f..(n + 1) - 1
      OBVIOUS
    <3> QED
      BY <1>5, <3>1, <3>2, <3>3
  <2>3. j <= m \/ j > m
    BY <1>1
  <2> QED
    BY <2>1, <2>2, <2>3, Zenon
<1>10. Body(s \o t, f, n + 1)
  BY <1>3, <1>4, <1>6, <1>8, <1>9 DEF Body
<1> QED
  BY <1>10 DEF t

\* The footer may follow.
LEMMA FooterFollows ==
    ASSUME NEW s \in Seq(Unit), NEW f \in Nat, NEW n \in Nat, f <= n, Body(s, f, n)
    PROVE  WellFormed(s \o Footer)
<1>1. Len(s) > 0 /\ "footer" \in Kinds /\ 0 \in Nat
  BY BodyIsNotEmpty DEF Kinds
<1>2. MayFollow(s[Len(s)], [kind |-> "footer", pt |-> 0, i |-> 1])
  <2>1. CASE n = f
    BY <2>1 DEF Body, Ends, MayFollow
  <2>2. CASE n # f
    BY <2>2 DEF Body, Ends, MayFollow
  <2> QED
    BY <2>1, <2>2
<1> QED
  BY <1>1, <1>2, StrFollows DEF Body, Ends, Footer

----------------------------------------------------------------------------
(* How many points a buffer can hold the end of.                           *)

LEMMA LessTimes ==
    ASSUME NEW l \in Nat, NEW x \in Int, NEW y \in Int, x * l < y * l
    PROVE  x < y
<1> SUFFICES ASSUME x >= y PROVE FALSE
  OBVIOUS
<1>1. \A d \in Nat : d * l >= 0
  OBVIOUS
<1>2. x - y \in Nat
  OBVIOUS
<1>3. (x - y) * l >= 0
  BY <1>1, <1>2
<1>4. (x - y) * l = x * l - y * l /\ x * l \in Int /\ y * l \in Int
  OBVIOUS
<1> QED
  BY <1>3, <1>4

LEMMA Quotient ==
    ASSUME NEW l \in Nat \ {0}, NEW x \in Int
    PROVE  \E k \in Int : k * l <= x /\ x < (k + 1) * l
<1>1. x \div l \in Int /\ (x \div l) * l <= x /\ x < (x \div l + 1) * l
  OBVIOUS
<1> QED
  BY <1>1

\* Points that end in the last GPX_BUFFER_SIZE units.
LEMMA FewInBuffer ==
    ASSUME NEW s \in Seq(Unit), NEW t \in Seq(Unit), Extends(s, t),
           NEW f \in Nat, NEW n \in Nat, f <= n, Body(s, f, n),
           Len(s) - Len(t) <= GPX_BUFFER_SIZE,
           GPX_BUFFER_SIZE <= (LOGGER_SYNC_POINTS - 1) * PointLen
    PROVE  \E a, b \in Int : /\ PointsIn(s) \ PointsIn(t) \subseteq a..b
                             /\ b - a + 1 < LOGGER_SYNC_POINTS
<1> DEFINE q == LOGGER_SYNC_POINTS
<1>1. /\ HeaderLen \in Nat /\ PointLen \in Nat \ {0} /\ q \in Nat \ {0}
      /\ Len(s) \in Nat /\ Len(t) \in Nat /\ GPX_BUFFER_SIZE \in Nat
  BY Lengths, LenProperties, TrackLoggerAssumption, StrLenAssumption
<1>2. PICK k \in Int : /\ k * PointLen <= Len(t) - HeaderLen
                       /\ Len(t) - HeaderLen < (k + 1) * PointLen
  <2>1. Len(t) - HeaderLen \in Int
    BY <1>1
  <2> QED
    BY <1>1, <2>1, Quotient, Zenon
<1>3. ASSUME NEW p \in PointsIn(s) \ PointsIn(t)
      PROVE  p \in (f + k)..(f + k + (q - 2))
  <2>1. PICK j \in 1..Len(s) : s[j].kind = "point" /\ EndsString(s[j]) /\ s[j].pt = p
    BY PointsAre
  <2>2. p \in f..n - 1 /\ j = HeaderLen + (p - f) * PointLen + PointLen
    BY <2>1 DEF Body, Placed, EndsString, PointLen
  <2>3. Len(t) < j
    <3>1. SUFFICES ASSUME j <= Len(t)
                   PROVE  FALSE
      BY <1>1
    <3>2. j \in 1..Len(t) /\ t[j] = s[j]
      BY <1>1, <3>1 DEF Extends
    <3> QED
      BY <2>1, <3>2, PointsAre
  <2>4. p \in Int /\ p - f + 1 \in Int
    BY <2>2
  <2>5. (p - f) * PointLen + PointLen = (p - f + 1) * PointLen
    BY <1>1, <2>4
  <2>6. /\ (p - f + 1) * PointLen \in Int /\ k * PointLen \in Int
        /\ (p - f) * PointLen \in Int /\ (q - 1) * PointLen \in Int
    BY <1>1, <2>4
  <2>7. k * PointLen < (p - f + 1) * PointLen
    <3>1. PICK x \in Int : x = (p - f + 1) * PointLen
      BY <2>6
    <3>2. PICK y \in Int : y = k * PointLen
      BY <2>6
    <3>3. j = HeaderLen + x /\ y <= Len(t) - HeaderLen
      BY <1>1, <1>2, <2>2, <2>5, <2>6, <3>1, <3>2
    <3>4. y < x
      BY <1>1, <2>3, <3>3
    <3> QED
      BY <3>1, <3>2, <3>4
  <2>8. (p - f + 1) * PointLen < (k + 1) * PointLen + (q - 1) * PointLen
    BY <1>1, <1>2, <2>2, <2>5, <2>6, SMTT(30)
  <2>9. (k + 1) * PointLen + (q - 1) * PointLen = (k + q) * PointLen
    BY <1>1
  <2>10. k < p - f + 1
    BY <1>1, <2>4, <2>7, LessTimes
  <2>11. p - f + 1 < k + q
    BY <1>1, <2>4, <2>8, <2>9, LessTimes
  <2> QED
    BY <1>1, <2>4, <2>10, <2>11
<1>4. /\ f + k \in Int /\ f + k + (q - 2) \in Int
      /\ (f + k + (q - 2)) - (f + k) + 1 < LOGGER_SYNC_POINTS
  BY <1>1
<1> QED
  BY <1>3, <1>4

LEMMA FewOf ==
    ASSUME NEW S, NEW a \in Int, NEW b \in Int, S \subseteq a..b,
           NEW q \in Nat \ {0}, b - a + 1 < q
    PROVE  Cardinality(S) < q
<1>1. /\ IsFiniteSet(a..b)
      /\ Cardinality(a..b) = IF a > b THEN 0 ELSE b - a + 1
  BY FS_Interval
<1>2. IsFiniteSet(S) /\ Cardinality(S) <= Cardinality(a..b)
  BY <1>1, FS_Subset
<1>3. Cardinality(S) \in Nat
  BY <1>2, FS_CardinalityType
<1> QED
  BY <1>1, <1>2, <1>3

----------------------------------------------------------------------------
(* What holds between two calls, of the ring and of the files on the card. *)

Lossless == "lossyClose" \notin Faults

\* The ring holds the last count numbers, going back from its head.
SlotBefore(head, j) == IF head >= j THEN head - j ELSE head - j + TRACK_RAM_MAX_POINTS

Ring(w) == \A j \in 1..w.count : w.ring[SlotBefore(w.head, j)] = w.serial - j + 1

\* A name not taken has no file, and the open file has its name.
Blank(w) ==
    /\ w.open => w.name \in w.files
    /\ \A n \in Names \ w.files : w.disk[n] = <<>>

\* FatFs never holds less than the card.
Ahead(w) == w.open => Extends(w.data, w.disk[w.name])

\* All but the last unsynced points are on the card.
Synced(w) ==
    \A p \in PointsIn(w.stream) :
        p <= w.serial - w.unsynced => p \in PointsIn(w.disk[w.name])

FilesSound(w) ==
    Lossless => /\ \A n \in Names : WellFormed(w.disk[n])
                /\ w.name # NoName => WellFormed(w.stream) /\ Synced(w)

Good(w) == Ring(w) /\ Blank(w) /\ Ahead(w) /\ FilesSound(w)

\* A call that writes, syncs or closes the file goes from w to v.
Grows(w, v) == \A n \in Names : Extends(v.disk[n], w.disk[n])

Kin(w, v) ==
    /\ v.ring = w.ring /\ v.head = w.head /\ v.count = w.count /\ v.serial = w.serial
    /\ v.name = w.name /\ v.files = w.files /\ v.unsynced = w.unsynced
    /\ \A n \in Names : n # w.name => v.disk[n] = w.disk[n]
    /\ Grows(w, v)

LEMMA KinItself ==
    ASSUME NEW w \in TrackLoggerState
    PROVE  Kin(w, w)
<1>1. \A n \in Names : w.disk[n] \in Seq(Unit)
  BY DEF TrackLoggerState
<1> QED
  BY <1>1, ExtendsItself DEF Kin, Grows

LEMMA GrowsOn ==
    ASSUME NEW w \in TrackLoggerState, NEW u \in TrackLoggerState,
           NEW v \in TrackLoggerState, Grows(w, u), Grows(u, v)
    PROVE  Grows(w, v)
<1> SUFFICES ASSUME NEW n \in Names
             PROVE  Extends(v.disk[n], w.disk[n])
  BY DEF Grows
<1>1. w.disk[n] \in Seq(Unit) /\ u.disk[n] \in Seq(Unit) /\ v.disk[n] \in Seq(Unit)
  BY DEF TrackLoggerState
<1>2. Extends(u.disk[n], w.disk[n]) /\ Extends(v.disk[n], u.disk[n])
  BY DEF Grows
<1> QED
  BY <1>1, <1>2, ExtendsOn

LEMMA KinOn ==
    ASSUME NEW w \in TrackLoggerState, NEW u \in TrackLoggerState,
           NEW v \in TrackLoggerState, Kin(w, u), Kin(u, v)
    PROVE  Kin(w, v)
<1>1. Grows(w, v)
  BY GrowsOn DEF Kin
<1> QED
  BY <1>1 DEF Kin

LEMMA KinGood ==
    ASSUME NEW w, NEW v, Writing(w), Good(w), Typed(v), Kin(w, v),
           v.stream = w.stream, Ahead(v), Lossless => WellFormed(v.disk[w.name])
    PROVE  Good(v)
<1>1. w \in TrackLoggerState /\ v \in TrackLoggerState /\ w.open /\ w.name # NoName
  BY DEF Writing, Typed
<1>2. w.name \in Names
  BY <1>1 DEF TrackLoggerState
<1>3. Ring(v)
  BY DEF Kin, Ring, Good
<1>4. Blank(v)
  BY <1>1 DEF Kin, Blank, Good
<1>5. ASSUME Lossless
      PROVE  /\ \A n \in Names : WellFormed(v.disk[n])
             /\ WellFormed(v.stream) /\ Synced(v)
  <2>1. \A n \in Names : WellFormed(v.disk[n])
    BY <1>5 DEF Kin, Good, FilesSound
  <2>2. Extends(v.disk[w.name], w.disk[w.name])
    BY <1>2 DEF Kin, Grows
  <2>3. v.disk[w.name] \in Seq(Unit) /\ w.disk[w.name] \in Seq(Unit)
    BY <1>1, <1>2 DEF TrackLoggerState
  <2>4. PointsIn(w.disk[w.name]) \subseteq PointsIn(v.disk[w.name])
    BY <2>2, <2>3, PointsGrow
  <2>5. Synced(w) /\ WellFormed(w.stream)
    BY <1>1, <1>5 DEF Good, FilesSound
  <2>6. v.serial = w.serial /\ v.unsynced = w.unsynced /\ v.name = w.name
    BY DEF Kin
  <2>7. Synced(v)
    BY <2>4, <2>5, <2>6 DEF Synced
  <2> QED
    BY <2>1, <2>5, <2>7
<1>6. FilesSound(v)
  BY <1>5 DEF FilesSound
<1> QED
  BY <1>3, <1>4, <1>6 DEF Good

\* What has reached FatFs is the beginning of the stream.
LEMMA DataOfStream ==
    ASSUME NEW w, Writing(w), Lossless
    PROVE  Extends(w.stream, w.data)
<1>1. w.data \in Seq(Unit) /\ w.buf \in Seq(Unit)
  BY DEF Writing, Typed, TrackLoggerState
<1>2. w.data \o w.buf = w.stream
  BY DEF Writing, Intact, OnFile, Lossless
<1> QED
  BY <1>1, <1>2, ConcatExtends

LEMMA DataWellFormed ==
    ASSUME NEW w, Writing(w), Good(w), Lossless
    PROVE  WellFormed(w.data)
<1>1. w.data \in Seq(Unit) /\ w.stream \in Seq(Unit) /\ WellFormed(w.stream)
  BY DEF Writing, Typed, TrackLoggerState, Good, FilesSound
<1> QED
  BY <1>1, DataOfStream, PrefixWellFormed

----------------------------------------------------------------------------
(* Writing.                                                                *)

LEMMA WrittenGood ==
    ASSUME NEW w, Writing(w), Good(w), NEW k \in 0..Len(w.buf)
    PROVE  LET v == Written(w, k) IN Good(v) /\ Kin(w, v) /\ v.stream = w.stream
<1> DEFINE v == Written(w, k)
           front == SubSeq(w.buf, 1, k)
<1>1. /\ w \in TrackLoggerState /\ w.open /\ w.name # NoName
      /\ w.data \in Seq(Unit) /\ w.buf \in Seq(Unit)
  BY DEF Writing, Typed, TrackLoggerState
<1>2. w.name \in Names /\ \A n \in Names : w.disk[n] \in Seq(Unit)
  BY <1>1 DEF TrackLoggerState
<1>3. front \in Seq(Unit)
  <2>1. k \in Int /\ \A i \in 1..k : w.buf[i] \in Unit
    BY <1>1, ElementOfSeq, LenProperties
  <2> QED
    BY <2>1, SubSeqProperties
<1>4. Writing(v)
  BY WrittenKeeps
<1>5. /\ v.ring = w.ring /\ v.head = w.head /\ v.count = w.count /\ v.serial = w.serial
      /\ v.name = w.name /\ v.files = w.files /\ v.unsynced = w.unsynced
      /\ v.disk = w.disk /\ v.stream = w.stream /\ v.data = w.data \o front
  BY <1>1 DEF Written, TrackLoggerState
<1> HIDE DEF v, front
<1>6. Kin(w, v)
  BY <1>2, <1>5, ExtendsItself DEF Kin, Grows
<1>7. Ahead(v)
  <2>1. Extends(w.data, w.disk[w.name])
    BY <1>1 DEF Good, Ahead
  <2>2. Extends(w.data \o front, w.data) /\ w.data \o front \in Seq(Unit)
    BY <1>1, <1>3, ConcatExtends, ConcatProperties
  <2>3. Extends(w.data \o front, w.disk[w.name])
    BY <1>1, <1>2, <2>1, <2>2, ExtendsOn
  <2> QED
    BY <1>5, <2>3 DEF Ahead
<1>8. Lossless => WellFormed(v.disk[w.name])
  BY <1>2, <1>5 DEF Good, FilesSound
<1>9. Typed(v)
  BY <1>4 DEF Writing
<1>10. Good(v)
  BY <1>5, <1>6, <1>7, <1>8, <1>9, KinGood
<1> QED
  BY <1>5, <1>6, <1>10 DEF v

LEMMA FlushGood ==
    ASSUME NEW w, Writing(w), Good(w), NEW v \in FlushOk(w) \cup FlushFail(w)
    PROVE  Good(v) /\ Kin(w, v) /\ v.stream = w.stream
<1>1. Len(w.buf) \in Nat
  BY DEF Writing, Typed, TrackLoggerState
<1>2. CASE v \in FlushOk(w)
  <2>1. v = Written(w, Len(w.buf)) /\ Len(w.buf) \in 0..Len(w.buf)
    BY <1>1, <1>2 DEF FlushOk
  <2> QED
    BY <2>1, WrittenGood
<1>3. CASE v \in FlushFail(w)
  <2>1. PICK k \in 0..(Len(w.buf) - 1) : v = Written(w, k)
    BY <1>3 DEF FlushFail
  <2>2. k \in 0..Len(w.buf)
    BY <1>1
  <2> QED
    BY <2>1, <2>2, WrittenGood
<1> QED
  BY <1>2, <1>3

LEMMA PersistedGood ==
    ASSUME NEW w, Writing(w), Good(w)
    PROVE  LET v == Persisted(w)
           IN  Good(v) /\ Kin(w, v) /\ v.stream = w.stream /\ v.disk[w.name] = w.data
<1> DEFINE v == Persisted(w)
<1>1. w \in TrackLoggerState /\ w.open /\ w.name # NoName
  BY DEF Writing, Typed
<1>2. /\ w.name \in Names /\ w.data \in Seq(Unit) /\ \A n \in Names : w.disk[n] \in Seq(Unit)
  BY <1>1 DEF TrackLoggerState
<1>3. Writing(v)
  BY PersistedKeeps
<1>4. /\ v.ring = w.ring /\ v.head = w.head /\ v.count = w.count /\ v.serial = w.serial
      /\ v.name = w.name /\ v.files = w.files /\ v.unsynced = w.unsynced
      /\ v.stream = w.stream /\ v.data = w.data
      /\ v.disk = [w.disk EXCEPT ![w.name] = w.data]
  BY <1>1 DEF Persisted, TrackLoggerState
<1>5. /\ v.disk[w.name] = w.data
      /\ \A n \in Names : n # w.name => v.disk[n] = w.disk[n]
  BY <1>1, <1>2, <1>4 DEF TrackLoggerState
<1> HIDE DEF v
<1>6. Extends(w.data, w.disk[w.name])
  BY <1>1 DEF Good, Ahead
<1>7. Kin(w, v)
  <2>1. Grows(w, v)
    BY <1>2, <1>5, <1>6, ExtendsItself DEF Grows
  <2> QED
    BY <1>4, <1>5, <2>1 DEF Kin
<1>8. Ahead(v)
  BY <1>2, <1>4, <1>5, ExtendsItself DEF Ahead
<1>9. Lossless => WellFormed(v.disk[w.name])
  BY <1>5, DataWellFormed
<1>10. Good(v)
  BY <1>3, <1>4, <1>7, <1>8, <1>9, KinGood DEF Writing
<1> QED
  BY <1>4, <1>5, <1>7, <1>10 DEF v

LEMMA SyncGood ==
    ASSUME NEW w, Writing(w), Good(w), NEW v \in SyncOk(w) \cup SyncFail(w)
    PROVE  /\ Good(v) /\ Kin(w, v) /\ v.stream = w.stream
           /\ v \in SyncOk(w) => /\ v.disk[v.name] = v.data
                                 /\ Lossless => v.data = v.stream
<1>1. ASSUME v \in SyncOk(w)
      PROVE  /\ Good(v) /\ Kin(w, v) /\ v.stream = w.stream
             /\ v.disk[v.name] = v.data /\ (Lossless => v.data = v.stream)
  <2>1. PICK u \in FlushOk(w) : v = Persisted(u)
    BY <1>1 DEF SyncOk
  <2>2. Writing(u) /\ Len(u.buf) = 0 /\ Good(u) /\ Kin(w, u) /\ u.stream = w.stream
    BY FlushKeeps, FlushGood
  <2>3. Writing(v) /\ Good(v) /\ Kin(u, v) /\ v.stream = u.stream /\ v.disk[u.name] = u.data
    BY <2>1, <2>2, PersistedKeeps, PersistedGood
  <2>4. /\ w \in TrackLoggerState /\ u \in TrackLoggerState /\ v \in TrackLoggerState
        /\ u.open /\ u.name # NoName
    BY <2>2, <2>3 DEF Writing, Typed
  <2>5. Kin(w, v)
    BY <2>2, <2>3, <2>4, KinOn
  <2>6. v.data = u.data
    BY <2>1, <2>4 DEF Persisted, TrackLoggerState
  <2>7. Lossless => u.data = u.stream
    <3>1. u.data \in Seq(Unit) /\ u.buf \in Seq(Unit)
      BY <2>4 DEF TrackLoggerState
    <3>2. u.buf = <<>>
      BY <2>2, <3>1, EmptySeq
    <3>3. u.data \o u.buf = u.data
      BY <3>1, <3>2, ConcatEmptySeq
    <3> QED
      BY <2>2, <2>4, <3>3 DEF Writing, Intact, OnFile, Lossless
  <2>8. v.name = u.name
    BY <2>3 DEF Kin
  <2> QED
    BY <2>2, <2>3, <2>5, <2>6, <2>7, <2>8
<1>2. v \in SyncFail(w) => v \in FlushOk(w) \cup FlushFail(w)
  BY DEF SyncFail
<1> QED
  BY <1>1, <1>2, FlushGood

LEMMA CloseGood ==
    ASSUME NEW w, Writing(w), Good(w), NEW v \in Close(w)
    PROVE  Good(v) /\ Kin(w, v) /\ v.stream = w.stream /\ ~ v.open
<1>1. ASSUME NEW u, Writing(u), Good(u), Kin(w, u), u.stream = w.stream,
             v = Closed(u)
      PROVE  Good(v) /\ Kin(w, v) /\ v.stream = w.stream /\ ~ v.open
  <2>1. u \in TrackLoggerState /\ w \in TrackLoggerState
    BY <1>1 DEF Writing, Typed
  <2>2. /\ v.ring = u.ring /\ v.head = u.head /\ v.count = u.count /\ v.serial = u.serial
        /\ v.name = u.name /\ v.files = u.files /\ v.unsynced = u.unsynced
        /\ v.stream = u.stream /\ v.disk = u.disk /\ ~ v.open
    BY <1>1, <2>1 DEF Closed, TrackLoggerState
  <2>3. Kin(w, v)
    BY <1>1, <2>2 DEF Kin, Grows
  <2>4. Good(v)
    BY <1>1, <2>2 DEF Good, Ring, Blank, Ahead, FilesSound, Synced
  <2> QED
    BY <1>1, <2>2, <2>3, <2>4
<1>2. w \in TrackLoggerState
  BY DEF Writing, Typed
<1>3. CASE v = Closed(Persisted(w))
  <2>1. LET u == Persisted(w)
        IN  Writing(u) /\ Good(u) /\ Kin(w, u) /\ u.stream = w.stream
    BY PersistedKeeps, PersistedGood
  <2> QED
    BY <1>1, <1>3, <2>1
<1>4. CASE v = Closed(w)
  BY <1>1, <1>2, <1>4, KinItself
<1> QED
  BY <1>3, <1>4 DEF Close

LEMMA StrIsString ==
    ASSUME NEW k \in Kinds, NEW n \in Nat
    PROVE  IsString(Str(k, n))
BY StrType, StrLenAssumption DEF IsString

\* A string that may come next, and is no point that counts as synced.
MayWrite(w, k, n) ==
    /\ WellFormed(w.stream \o Str(k, n))
    /\ k = "point" => n > w.serial - w.unsynced

LEMMA BufferedGood ==
    ASSUME NEW w, Writing(w), Good(w), NEW k \in Kinds, NEW n \in Nat,
           Fits(w, Str(k, n)), MayWrite(w, k, n)
    PROVE  LET v == Buffered(w, Str(k, n))
           IN  Good(v) /\ Kin(w, v) /\ v.stream = w.stream \o Str(k, n)
<1> DEFINE s == Str(k, n)
           v == Buffered(w, s)
<1>1. w \in TrackLoggerState /\ w.open /\ w.name # NoName
  BY DEF Writing, Typed
<1>2. /\ w.serial \in Nat /\ w.unsynced \in Nat /\ w.stream \in Seq(Unit)
      /\ \A m \in Names : w.disk[m] \in Seq(Unit)
  BY <1>1 DEF TrackLoggerState
<1>3. /\ v.ring = w.ring /\ v.head = w.head /\ v.count = w.count /\ v.serial = w.serial
      /\ v.name = w.name /\ v.files = w.files /\ v.unsynced = w.unsynced
      /\ v.disk = w.disk /\ v.data = w.data /\ v.open = w.open
      /\ v.stream = w.stream \o s
  BY <1>1 DEF Buffered, TrackLoggerState
<1> HIDE DEF v
<1>4. Kin(w, v)
  BY <1>2, <1>3, ExtendsItself DEF Kin, Grows
<1>5. Ring(v) /\ Blank(v) /\ Ahead(v)
  BY <1>3 DEF Good, Ring, Blank, Ahead
<1>6. ASSUME Lossless
      PROVE  /\ \A m \in Names : WellFormed(v.disk[m])
             /\ WellFormed(v.stream) /\ Synced(v)
  <2>1. (\A m \in Names : WellFormed(w.disk[m])) /\ Synced(w)
    BY <1>1, <1>6 DEF Good, FilesSound
  <2>2. ASSUME NEW p \in PointsIn(v.stream), p <= v.serial - v.unsynced
        PROVE  p \in PointsIn(v.disk[v.name])
    <3>1. p \in PointsIn(w.stream) \/ (k = "point" /\ p = n)
      BY <1>2, <1>3, PointsWithStr
    <3>2. p <= w.serial - w.unsynced /\ ~ (k = "point" /\ p = n)
      BY <1>2, <1>3, <2>2 DEF MayWrite
    <3> QED
      BY <1>3, <2>1, <3>1, <3>2 DEF Synced
  <2>3. Synced(v)
    BY <2>2 DEF Synced
  <2> QED
    BY <1>3, <2>1, <2>3 DEF MayWrite
<1>7. Good(v)
  BY <1>5, <1>6 DEF Good, FilesSound
<1> QED
  BY <1>3, <1>4, <1>7 DEF v

LEMMA WriteGood ==
    ASSUME NEW w, Writing(w), Good(w), NEW k \in Kinds, NEW n \in Nat, MayWrite(w, k, n)
    PROVE  /\ \A v \in WriteOk(w, Str(k, n)) :
                 Good(v) /\ Kin(w, v) /\ v.stream = w.stream \o Str(k, n)
           /\ \A v \in WriteFail(w, Str(k, n)) :
                 Good(v) /\ Kin(w, v) /\ v.stream = w.stream
<1> DEFINE s == Str(k, n)
<1>1. WriteFail(w, s) \subseteq FlushFail(w)
  BY DEF WriteFail
<1>2. ASSUME NEW v \in WriteOk(w, s)
      PROVE  Good(v) /\ Kin(w, v) /\ v.stream = w.stream \o s
  <2>1. CASE Fits(w, s)
    <3>1. v = Buffered(w, s)
      BY <2>1 DEF WriteOk
    <3> QED
      BY <2>1, <3>1, BufferedGood
  <2>2. CASE ~ Fits(w, s)
    <3>1. PICK u \in FlushOk(w) : v = Buffered(u, s)
      BY <2>2 DEF WriteOk
    <3>2. /\ Writing(u) /\ Len(u.buf) = 0
          /\ Good(u) /\ Kin(w, u) /\ u.stream = w.stream
      BY FlushKeeps, FlushGood
    <3>3. Fits(u, s)
      BY <3>2, StrIsString, StrLenAssumption DEF Fits, IsString
    <3>4. MayWrite(u, k, n)
      BY <3>2 DEF Kin, MayWrite
    <3>5. Good(v) /\ Kin(u, v) /\ v.stream = u.stream \o s /\ Writing(v)
      BY <3>1, <3>2, <3>3, <3>4, BufferedGood, BufferedKeeps, StrIsString
    <3>6. w \in TrackLoggerState /\ u \in TrackLoggerState /\ v \in TrackLoggerState
      BY <3>2, <3>5 DEF Writing, Typed
    <3> QED
      BY <3>2, <3>5, <3>6, KinOn
  <2> QED
    BY <2>1, <2>2
<1> QED
  BY <1>1, <1>2, FlushGood

\* The logger's own state, and what it counts of the outliers, are no part of this.
LEMMA GoodDepends ==
    ASSUME NEW w, NEW v, Good(w),
           v.ring = w.ring, v.head = w.head, v.count = w.count, v.serial = w.serial,
           v.name = w.name, v.files = w.files, v.unsynced = w.unsynced,
           v.disk = w.disk, v.stream = w.stream, v.data = w.data, v.open = w.open
    PROVE  Good(v)
BY DEF Good, Ring, Blank, Ahead, FilesSound, Synced

LEMMA StateGood ==
    ASSUME NEW w \in TrackLoggerState, Good(w), NEW st
    PROVE  LET v == [w EXCEPT !.state = st]
           IN  Good(v) /\ Kin(w, v) /\ v.stream = w.stream /\ v.open = w.open
<1> DEFINE v == [w EXCEPT !.state = st]
<1>1. /\ v.ring = w.ring /\ v.head = w.head /\ v.count = w.count /\ v.serial = w.serial
      /\ v.name = w.name /\ v.files = w.files /\ v.unsynced = w.unsynced
      /\ v.disk = w.disk /\ v.stream = w.stream /\ v.data = w.data /\ v.open = w.open
  BY DEF TrackLoggerState
<1> HIDE DEF v
<1>2. Good(v)
  BY <1>1, GoodDepends
<1>3. Kin(w, v)
  BY <1>1, KinItself DEF Kin, Grows
<1> QED
  BY <1>1, <1>2, <1>3 DEF v

LEMMA EnterErrorGood ==
    ASSUME NEW w, Writing(w), Good(w), NEW v \in EnterError(w)
    PROVE  Good(v) /\ Kin(w, v) /\ v.stream = w.stream /\ ~ v.open
<1>1. PICK u \in Close(w) : v = [u EXCEPT !.state = "ERROR"]
  BY DEF EnterError
<1>2. Good(u) /\ Kin(w, u) /\ u.stream = w.stream /\ ~ u.open /\ Resting(u)
  BY CloseGood, CloseRests
<1>3. u \in TrackLoggerState /\ w \in TrackLoggerState
  BY <1>2 DEF Resting, Writing, Typed
<1>4. Good(v) /\ Kin(u, v) /\ v.stream = u.stream /\ v.open = u.open
  BY <1>1, <1>2, <1>3, StateGood
<1>5. v \in TrackLoggerState
  BY <1>1, <1>3, <1>2, StateRests DEF Resting, Typed
<1> QED
  BY <1>2, <1>3, <1>4, <1>5, KinOn

----------------------------------------------------------------------------
(* Starting and stopping.                                                  *)

\* The stream of a file that is not finished: the points up to n - 1.
Track(w, n) == w.name # NoName => \E f \in 0..n : Body(w.stream, f, n)

LEMMA FinalizeGood ==
    ASSUME NEW w, Writing(w), Good(w), NEW n \in Nat, Track(w, n), NEW v \in Finalize(w)
    PROVE  Good(v) /\ Kin(w, v) /\ ~ v.open
<1> DEFINE footed == UNION { FlushOk(u) \cup FlushFail(u) : u \in WriteOk(w, Footer) }
<1>1. "footer" \in Kinds /\ 0 \in Nat /\ w.name # NoName /\ w.stream \in Seq(Unit)
      /\ w \in TrackLoggerState
  BY DEF Kinds, Writing, Typed, TrackLoggerState
<1>2. PICK f \in 0..n : Body(w.stream, f, n)
  BY <1>1 DEF Track
<1>3. MayWrite(w, "footer", 0)
  <2>1. f \in Nat /\ f <= n
    OBVIOUS
  <2>2. WellFormed(w.stream \o Footer)
    BY <1>1, <1>2, <2>1, FooterFollows
  <2> QED
    BY <2>2 DEF MayWrite, Footer
<1>4. /\ \A u \in WriteOk(w, Footer) \cup WriteFail(w, Footer) : Writing(u)
      /\ \A u \in WriteOk(w, Footer) \cup WriteFail(w, Footer) : Good(u) /\ Kin(w, u)
  BY <1>1, <1>3, WriteGood, WriteKeeps, StringsFit DEF Footer
<1>5. ASSUME NEW u \in footed
      PROVE  Writing(u) /\ Good(u) /\ Kin(w, u)
  <2>1. PICK x \in WriteOk(w, Footer) : u \in FlushOk(x) \cup FlushFail(x)
    OBVIOUS
  <2>2. Writing(x) /\ Good(x) /\ Kin(w, x)
    BY <1>4
  <2>3. Writing(u) /\ Good(u) /\ Kin(x, u)
    BY <2>1, <2>2, FlushKeeps, FlushGood
  <2>4. x \in TrackLoggerState /\ u \in TrackLoggerState
    BY <2>2, <2>3 DEF Writing, Typed
  <2> QED
    BY <1>1, <2>2, <2>3, <2>4, KinOn
<1> HIDE DEF footed
<1>6. PICK u \in WriteFail(w, Footer) \cup footed : v \in Close(u)
  BY DEF Finalize, footed
<1>7. Writing(u) /\ Good(u) /\ Kin(w, u)
  BY <1>4, <1>5
<1>8. Good(v) /\ Kin(u, v) /\ ~ v.open /\ Resting(v)
  BY <1>6, <1>7, CloseGood, CloseRests
<1>9. u \in TrackLoggerState /\ v \in TrackLoggerState
  BY <1>7, <1>8 DEF Writing, Resting, Typed
<1> QED
  BY <1>1, <1>7, <1>8, <1>9, KinOn

LEMMA AppendingGood ==
    ASSUME NEW w, Resting(w), Good(w), w.name # NoName
    PROVE  LET v == Appending(w)
           IN  /\ Good(v) /\ Grows(w, v) /\ v.stream = w.stream /\ v.name = w.name
               /\ v.count = w.count /\ v.serial = w.serial
               /\ v.data = v.disk[v.name]
<1> DEFINE v == Appending(w)
<1>1. w \in TrackLoggerState /\ ~ w.open
  BY DEF Resting, Typed
<1>2. w.name \in Names /\ \A n \in Names : w.disk[n] \in Seq(Unit)
  BY <1>1 DEF TrackLoggerState
<1>3. /\ v.ring = w.ring /\ v.head = w.head /\ v.count = w.count /\ v.serial = w.serial
      /\ v.name = w.name /\ v.files = w.files \cup {w.name} /\ v.unsynced = w.unsynced
      /\ v.disk = w.disk /\ v.stream = w.stream /\ v.data = w.disk[w.name] /\ v.open
  BY <1>1 DEF Appending, TrackLoggerState
<1> HIDE DEF v
<1>4. Ring(v) /\ FilesSound(v)
  BY <1>3 DEF Good, Ring, FilesSound, Synced
<1>5. Blank(v)
  BY <1>3 DEF Good, Blank
<1>6. Ahead(v) /\ Grows(w, v)
  BY <1>2, <1>3, ExtendsItself DEF Ahead, Grows
<1>7. Good(v)
  BY <1>4, <1>5, <1>6 DEF Good
<1> QED
  BY <1>3, <1>6, <1>7 DEF v

LEMMA ForgetGood ==
    ASSUME NEW w, Resting(w), Good(w)
    PROVE  LET v == Forget(w)
           IN  Good(v) /\ Grows(w, v) /\ v.count = w.count /\ v.serial = w.serial
<1> DEFINE v == Forget(w)
<1>1. w \in TrackLoggerState /\ ~ w.open
  BY DEF Resting, Typed
<1>2. \A n \in Names : w.disk[n] \in Seq(Unit)
  BY <1>1 DEF TrackLoggerState
<1>3. /\ v.ring = w.ring /\ v.head = w.head /\ v.count = w.count /\ v.serial = w.serial
      /\ v.name = NoName /\ v.files = w.files /\ v.disk = w.disk /\ ~ v.open
  BY <1>1 DEF Forget, TrackLoggerState
<1> HIDE DEF v
<1>4. Good(v)
  BY <1>3 DEF Good, Ring, Blank, Ahead, FilesSound
<1>5. Grows(w, v)
  BY <1>2, <1>3, ExtendsItself DEF Grows
<1> QED
  BY <1>3, <1>4, <1>5 DEF v

LEMMA ClearRamGood ==
    ASSUME NEW w \in TrackLoggerState, Good(w)
    PROVE  LET v == ClearRam(w)
           IN  /\ Good(v) /\ Grows(w, v) /\ v.serial = w.serial /\ v.name = w.name
               /\ v.stream = w.stream /\ v.unsynced = w.unsynced
               /\ v.data = w.data /\ v.disk = w.disk
<1> DEFINE v == ClearRam(w)
<1>1. \A n \in Names : w.disk[n] \in Seq(Unit)
  BY DEF TrackLoggerState
<1>2. /\ v.count = 0 /\ v.serial = w.serial
      /\ v.name = w.name /\ v.files = w.files /\ v.unsynced = w.unsynced
      /\ v.disk = w.disk /\ v.stream = w.stream /\ v.data = w.data /\ v.open = w.open
  BY DEF ClearRam, TrackLoggerState
<1> HIDE DEF v
<1>3. Ring(v)
  BY <1>2 DEF Ring
<1>4. Good(v)
  BY <1>2, <1>3 DEF Good, Blank, Ahead, FilesSound, Synced
<1>5. Grows(w, v)
  BY <1>1, <1>2, ExtendsItself DEF Grows
<1> QED
  BY <1>2, <1>4, <1>5 DEF v

\* While recording, either the next sync is still to come due or the file was
\* just opened again and the card has all that FatFs has.
Timely(w) ==
    w.open => w.unsynced < LOGGER_SYNC_POINTS \/ w.data = w.disk[w.name]

Full(w) == Sound(w) /\ Good(w) /\ Track(w, w.serial + 1) /\ Timely(w)

LEMMA FullTyped ==
    ASSUME NEW w, Full(w)
    PROVE  /\ w \in TrackLoggerState /\ w.serial \in Nat /\ w.count \in Nat
           /\ \A n \in Names : w.disk[n] \in Seq(Unit)
<1>1. w \in TrackLoggerState
  BY DEF Full, Sound, Writing, Resting, Typed
<1> QED
  BY <1>1, TrackLoggerAssumption, SMTT(30) DEF TrackLoggerState

LEMMA StopGood ==
    ASSUME NEW w, Full(w), NEW c \in BOOLEAN, NEW v \in StopImpl(w, c)
    PROVE  /\ Full(v) /\ v.state = "IDLE" /\ v.name = NoName
           /\ Grows(w, v) /\ (~ c => v.count = w.count)
<1> DEFINE failed == w.state = "ERROR" /\ w.name # NoName
           reopened == (IF failed THEN {Appending(w)} ELSE {w})
                           \cup (IF failed /\ "append" \in Faults THEN {w} ELSE {})
           closed == UNION { IF u.state = "RECORDING" THEN Finalize(u) ELSE {u} :
                               u \in reopened }
           idle == { [Forget(u) EXCEPT !.state = "IDLE"] : u \in closed }
<1>1. /\ w \in TrackLoggerState /\ w.serial \in Nat /\ Sound(w) /\ Good(w)
      /\ Track(w, w.serial + 1)
  BY FullTyped DEF Full
<1>2. ASSUME NEW u \in reopened
      PROVE  /\ Good(u) /\ Grows(w, u) /\ u.count = w.count /\ Track(u, w.serial + 1)
             /\ \/ u.state = "RECORDING" /\ Writing(u)
                \/ u.state # "RECORDING" /\ Resting(u)
  <2>1. ASSUME failed, u = Appending(w)
        PROVE  /\ Good(u) /\ Grows(w, u) /\ u.count = w.count
               /\ u.state = "RECORDING" /\ Writing(u)
               /\ u.stream = w.stream /\ u.name = w.name
    BY <1>1, <2>1, AppendingWrites, AppendingGood DEF Sound
  <2>2. ASSUME u = w
        PROVE  /\ Grows(w, u)
               /\ \/ u.state = "RECORDING" /\ Writing(u)
                  \/ u.state # "RECORDING" /\ Resting(u)
    BY <1>1, <2>2, KinItself DEF Sound, Kin
  <2> QED
    BY <1>1, <2>1, <2>2 DEF Track
<1> HIDE DEF reopened
<1>3. ASSUME NEW u \in closed
      PROVE  Good(u) /\ Grows(w, u) /\ u.count = w.count /\ Resting(u)
  <2>1. PICK x \in reopened : u \in (IF x.state = "RECORDING" THEN Finalize(x) ELSE {x})
    OBVIOUS
  <2>2. CASE x.state = "RECORDING"
    <3>1. Writing(x) /\ Good(x) /\ Grows(w, x) /\ x.count = w.count /\ Track(x, w.serial + 1)
      BY <1>2, <2>2
    <3>2. u \in Finalize(x) /\ w.serial + 1 \in Nat
      BY <1>1, <2>1, <2>2
    <3>3. Good(u) /\ Kin(x, u) /\ Resting(u)
      BY <3>1, <3>2, FinalizeGood, FinalizeRests
    <3>4. x \in TrackLoggerState /\ u \in TrackLoggerState
      BY <3>1, <3>3 DEF Writing, Resting, Typed
    <3> QED
      BY <1>1, <3>1, <3>3, <3>4, GrowsOn DEF Kin
  <2>3. CASE x.state # "RECORDING"
    BY <1>2, <2>1, <2>3
  <2> QED
    BY <2>2, <2>3
<1> HIDE DEF closed
<1>4. ASSUME NEW x \in idle
      PROVE  Good(x) /\ Grows(w, x) /\ x.count = w.count /\ x \in TrackLoggerState
  <2>1. PICK u \in closed : x = [Forget(u) EXCEPT !.state = "IDLE"]
    OBVIOUS
  <2>2. /\ Good(u) /\ Grows(w, u) /\ u.count = w.count /\ Resting(u)
        /\ Resting(Forget(u)) /\ Good(Forget(u)) /\ Grows(u, Forget(u))
        /\ Forget(u).count = u.count
    BY <1>3, ForgetGood, ForgetRests
  <2>3. u \in TrackLoggerState /\ Forget(u) \in TrackLoggerState
    BY <2>2 DEF Resting, Typed
  <2>4. Grows(w, Forget(u))
    BY <1>1, <2>2, <2>3, GrowsOn
  <2>5. Good(x) /\ Kin(Forget(u), x) /\ x \in TrackLoggerState
    BY <2>1, <2>2, <2>3, StateGood, StateRests DEF Resting, Typed
  <2>6. Grows(w, x) /\ x.count = w.count
    BY <1>1, <2>2, <2>3, <2>4, <2>5, GrowsOn DEF Kin
  <2> QED
    BY <2>5, <2>6
<1> HIDE DEF idle
<1>5. StopImpl(w, c) = IF c THEN { ClearRam(u) : u \in idle } ELSE idle
  BY DEF StopImpl, idle, closed, reopened
<1>6. v.state = "IDLE" /\ v.name = NoName /\ Resting(v)
  BY <1>1, StopRests
<1>7. Good(v) /\ Grows(w, v) /\ (~ c => v.count = w.count)
  <2>1. CASE c
    <3>1. PICK u \in idle : v = ClearRam(u)
      BY <1>5, <2>1
    <3>2. Good(u) /\ Grows(w, u) /\ u \in TrackLoggerState
      BY <1>4
    <3>3. Good(v) /\ Grows(u, v) /\ v \in TrackLoggerState
      BY <1>6, <3>1, <3>2, ClearRamGood DEF Resting, Typed
    <3> QED
      BY <1>1, <2>1, <3>2, <3>3, GrowsOn
  <2>2. CASE ~ c
    BY <1>4, <1>5, <2>2
  <2> QED
    BY <2>1, <2>2
<1>8. Full(v)
  BY <1>6, <1>7 DEF Full, Sound, Track, Timely, Resting
<1> QED
  BY <1>6, <1>7, <1>8

LEMMA CreatedGood ==
    ASSUME NEW w, Resting(w), Good(w), NEW n \in Names, NEW keepRam \in BOOLEAN
    PROVE  LET v == Created(w, n, keepRam)
           IN  /\ Good(v) /\ Track(v, v.serial + 1) /\ Timely(v)
               /\ w.disk[n] = <<>> => Grows(w, v)
               /\ keepRam => v.count = w.count
<1> DEFINE u == [w EXCEPT !.name = n, !.open = TRUE, !.data = <<>>,
                          !.files = @ \cup {n}, !.disk[n] = <<>>,
                          !.buf = Header, !.stream = Header, !.first = TRUE,
                          !.unsynced = 0, !.outliers = 0, !.state = "RECORDING"]
           v == Created(w, n, keepRam)
<1>1. /\ w \in TrackLoggerState /\ n # NoName /\ w.serial \in Nat
      /\ \A m \in Names : w.disk[m] \in Seq(Unit)
  BY NamesAreNumbers DEF Resting, Typed, TrackLoggerState
<1>2. Writing(Created(w, n, TRUE)) /\ Created(w, n, TRUE) = u
  BY CreatedWrites DEF Created
<1>3. /\ u.ring = w.ring /\ u.head = w.head /\ u.count = w.count /\ u.serial = w.serial
      /\ u.name = n /\ u.files = w.files \cup {n} /\ u.unsynced = 0
      /\ u.stream = Header /\ u.data = <<>> /\ u.open
      /\ u.disk = [w.disk EXCEPT ![n] = <<>>]
  BY <1>1 DEF TrackLoggerState
<1>4. /\ u.disk[n] = <<>>
      /\ \A m \in Names : m # n => u.disk[m] = w.disk[m]
  BY <1>1, <1>3 DEF TrackLoggerState
<1> HIDE DEF u
<1>5. u \in TrackLoggerState
  BY <1>2 DEF Writing, Typed
<1>6. Ring(u)
  BY <1>3 DEF Good, Ring
<1>7. Blank(u)
  BY <1>3, <1>4 DEF Good, Blank
<1>8. <<>> \in Seq(Unit)
  BY EmptySeq
<1>9. Ahead(u)
  BY <1>3, <1>4, <1>8, ExtendsItself DEF Ahead
<1>10. PointsIn(Header) = {}
  <2>1. Placed(Header, 0, 0)
    BY HeaderBody DEF Body
  <2>2. \A j \in 1..Len(Header) : Header[j].kind # "point"
    BY <2>1 DEF Placed
  <2> QED
    BY <2>2, PointsAre
<1>11. FilesSound(u)
  <2>1. ASSUME Lossless
        PROVE  \A m \in Names : WellFormed(u.disk[m])
    BY <1>4, <2>1, EmptyWellFormed DEF Good, FilesSound
  <2>2. Synced(u)
    BY <1>3, <1>10 DEF Synced
  <2> QED
    BY <1>3, <2>1, <2>2, HeaderWellFormed DEF FilesSound
<1>12. Good(u)
  BY <1>6, <1>7, <1>9, <1>11 DEF Good
<1>13. w.disk[n] = <<>> => Grows(w, u)
  BY <1>1, <1>4, ExtendsItself DEF Grows
<1>14. v = IF keepRam THEN u ELSE ClearRam(u)
  BY DEF Created, u
<1> HIDE DEF v
<1>15. /\ Good(v) /\ v.serial = w.serial /\ v.name = n /\ v.stream = Header
       /\ v.unsynced = 0 /\ v.disk = u.disk /\ (keepRam => v.count = w.count)
  BY <1>3, <1>5, <1>12, <1>14, ClearRamGood
<1>16. w.disk[n] = <<>> => Grows(w, v)
  BY <1>13, <1>15 DEF Grows
<1>17. Track(v, v.serial + 1)
  <2>1. w.serial + 1 \in Nat /\ w.serial + 1 \in 0..w.serial + 1
    BY <1>1
  <2>2. Body(Header, w.serial + 1, w.serial + 1)
    BY <2>1, HeaderBody
  <2> QED
    BY <1>15, <2>1, <2>2 DEF Track
<1>18. Timely(v)
  BY <1>15, TrackLoggerAssumption DEF Timely
<1> QED
  BY <1>15, <1>16, <1>17, <1>18 DEF v

\* A card on which no existing file hides from the probe for a free name.
Probing == "probe" \notin Faults

LEMMA NewFileGood ==
    ASSUME NEW w, Resting(w), Good(w), Track(w, w.serial + 1),
           w.state \in {"IDLE", "ERROR"}, w.state = "IDLE" => w.name = NoName,
           NEW id \in TrackIds \cup {NoName}, NEW keepRam \in BOOLEAN,
           NEW v \in NewFile(w, id, keepRam)
    PROVE  Full(v) /\ (Probing => Grows(w, v)) /\ (keepRam => v.count = w.count)
<1>1. Sound(v) /\ w \in TrackLoggerState /\ ~ w.open
  BY NewFileSound DEF Resting, Typed
<1>2. CASE v = w
  BY <1>1, <1>2, KinItself DEF Full, Timely, Kin
<1>3. CASE v = [w EXCEPT !.state = "ERROR"]
  <2>1. Good(v) /\ Kin(w, v) /\ v.stream = w.stream /\ v.open = w.open
    BY <1>1, <1>3, StateGood
  <2> QED
    BY <1>1, <2>1 DEF Full, Track, Timely, Kin
<1>4. ASSUME id # NoName, NEW n \in FreeNames(w, id), v = Created(w, n, keepRam)
      PROVE  Full(v) /\ (Probing => Grows(w, v)) /\ (keepRam => v.count = w.count)
  <2>1. n \in Names /\ (Probing => n \notin w.files)
    BY <1>4 DEF FreeNames, Names, Probing
  <2>2. Probing => w.disk[n] = <<>>
    BY <2>1 DEF Good, Blank
  <2> QED
    BY <1>1, <1>4, <2>1, <2>2, CreatedGood DEF Full
<1> QED
  BY <1>2, <1>3, <1>4 DEF NewFile

LEMMA StartGood ==
    ASSUME NEW w, Full(w), w.state # "RECORDING",
           NEW id \in TrackIds \cup {NoName}, NEW keepRam \in BOOLEAN,
           NEW v \in StartImpl(w, id, keepRam)
    PROVE  /\ Full(v) /\ (Probing => Grows(w, v))
           /\ keepRam \/ w.name # NoName => v.count = w.count
<1>1. w \in TrackLoggerState /\ Sound(w) /\ Good(w) /\ Track(w, w.serial + 1)
  BY FullTyped DEF Full
<1>2. Resting(w) /\ w.state \in {"IDLE", "ERROR"} /\ (w.state = "IDLE" => w.name = NoName)
  BY <1>1 DEF Sound
<1>3. Sound(v)
  BY <1>1, StartSound
<1>4. CASE w.state = "ERROR" /\ w.name # NoName
  <2>1. CASE v = Appending(w)
    <3>1. /\ Good(v) /\ Grows(w, v) /\ v.stream = w.stream /\ v.name = w.name
          /\ v.count = w.count /\ v.serial = w.serial /\ v.data = v.disk[v.name]
      BY <1>1, <1>2, <1>4, <2>1, AppendingGood
    <3>2. Track(v, v.serial + 1) /\ Timely(v)
      BY <1>1, <3>1 DEF Track, Timely
    <3> QED
      BY <1>3, <3>1, <3>2 DEF Full
  <2>2. CASE v \in NewFile(Forget(w), id, TRUE)
    <3> DEFINE u == Forget(w)
    <3>1. /\ Resting(u) /\ Good(u) /\ u.name = NoName /\ u.state = "ERROR"
          /\ Grows(w, u) /\ u.count = w.count
      BY <1>1, <1>2, <1>4, ForgetRests, ForgetGood
    <3> HIDE DEF u
    <3>2. Track(u, u.serial + 1)
      BY <3>1 DEF Track
    <3>3. Full(v) /\ (Probing => Grows(u, v)) /\ v.count = u.count
      BY <2>2, <3>1, <3>2, NewFileGood DEF u
    <3>4. u \in TrackLoggerState /\ v \in TrackLoggerState
      BY <3>1, <3>3, FullTyped DEF Resting, Typed
    <3> QED
      BY <1>1, <3>1, <3>3, <3>4, GrowsOn
  <2> QED
    BY <1>4, <2>1, <2>2 DEF StartImpl
<1>5. CASE ~ (w.state = "ERROR" /\ w.name # NoName)
  <2>1. v \in NewFile(w, id, keepRam)
    BY <1>5 DEF StartImpl
  <2>2. w.name = NoName
    BY <1>2, <1>5
  <2> QED
    BY <1>1, <1>2, <2>1, <2>2, NewFileGood
<1> QED
  BY <1>4, <1>5

----------------------------------------------------------------------------
(* A point.                                                                *)

Onward(w, v) == Grows(w, v) /\ v.count >= w.count

LEMMA OnwardOn ==
    ASSUME NEW w \in TrackLoggerState, NEW u \in TrackLoggerState,
           NEW v \in TrackLoggerState, Onward(w, u), Onward(u, v)
    PROVE  Onward(w, v)
<1>1. w.count \in Int /\ u.count \in Int /\ v.count \in Int
  BY DEF TrackLoggerState
<1> QED
  BY <1>1, GrowsOn DEF Onward

LEMMA KinOnward ==
    ASSUME NEW w \in TrackLoggerState, NEW v, Kin(w, v)
    PROVE  Onward(w, v)
<1>1. w.count \in Int
  BY DEF TrackLoggerState
<1> QED
  BY <1>1 DEF Kin, Onward

LEMMA HeadGoesOn ==
    ASSUME NEW h \in 0..(TRACK_RAM_MAX_POINTS - 1)
    PROVE  (h + 1) % TRACK_RAM_MAX_POINTS = IF h + 1 = TRACK_RAM_MAX_POINTS THEN 0 ELSE h + 1
<1>1. /\ TRACK_RAM_MAX_POINTS \in Nat \ {0} /\ h + 1 \in 0..TRACK_RAM_MAX_POINTS
  BY TrackLoggerAssumption
<1>2. \A m \in Nat \ {0} : \A x \in 0..m : x % m = IF x = m THEN 0 ELSE x
  OBVIOUS
<1> QED
  BY <1>1, <1>2

LEMMA SlotsShift ==
    ASSUME NEW h \in 0..(TRACK_RAM_MAX_POINTS - 1),
           NEW i \in 1..(TRACK_RAM_MAX_POINTS - 1)
    PROVE  /\ SlotBefore(IF h + 1 = TRACK_RAM_MAX_POINTS THEN 0 ELSE h + 1, i + 1)
                = SlotBefore(h, i)
           /\ SlotBefore(h, i) \in 0..(TRACK_RAM_MAX_POINTS - 1)
           /\ SlotBefore(h, i) # h
<1>1. TRACK_RAM_MAX_POINTS \in Nat \ {0}
  BY TrackLoggerAssumption
<1>2. CASE h + 1 = TRACK_RAM_MAX_POINTS
  BY <1>1, <1>2 DEF SlotBefore
<1>3. CASE h + 1 # TRACK_RAM_MAX_POINTS
  BY <1>1, <1>3 DEF SlotBefore
<1> QED
  BY <1>2, <1>3

\* The number just given takes the slot at the head; those before it stay, the
\* oldest excepted when the ring is full.
LEMMA DrawnRing ==
    ASSUME NEW w \in TrackLoggerState, Ring(w)
    PROVE  Ring(Drawn(w)) /\ Drawn(w).count >= w.count
<1> DEFINE m == TRACK_RAM_MAX_POINTS
           v == Drawn(w)
<1>1. /\ w.head \in 0..(m - 1) /\ w.count \in 0..m /\ w.serial \in Nat
      /\ w.ring \in [0..(m - 1) -> Nat] /\ m \in Nat \ {0}
  BY TrackLoggerAssumption DEF TrackLoggerState
<1>2. /\ v.ring = [w.ring EXCEPT ![w.head] = w.serial + 1]
      /\ v.count = (IF w.count < m THEN w.count + 1 ELSE w.count)
      /\ v.serial = w.serial + 1
  BY DEF Drawn, TrackLoggerState
<1>3. v.head = IF w.head + 1 = m THEN 0 ELSE w.head + 1
  <2>1. v.head = (w.head + 1) % m
    BY DEF Drawn, TrackLoggerState
  <2> QED
    BY <1>1, <2>1, HeadGoesOn
<1> HIDE DEF v
<1>4. v.count \in 0..m /\ v.count <= w.count + 1 /\ v.count >= w.count
  BY <1>1, <1>2
<1>5. ASSUME NEW j \in 1..v.count
      PROVE  v.ring[SlotBefore(v.head, j)] = v.serial - j + 1
  <2>1. CASE j = 1
    <3>1. SlotBefore(v.head, j) = w.head
      BY <1>1, <1>3, <2>1 DEF SlotBefore
    <3>2. v.ring[w.head] = w.serial + 1
      BY <1>1, <1>2
    <3> QED
      BY <1>1, <1>2, <2>1, <3>1, <3>2
  <2>2. CASE j # 1
    <3>1. PICK i \in 1..(m - 1) : j = i + 1 /\ i \in 1..w.count
      BY <1>1, <1>4, <2>2
    <3>2. /\ SlotBefore(v.head, j) = SlotBefore(w.head, i)
          /\ SlotBefore(w.head, i) \in 0..(m - 1) /\ SlotBefore(w.head, i) # w.head
      <4>1. SlotBefore(v.head, i + 1) = SlotBefore(w.head, i)
        BY <1>1, <1>3, SlotsShift, ZenonT(40)
      <4>2. SlotBefore(w.head, i) \in 0..(m - 1) /\ SlotBefore(w.head, i) # w.head
        BY <1>1, <3>1, SlotsShift
      <4> QED
        BY <3>1, <4>1, <4>2
    <3>3. w.ring[SlotBefore(w.head, i)] = w.serial - i + 1
      BY <3>1 DEF Ring
    <3>4. v.ring[SlotBefore(w.head, i)] = w.ring[SlotBefore(w.head, i)]
      BY <1>1, <1>2, <3>2
    <3>5. v.serial - j + 1 = w.serial - i + 1
      <4>1. \A x \in Nat, y \in 1..(m - 1) : (x + 1) - (y + 1) + 1 = x - y + 1
        BY <1>1
      <4> QED
        BY <1>1, <1>2, <3>1, <4>1
    <3> QED
      BY <3>2, <3>3, <3>4, <3>5, Zenon
  <2> QED
    BY <2>1, <2>2
<1> QED
  BY <1>4, <1>5 DEF Ring, v

LEMMA DrawnGood ==
    ASSUME NEW w, Writing(w), Good(w)
    PROVE  LET v == [Drawn(w) EXCEPT !.first = FALSE, !.unsynced = @ + 1]
           IN  /\ Good(v) /\ Onward(w, v) /\ v.serial = w.serial + 1
               /\ v.stream = w.stream /\ v.name = w.name
<1> DEFINE v == [Drawn(w) EXCEPT !.first = FALSE, !.unsynced = @ + 1]
<1>1. w \in TrackLoggerState /\ Ring(w)
  BY DEF Writing, Typed, Good
<1>2. /\ w.serial \in Nat /\ w.unsynced \in Nat
      /\ \A n \in Names : w.disk[n] \in Seq(Unit)
  BY <1>1 DEF TrackLoggerState
<1>3. /\ v.ring = Drawn(w).ring /\ v.head = Drawn(w).head /\ v.count = Drawn(w).count
      /\ v.serial = Drawn(w).serial
  BY <1>1 DEF Drawn, TrackLoggerState
<1>4. /\ v.serial = w.serial + 1 /\ v.unsynced = w.unsynced + 1
      /\ v.name = w.name /\ v.files = w.files /\ v.disk = w.disk
      /\ v.stream = w.stream /\ v.data = w.data /\ v.open = w.open
  BY <1>1 DEF Drawn, TrackLoggerState
<1>5. Ring(v) /\ v.count >= w.count
  BY <1>1, <1>3, DrawnRing DEF Ring
<1> HIDE DEF v
<1>6. Blank(v) /\ Ahead(v)
  BY <1>4 DEF Good, Blank, Ahead
<1>7. v.serial - v.unsynced = w.serial - w.unsynced
  BY <1>2, <1>4
<1>8. FilesSound(v)
  BY <1>4, <1>7 DEF Good, FilesSound, Synced
<1>9. Grows(w, v)
  BY <1>2, <1>4, ExtendsItself DEF Grows
<1>10. Good(v) /\ Onward(w, v)
  BY <1>5, <1>6, <1>8, <1>9 DEF Good, Onward
<1> QED
  BY <1>4, <1>10 DEF v

LEMMA SyncIfDueGood ==
    ASSUME NEW w, Writing(w), Good(w), Track(w, w.serial + 1), w.state = "RECORDING",
           NEW due \in BOOLEAN, NEW v \in SyncIfDue(w, due)
    PROVE  Full(v) /\ Onward(w, v)
<1>1. Sound(v)
  BY SyncIfDueSound
<1>2. w \in TrackLoggerState /\ w.name # NoName
  BY DEF Writing, Typed
<1>3. CASE v = w /\ w.unsynced < LOGGER_SYNC_POINTS
  BY <1>1, <1>2, <1>3, KinItself, KinOnward DEF Full, Timely
<1>4. ASSUME NEW u \in SyncOk(w), v = [u EXCEPT !.unsynced = 0]
      PROVE  Full(v) /\ Onward(w, v)
  <2>1. /\ Writing(u) /\ Good(u) /\ Kin(w, u) /\ u.stream = w.stream
        /\ u.disk[u.name] = u.data /\ (Lossless => u.data = u.stream)
    BY SyncKeeps, SyncGood
  <2>2. u \in TrackLoggerState
    BY <2>1 DEF Writing, Typed
  <2>3. /\ v.ring = u.ring /\ v.head = u.head /\ v.count = u.count /\ v.serial = u.serial
        /\ v.name = u.name /\ v.files = u.files /\ v.unsynced = 0
        /\ v.disk = u.disk /\ v.stream = u.stream /\ v.data = u.data /\ v.open = u.open
    BY <1>4, <2>2 DEF TrackLoggerState
  <2>4. Ring(v) /\ Blank(v) /\ Ahead(v)
    BY <2>1, <2>3 DEF Good, Ring, Blank, Ahead
  <2>5. FilesSound(v)
    BY <2>1, <2>3 DEF Good, FilesSound, Synced
  <2>6. Track(v, v.serial + 1)
    BY <2>1, <2>3 DEF Kin, Track
  <2>7. Timely(v)
    BY <2>3, TrackLoggerAssumption DEF Timely
  <2>8. Onward(w, v)
    BY <1>2, <2>1, <2>3, KinOnward DEF Onward, Grows
  <2> QED
    BY <1>1, <2>4, <2>5, <2>6, <2>7, <2>8 DEF Full, Good
<1>5. ASSUME NEW u \in SyncFail(w), v \in EnterError(u)
      PROVE  Full(v) /\ Onward(w, v)
  <2>1. Writing(u) /\ Good(u) /\ Kin(w, u) /\ u.stream = w.stream
    BY SyncKeeps, SyncGood
  <2>2. Good(v) /\ Kin(u, v) /\ v.stream = u.stream /\ ~ v.open
    BY <1>5, <2>1, EnterErrorGood
  <2>3. u \in TrackLoggerState /\ v \in TrackLoggerState
    BY <1>1, <2>1 DEF Writing, Resting, Sound, Typed
  <2>4. Kin(w, v)
    BY <1>2, <2>1, <2>2, <2>3, KinOn
  <2>5. Track(v, v.serial + 1) /\ Timely(v)
    BY <2>1, <2>2, <2>4 DEF Kin, Track, Timely
  <2> QED
    BY <1>1, <1>2, <2>2, <2>4, <2>5, KinOnward DEF Full
<1>6. LOGGER_SYNC_POINTS \in Nat /\ w.unsynced \in Nat
  BY <1>2, TrackLoggerAssumption DEF TrackLoggerState
<1>7. CASE w.unsynced >= LOGGER_SYNC_POINTS \/ due
  BY <1>4, <1>5, <1>7 DEF SyncIfDue
<1>8. CASE ~ (w.unsynced >= LOGGER_SYNC_POINTS \/ due)
  BY <1>3, <1>6, <1>8 DEF SyncIfDue
<1> QED
  BY <1>7, <1>8

LEMMA UpToNext ==
    ASSUME NEW a \in Nat, NEW b \in Nat, a <= b
    PROVE  a \in 0..b + 1
OBVIOUS

LEMMA RecordGood ==
    ASSUME NEW w, Writing(w), Good(w), Track(w, w.serial + 1), w.state = "RECORDING",
           NEW due \in BOOLEAN, NEW v \in Record(w, due)
    PROVE  Full(v) /\ Onward(w, v)
<1> DEFINE n == w.serial + 1
           p == Point(n)
           accepted == { [Drawn(u) EXCEPT !.first = FALSE, !.unsynced = @ + 1] :
                           u \in WriteOk(w, p) }
           failed == UNION { EnterError(u) : u \in WriteFail(w, p) }
           synced == UNION { SyncIfDue(u, due) : u \in accepted }
<1>1. /\ w \in TrackLoggerState /\ w.name # NoName
      /\ n \in Nat /\ w.serial \in Nat /\ w.unsynced \in Nat /\ w.stream \in Seq(Unit)
      /\ n = w.serial + 1
  BY DEF Writing, Typed, TrackLoggerState
<1> HIDE DEF n
<1>2. PICK f \in 0..n : Body(w.stream, f, n)
  BY <1>1 DEF Track
<1>3. f \in Nat /\ f <= n /\ "point" \in Kinds
  BY <1>1 DEF Kinds
<1>4. Body(w.stream \o p, f, n + 1)
  BY <1>1, <1>2, <1>3, PointBody
<1>5. MayWrite(w, "point", n)
  <2>1. n > w.serial - w.unsynced
    BY <1>1
  <2> QED
    BY <1>4, <2>1 DEF MayWrite, Body, Point
<1>6. IsString(p) /\ p = Str("point", n)
  BY <1>1, StringsFit DEF Point
<1> HIDE DEF p
<1>7. /\ \A u \in WriteOk(w, p) :
            Writing(u) /\ u.state = "RECORDING" /\ Good(u) /\ Kin(w, u)
              /\ u.stream = w.stream \o p
      /\ \A u \in WriteFail(w, p) :
            Writing(u) /\ Good(u) /\ Kin(w, u) /\ u.stream = w.stream
  <2>1. \A u \in WriteOk(w, p) \cup WriteFail(w, p) : Writing(u) /\ u.state = w.state
    BY <1>6, WriteKeeps
  <2>2. /\ \A u \in WriteOk(w, p) :
              Good(u) /\ Kin(w, u) /\ u.stream = w.stream \o p
        /\ \A u \in WriteFail(w, p) :
              Good(u) /\ Kin(w, u) /\ u.stream = w.stream
    <3>1. /\ \A u \in WriteOk(w, Str("point", n)) :
                Good(u) /\ Kin(w, u) /\ u.stream = w.stream \o Str("point", n)
          /\ \A u \in WriteFail(w, Str("point", n)) :
                Good(u) /\ Kin(w, u) /\ u.stream = w.stream
      BY <1>1, <1>3, <1>5, WriteGood, ZenonT(40)
    <3> QED
      BY <1>6, <3>1, Zenon
  <2> QED
    BY <2>1, <2>2
<1>8. Sound(v)
  BY RecordSound
<1>9. v \in TrackLoggerState
  BY <1>8 DEF Sound, Writing, Resting, Typed
<1>10. CASE v \in failed
  <2>1. PICK u \in WriteFail(w, p) : v \in EnterError(u)
    BY <1>10
  <2>2. Writing(u) /\ Good(u) /\ Kin(w, u) /\ u.stream = w.stream
    BY <1>7
  <2>3. Good(v) /\ Kin(u, v) /\ v.stream = u.stream /\ ~ v.open
    BY <2>1, <2>2, EnterErrorGood
  <2>4. Kin(w, v)
    BY <1>1, <1>9, <2>2, <2>3, KinOn DEF Writing, Typed
  <2>5. Track(v, v.serial + 1) /\ Timely(v)
    BY <2>2, <2>3, <2>4 DEF Kin, Track, Timely
  <2> QED
    BY <1>1, <1>8, <2>3, <2>4, <2>5, KinOnward DEF Full
<1>11. CASE v \in synced
  <2>1. PICK x \in accepted : v \in SyncIfDue(x, due)
    BY <1>11
  <2>2. PICK u \in WriteOk(w, p) :
           x = [Drawn(u) EXCEPT !.first = FALSE, !.unsynced = @ + 1]
    OBVIOUS
  <2>3. /\ Writing(u) /\ u.state = "RECORDING" /\ Good(u) /\ Kin(w, u)
        /\ u.stream = w.stream \o p
    BY <1>7
  <2>4. /\ Good(x) /\ Onward(u, x) /\ x.serial = u.serial + 1
        /\ x.stream = u.stream /\ x.name = u.name
        /\ Writing(x) /\ x.state = "RECORDING"
    BY <2>2, <2>3, DrawnGood, DrawnKeeps
  <2>5. Track(x, x.serial + 1)
    <3>1. x.serial + 1 = n + 1 /\ x.stream = w.stream \o p
      BY <1>1, <2>3, <2>4 DEF Kin
    <3>2. f \in 0..n + 1
      BY <1>1, <1>3, UpToNext
    <3> QED
      BY <1>4, <3>1, <3>2 DEF Track
  <2>6. Full(v) /\ Onward(x, v)
    BY <2>1, <2>4, <2>5, SyncIfDueGood
  <2>7. u \in TrackLoggerState /\ x \in TrackLoggerState
    BY <2>3, <2>4 DEF Writing, Typed
  <2>8. Onward(w, u)
    BY <1>1, <2>3, KinOnward
  <2>9. Onward(w, x)
    BY <1>1, <2>4, <2>7, <2>8, OnwardOn
  <2> QED
    BY <1>1, <1>9, <2>6, <2>7, <2>9, OnwardOn
<1>12. Record(w, due) = failed \cup synced
  BY DEF Record, p, n
<1> QED
  BY <1>10, <1>11, <1>12

LEMMA OutliersGood ==
    ASSUME NEW w, Writing(w), Full(w), w.state = "RECORDING",
           NEW m \in 0..(LOGGER_OUTLIER_RESET_COUNT - 1)
    PROVE  LET v == [w EXCEPT !.outliers = m]
           IN  /\ Full(v) /\ Onward(w, v) /\ Writing(v) /\ v.state = "RECORDING"
<1> DEFINE v == [w EXCEPT !.outliers = m]
<1>1. w \in TrackLoggerState
  BY DEF Writing, Typed
<1>2. /\ v.ring = w.ring /\ v.head = w.head /\ v.count = w.count /\ v.serial = w.serial
      /\ v.name = w.name /\ v.files = w.files /\ v.unsynced = w.unsynced
      /\ v.disk = w.disk /\ v.stream = w.stream /\ v.data = w.data /\ v.open = w.open
  BY <1>1 DEF TrackLoggerState
<1>3. Writing(v) /\ v.state = "RECORDING"
  BY OutliersKeep
<1> HIDE DEF v
<1>4. Good(v)
  BY <1>2, GoodDepends DEF Full
<1>5. Track(v, v.serial + 1) /\ Timely(v)
  BY <1>2 DEF Full, Track, Timely
<1>6. Kin(w, v)
  BY <1>1, <1>2, KinItself DEF Kin, Grows
<1>7. Full(v) /\ Onward(w, v)
  BY <1>1, <1>3, <1>4, <1>5, <1>6, KinOnward DEF Full, Sound
<1> QED
  BY <1>3, <1>7 DEF v

LEMMA FilterGood ==
    ASSUME NEW w, Full(w), w.state = "RECORDING", NEW fix \in Fix, NEW v \in Filter(w, fix)
    PROVE  Full(v) /\ Onward(w, v)
<1> DEFINE jump == ~ w.first /\ fix.motion \in {"jump", "agreeing jump"}
           chain == IF fix.motion = "agreeing jump" /\ w.outliers # 0
                    THEN w.outliers + 1 ELSE 1
           rejected == jump /\ chain < LOGGER_OUTLIER_RESET_COUNT
           idle == ~ w.first /\ fix.motion = "near"
           kept == IF w.first THEN w ELSE [w EXCEPT !.outliers = 0]
<1>1. Writing(w) /\ w \in TrackLoggerState /\ fix.due \in BOOLEAN
  BY FullTyped DEF Full, Sound, Fix
<1>2. 0 \in 0..(LOGGER_OUTLIER_RESET_COUNT - 1) /\ w.outliers \in Nat
  BY <1>1, TrackLoggerAssumption DEF TrackLoggerState
<1>3. chain \in Nat
  <2>1. w.outliers + 1 \in Nat /\ 1 \in Nat
    BY <1>2
  <2> QED
    BY <2>1, Zenon
<1> HIDE DEF chain
<1>4. CASE rejected
  <2>1. chain \in 0..(LOGGER_OUTLIER_RESET_COUNT - 1)
    <3>1. chain < LOGGER_OUTLIER_RESET_COUNT
      BY <1>4, Zenon
    <3>2. LOGGER_OUTLIER_RESET_COUNT \in Nat
      BY TrackLoggerAssumption
    <3> QED
      BY <1>3, <3>1, <3>2
  <2>2. ~ idle
    BY <1>4
  <2>3. Filter(w, fix) = {[w EXCEPT !.outliers = chain]}
    BY <1>4, <2>2 DEF Filter, chain
  <2> QED
    BY <1>1, <2>1, <2>3, OutliersGood
<1>5. CASE idle
  <2>1. ~ rejected
    BY <1>5
  <2>2. Filter(w, fix) = {[w EXCEPT !.outliers = 0]}
    BY <1>5, <2>1 DEF Filter, chain
  <2> QED
    BY <1>1, <1>2, <2>2, OutliersGood
<1>6. CASE ~ rejected /\ ~ idle
  <2>1. Filter(w, fix) = Record(kept, fix.due)
    BY <1>6 DEF Filter, chain
  <2>2. Full(kept) /\ Onward(w, kept) /\ Writing(kept) /\ kept.state = "RECORDING"
    BY <1>1, <1>2, OutliersGood, KinItself, KinOnward
  <2> HIDE DEF kept
  <2>3. Full(v) /\ Onward(kept, v)
    BY <1>1, <2>1, <2>2, RecordGood DEF Full
  <2>4. kept \in TrackLoggerState /\ v \in TrackLoggerState
    BY <2>2, <2>3, FullTyped
  <2> QED
    BY <1>1, <2>2, <2>3, <2>4, OnwardOn
<1> QED
  BY <1>4, <1>5, <1>6

\* The change of day keeps the ring; a file that hides from the probe may be
\* created over.
LEMMA AddPointGood ==
    ASSUME NEW w, Full(w), w.state = "RECORDING", NEW fix \in Fix, NEW id \in TrackIds,
           NEW v \in AddPointTo(w, fix, id)
    PROVE  Full(v) /\ (Probing => Grows(w, v)) /\ v.count >= w.count
<1>1. w \in TrackLoggerState /\ w.count \in Nat
  BY FullTyped
<1>2. CASE ~ fix.newDay
  BY <1>2, FilterGood DEF AddPointTo, Onward
<1>3. CASE fix.newDay
  <2>1. PICK u \in Rollover(w, id) :
           v \in (IF u.state = "RECORDING" THEN Filter(u, fix) ELSE {u})
    BY <1>3 DEF AddPointTo
  <2>2. PICK x \in StopImpl(w, FALSE) : u \in StartImpl(x, id, TRUE)
    BY <2>1 DEF Rollover
  <2>3. Full(x) /\ x.state = "IDLE" /\ Grows(w, x) /\ x.count = w.count
    BY StopGood
  <2>4. Full(u) /\ (Probing => Grows(x, u)) /\ u.count = x.count
    BY <2>2, <2>3, StartGood
  <2>5. u \in TrackLoggerState /\ x \in TrackLoggerState
    BY <2>3, <2>4, FullTyped
  <2>6. Probing => Grows(w, u)
    BY <1>1, <2>3, <2>4, <2>5, GrowsOn
  <2>7. CASE u.state = "RECORDING"
    <3>1. Full(v) /\ Onward(u, v)
      BY <2>1, <2>4, <2>7, FilterGood
    <3>2. v \in TrackLoggerState
      BY <3>1, FullTyped
    <3>3. Probing => Grows(w, v)
      BY <1>1, <2>5, <2>6, <3>1, <3>2, GrowsOn DEF Onward
    <3> QED
      BY <2>3, <2>4, <3>1, <3>3 DEF Onward
  <2>8. CASE u.state # "RECORDING"
    BY <1>1, <2>1, <2>3, <2>4, <2>6, <2>8
  <2> QED
    BY <2>7, <2>8
<1> QED
  BY <1>2, <1>3

----------------------------------------------------------------------------
(* The specification.                                                      *)

LEMMA BootGood ==
    ASSUME NEW w \in TrackLoggerState, Good(w)
    PROVE  LET v == Boot(w.files, w.disk, w.serial)
           IN  Full(v) /\ Grows(w, v) /\ ~ v.open
<1> DEFINE v == Boot(w.files, w.disk, w.serial)
<1>1. /\ w.files \in SUBSET Names /\ w.disk \in [Names -> Seq(Unit)] /\ w.serial \in Nat
  BY DEF TrackLoggerState
<1>2. Sound(v)
  BY <1>1, BootSound
<1>3. /\ v.name = NoName /\ ~ v.open /\ v.count = 0
      /\ v.files = w.files /\ v.disk = w.disk
  BY DEF Boot
<1> HIDE DEF v
<1>4. Good(v)
  BY <1>3 DEF Good, Ring, Blank, Ahead, FilesSound
<1>5. Grows(w, v)
  BY <1>1, <1>3, ExtendsItself DEF Grows
<1>6. Full(v)
  BY <1>2, <1>3, <1>4 DEF Full, Track, Timely
<1> QED
  BY <1>3, <1>5, <1>6 DEF v

LEMMA InitFull == Init => Full(tl)
<1> SUFFICES ASSUME Init
             PROVE  Full(tl)
  OBVIOUS
<1>1. Sound(tl)
  BY InitSound
<1>2. /\ tl.name = NoName /\ ~ tl.open /\ tl.count = 0
      /\ \A n \in Names : tl.disk[n] = <<>>
  BY DEF Init, Boot
<1>3. Good(tl)
  BY <1>2, EmptyWellFormed DEF Good, Ring, Blank, Ahead, FilesSound
<1> QED
  BY <1>1, <1>2, <1>3 DEF Full, Track, Timely

\* What a step does to the files and to the ring.
Step ==
    /\ Probing => Grows(tl, tl')
    /\ tl.name # NoName /\ tl'.open => tl'.count >= tl.count

LEMMA NextFull == Full(tl) /\ [Next]_vars => Full(tl') /\ Step
<1> SUFFICES ASSUME Full(tl), [Next]_vars
             PROVE  Full(tl') /\ Step
  OBVIOUS
<1>1. tl \in TrackLoggerState /\ tl.count \in Nat /\ Sound(tl) /\ Good(tl)
  BY FullTyped DEF Full
<1>2. \A v : Full(v) /\ v.state = "IDLE" => ~ v.open
  BY DEF Full, Sound, Resting
<1>3. ASSUME NEW m \in Modes, SetMode(m)
      PROVE  Full(tl') /\ Step
  <2> DEFINE w == [tl EXCEPT !.mode = m]
  <2>1. w \in TrackLoggerState
    BY <1>1 DEF TrackLoggerState
  <2>2. /\ w.ring = tl.ring /\ w.head = tl.head /\ w.count = tl.count
        /\ w.serial = tl.serial /\ w.name = tl.name /\ w.files = tl.files
        /\ w.unsynced = tl.unsynced /\ w.disk = tl.disk /\ w.stream = tl.stream
        /\ w.data = tl.data /\ w.open = tl.open /\ w.buf = tl.buf
        /\ w.state = tl.state
    BY <1>1 DEF TrackLoggerState
  <2>3. tl' = w \/ tl' \in StopImpl(w, TRUE)
    BY <1>3 DEF SetMode
  <2> HIDE DEF w
  <2>4. Good(w)
    BY <1>1, <2>2, GoodDepends
  <2>5. Sound(w)
    <3>1. Intact(tl) => Intact(w)
      BY <2>2 DEF Intact, OnFile
    <3>2. (Writing(tl) => Writing(w)) /\ (Resting(tl) => Resting(w))
      BY <2>1, <2>2, <3>1 DEF Typed, Writing, Resting
    <3> QED
      BY <1>1, <2>2, <3>2 DEF Sound
  <2>6. Full(w)
    BY <2>2, <2>4, <2>5 DEF Full, Track, Timely
  <2>7. Kin(tl, w)
    BY <1>1, <2>2, KinItself DEF Kin, Grows
  <2>8. CASE tl' = w
    BY <1>1, <2>2, <2>6, <2>7, <2>8 DEF Kin, Step
  <2>9. CASE tl' \in StopImpl(w, TRUE)
    <3>1. Full(tl') /\ tl'.state = "IDLE" /\ Grows(w, tl')
      BY <2>6, <2>9, StopGood
    <3>2. tl' \in TrackLoggerState
      BY <3>1, FullTyped
    <3>3. Grows(tl, tl')
      BY <1>1, <2>1, <2>7, <3>1, <3>2, GrowsOn DEF Kin
    <3> QED
      BY <1>2, <3>1, <3>3 DEF Step
  <2> QED
    BY <2>3, <2>8, <2>9
<1>4. ASSUME NEW id \in TrackIds \cup {NoName}, Start(id)
      PROVE  Full(tl') /\ Step
  <2>1. tl.state # "RECORDING" /\ tl' \in StartImpl(tl, id, FALSE) /\ FALSE \in BOOLEAN
    BY <1>4 DEF Start
  <2>2. /\ Full(tl') /\ (Probing => Grows(tl, tl'))
        /\ tl.name # NoName => tl'.count = tl.count
    BY <2>1, StartGood
  <2> QED
    BY <1>1, <2>2 DEF Step
<1>5. ASSUME NEW fix \in Fix, NEW id \in TrackIds, AddPoint(fix, id)
      PROVE  Full(tl') /\ Step
  BY <1>5, AddPointGood DEF AddPoint, Step
<1>6. ASSUME NEW c \in BOOLEAN, tl' \in StopImpl(tl, c)
      PROVE  Full(tl') /\ Step
  BY <1>2, <1>6, StopGood DEF Step
<1>7. CASE Reset
  <2>1. PICK u \in (IF tl.open THEN Close(tl) ELSE {tl}) :
           tl' = Boot(u.files, u.disk, u.serial)
    BY <1>7 DEF Reset
  <2>2. Good(u) /\ Grows(tl, u) /\ u \in TrackLoggerState
    <3>1. CASE tl.open
      <4>1. Writing(tl) /\ u \in Close(tl)
        BY <1>1, <2>1, <3>1 DEF Sound, Writing, Resting
      <4> QED
        BY <1>1, <4>1, CloseGood, CloseRests DEF Kin, Resting, Typed
    <3>2. CASE ~ tl.open
      BY <1>1, <2>1, <3>2, KinItself DEF Kin
    <3> QED
      BY <3>1, <3>2
  <2>3. Full(tl') /\ Grows(u, tl') /\ ~ tl'.open
    BY <2>1, <2>2, BootGood
  <2>4. tl' \in TrackLoggerState
    BY <2>3, FullTyped
  <2> QED
    BY <1>1, <2>2, <2>3, <2>4, GrowsOn DEF Step
<1>8. CASE PowerLoss
  BY <1>1, <1>8, BootGood DEF PowerLoss, Step
<1>9. CASE UNCHANGED vars
  <2>1. tl' = tl
    BY <1>9 DEF vars
  <2> QED
    BY <1>1, <2>1, KinItself DEF Step, Kin
<1> QED
  BY <1>3, <1>4, <1>5, <1>6, <1>7, <1>8, <1>9 DEF Next, Stop, Suspend

----------------------------------------------------------------------------
(* The theorems.                                                           *)

LEMMA AlwaysFull == Spec => [](Full(tl)) /\ [][Step]_vars
<1>1. Init => Full(tl)
  BY InitFull
<1>2. Full(tl) /\ [Next]_vars => Full(tl)' /\ [Step]_vars
  BY NextFull
<1> QED
  BY <1>1, <1>2, PTL DEF Spec

\* On a card whose f_close keeps what f_write took, every file that a power loss
\* can leave is well formed, for every size of the strings and of the buffer and
\* for every other fault.
THEOREM FilesAreWellFormed ==
    ASSUME "lossyClose" \notin Faults
    PROVE  Spec => []FilesWellFormed
<1>1. Full(tl) => FilesWellFormed
  BY DEF Full, Good, FilesSound, Lossless, FilesWellFormed
<1> QED
  BY <1>1, AlwaysFull, PTL

\* The missing points are among the last unsynced ones, or, when the file was
\* just resumed, among those that end in the buffer.
LEMMA MissingAreFew ==
    ASSUME NEW w, Full(w), w.open, Lossless,
           GPX_BUFFER_SIZE <= (LOGGER_SYNC_POINTS - 1) * PointLen
    PROVE  Cardinality(PointsIn(w.stream) \ PointsIn(w.disk[w.name])) < LOGGER_SYNC_POINTS
<1> DEFINE missing == PointsIn(w.stream) \ PointsIn(w.disk[w.name])
<1>1. /\ w \in TrackLoggerState /\ w.serial \in Nat /\ Writing(w) /\ w.name # NoName
      /\ Good(w) /\ Track(w, w.serial + 1) /\ Timely(w)
      /\ LOGGER_SYNC_POINTS \in Nat \ {0}
  BY FullTyped, TrackLoggerAssumption DEF Full, Sound, Writing, Resting
<1>2. w.name \in Names /\ w.unsynced \in Nat
      /\ w.stream \in Seq(Unit) /\ w.data \in Seq(Unit) /\ w.buf \in Seq(Unit)
      /\ Len(w.buf) <= GPX_BUFFER_SIZE
  BY <1>1 DEF TrackLoggerState, Writing, Typed
<1>3. PICK f \in 0..w.serial + 1 : Body(w.stream, f, w.serial + 1)
  BY <1>1 DEF Track
<1>4. CASE w.unsynced < LOGGER_SYNC_POINTS
  <2>1. ASSUME NEW p \in missing
        PROVE  p \in (w.serial - w.unsynced + 1)..w.serial
    <3>1. PICK j \in 1..Len(w.stream) :
             w.stream[j].kind = "point" /\ w.stream[j].pt = p
      BY PointsAre
    <3>2. p \in f..(w.serial + 1) - 1
      BY <1>3, <3>1 DEF Body, Placed
    <3>3. ~ p <= w.serial - w.unsynced
      BY <1>1 DEF Good, FilesSound, Synced
    <3> QED
      BY <1>1, <1>2, <3>2, <3>3
  <2>2. /\ w.serial - w.unsynced + 1 \in Int /\ w.serial \in Int
        /\ w.serial - (w.serial - w.unsynced + 1) + 1 < LOGGER_SYNC_POINTS
    BY <1>1, <1>2, <1>4
  <2>3. missing \subseteq (w.serial - w.unsynced + 1)..w.serial
    BY <2>1
  <2> HIDE DEF missing
  <2>4. Cardinality(missing) < LOGGER_SYNC_POINTS
    BY <1>1, <2>2, <2>3, FewOf
  <2> QED
    BY <2>4 DEF missing
<1>5. CASE w.data = w.disk[w.name]
  <2>1. Extends(w.stream, w.data)
    BY <1>1, DataOfStream
  <2>2. Len(w.stream) - Len(w.data) <= GPX_BUFFER_SIZE
    <3>1. w.data \o w.buf = w.stream
      BY <1>1 DEF Writing, Intact, OnFile, Lossless
    <3>2. Len(w.stream) = Len(w.data) + Len(w.buf)
      <4>1. Len(w.data \o w.buf) = Len(w.data) + Len(w.buf)
        BY <1>2, ConcatProperties
      <4> QED
        BY <3>1, <4>1
    <3>3. Len(w.data) \in Nat /\ Len(w.buf) \in Nat
      BY <1>2, LenProperties
    <3> QED
      BY <1>2, <3>2, <3>3
  <2>3. f \in Nat /\ w.serial + 1 \in Nat /\ f <= w.serial + 1
    BY <1>1
  <2>4. PICK a \in Int, b \in Int :
           missing \subseteq a..b /\ b - a + 1 < LOGGER_SYNC_POINTS
    BY <1>2, <1>3, <1>5, <2>1, <2>2, <2>3, FewInBuffer
  <2> HIDE DEF missing
  <2>5. Cardinality(missing) < LOGGER_SYNC_POINTS
    BY <1>1, <2>4, FewOf
  <2> QED
    BY <2>5 DEF missing
<1> QED
  BY <1>1, <1>4, <1>5 DEF Timely

\* While recording, a power loss costs fewer than LOGGER_SYNC_POINTS points, on a
\* card whose f_close keeps what f_write took and with a buffer of fewer points
\* than are synced together; a resumed file with a full buffer needs the latter.
THEOREM LossIsBounded ==
    ASSUME "lossyClose" \notin Faults,
           GPX_BUFFER_SIZE <= (LOGGER_SYNC_POINTS - 1) * StrLen["point"]
    PROVE  Spec => []LossWindow
<1>1. Full(tl) => LossWindow
  BY MissingAreFew DEF LossWindow, Lossless, PointLen
<1> QED
  BY <1>1, AlwaysFull, PTL

LEMMA ModuloTwice ==
    ASSUME NEW m \in Nat \ {0}, NEW x \in 0..(2 * m - 1)
    PROVE  (x < m => x % m = x) /\ (~ x < m => x % m = x - m)
OBVIOUS

LEMMA RingIsRecent ==
    ASSUME NEW w \in TrackLoggerState, Ring(w)
    PROVE  /\ \A k \in 0..(w.count - 1) : TrackPoint(w, k) = w.serial - w.count + k + 1
           /\ w.count >= 2 => LastTwoPoints(w) = <<w.serial - 1, w.serial>>
<1> DEFINE m == TRACK_RAM_MAX_POINTS
           oldest == IF w.head >= w.count THEN w.head - w.count
                     ELSE m - (w.count - w.head)
<1>1. /\ w.head \in 0..(m - 1) /\ w.count \in 0..m /\ w.serial \in Nat /\ m \in Nat \ {0}
  BY TrackLoggerAssumption DEF TrackLoggerState
<1>2. ASSUME NEW k \in 0..(w.count - 1)
      PROVE  TrackPoint(w, k) = w.serial - w.count + k + 1
  <2>1. PICK j \in 1..w.count : j = w.count - k
    BY <1>1
  <2>2. PICK x \in 0..(2 * m - 1) : x = oldest + k
    BY <1>1
  <2>3. (x < m => x % m = x) /\ (~ x < m => x % m = x - m)
    BY <1>1, ModuloTwice
  <2>4. /\ x < m => x = SlotBefore(w.head, j)
        /\ ~ x < m => x - m = SlotBefore(w.head, j)
    BY <1>1, <2>1, <2>2 DEF SlotBefore
  <2>5. w.ring[SlotBefore(w.head, j)] = w.serial - j + 1
    BY DEF Ring
  <2>6. w.serial - j + 1 = w.serial - w.count + k + 1
    BY <1>1, <2>1
  <2>7. TrackPoint(w, k) = w.ring[(oldest + k) % m]
    BY DEF TrackPoint
  <2> HIDE DEF oldest
  <2>8. TrackPoint(w, k) = w.ring[x % m]
    BY <2>2, <2>7, Zenon
  <2>9. x % m = SlotBefore(w.head, j)
    BY <2>3, <2>4, Zenon
  <2> QED
    BY <2>5, <2>6, <2>8, <2>9, Zenon
<1>3. ASSUME w.count >= 2
      PROVE  LastTwoPoints(w) = <<w.serial - 1, w.serial>>
  <2> DEFINE last == IF w.head = 0 THEN m - 1 ELSE w.head - 1
             prev == IF last = 0 THEN m - 1 ELSE last - 1
  <2>1. 1 \in 1..w.count /\ 2 \in 1..w.count
    BY <1>1, <1>3
  <2>2. last = SlotBefore(w.head, 1) /\ prev = SlotBefore(w.head, 2)
    BY <1>1, <1>3 DEF SlotBefore
  <2>3. /\ w.ring[SlotBefore(w.head, 1)] = w.serial - 1 + 1
        /\ w.ring[SlotBefore(w.head, 2)] = w.serial - 2 + 1
    BY <2>1 DEF Ring
  <2>4. w.serial - 1 + 1 = w.serial /\ w.serial - 2 + 1 = w.serial - 1
    BY <1>1
  <2>5. LastTwoPoints(w) = <<w.ring[prev], w.ring[last]>>
    BY DEF LastTwoPoints
  <2> HIDE DEF last, prev
  <2> QED
    BY <2>2, <2>3, <2>4, <2>5, Zenon
<1> QED
  BY <1>2, <1>3

\* The map is drawn from the last points accepted, oldest first, whatever the card
\* does, across changes of day, errors and resumed recordings.
THEOREM RamTrackStaysRecent == Spec => []RamTrackIsRecent
<1>1. Full(tl) => RamTrackIsRecent
  BY FullTyped, RingIsRecent DEF Full, Good, RamTrackIsRecent
<1> QED
  BY <1>1, AlwaysFull, PTL

\* No step takes back what a file on the card holds, a lossy close included, as
\* long as every file there is can be opened by the probe for a free name.
THEOREM CardFilesGrow ==
    ASSUME "probe" \notin Faults
    PROVE  Spec => FilesOnlyGrow
<1>1. Full(tl) /\ Full(tl)' /\ [Step]_vars =>
        [\A n \in Names :
            /\ Len(tl.disk[n]) <= Len(tl'.disk[n])
            /\ SubSeq(tl'.disk[n], 1, Len(tl.disk[n])) = tl.disk[n]]_vars
  <2> SUFFICES ASSUME Full(tl), Full(tl'), Step, NEW n \in Names
               PROVE  /\ Len(tl.disk[n]) <= Len(tl'.disk[n])
                      /\ SubSeq(tl'.disk[n], 1, Len(tl.disk[n])) = tl.disk[n]
    OBVIOUS
  <2>1. tl.disk[n] \in Seq(Unit) /\ tl'.disk[n] \in Seq(Unit)
    BY FullTyped
  <2>2. Extends(tl'.disk[n], tl.disk[n])
    BY DEF Step, Probing, Grows
  <2> QED
    BY <2>1, <2>2, ExtendsIsPrefix
<1> QED
  BY <1>1, AlwaysFull, PTL DEF FilesOnlyGrow

\* While there is a file to record to or to resume, recording goes on without shortening
\* the track on the screen: over a change of day, a resume after an error, and a new file
\* instead of one that cannot be resumed, with whatever fails on the way.
THEOREM RecordingKeepsTrack == Spec => RecordingKeepsRamTrack
<1>1. [Step]_vars => [tl.name # NoName /\ tl'.open => tl'.count >= tl.count]_vars
  BY DEF Step
<1> QED
  BY <1>1, AlwaysFull, PTL DEF RecordingKeepsRamTrack
=============================================================================
