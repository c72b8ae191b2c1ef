--------------------------- MODULE StorageProofs ---------------------------
(***************************************************************************)
(* Theorems about Storage, for every length of the debounce times, of the  *)
(* retry period and of a pass: the types, the debouncing of the supply,    *)
(* the order in which a failing supply stops the users of the card, and    *)
(* the map's files, which are always those of the card that is mounted.    *)
(*                                                                         *)
(* The last is the delicate one.  The loop notices a mount by comparing    *)
(* the state with the one it saw last, so a mount would be missed if the   *)
(* card were given up and mounted again between two looks.  The invariant  *)
(* says why it is not: between the look and the poll only a low supply     *)
(* gives the card up, and then its next try is a whole period away and its *)
(* Detect line has not moved.                                              *)
(***************************************************************************)
EXTENDS Storage, TLAPS

States == {"NO_CARD", "READY", "MOUNT_ERROR"}
Retries == {NotArmed} \cup (0..SD_RETRY_PERIOD)
Tracks == {"IDLE", "RECORDING", "ERROR"}
Ends == {"none", "footer", "cut"}
Maps == {"closed", "live", "stale", "absent", "broken"}

DevType ==
    [state : States, lost : BOOLEAN, retry : Retries,
     candidate : BOOLEAN, stable : BOOLEAN, prev : BOOLEAN, prevReady : BOOLEAN,
     track : Tracks, named : BOOLEAN, file : Handles, trackEnd : Ends, map : Maps]

\* The mount's side of dev: a retry is armed exactly after a mount that failed, and
\* a mounted card has been detected and its map files are its own.
MountSound(w) ==
    /\ w.state = "MOUNT_ERROR" <=> w.retry # NotArmed
    /\ w.state = "READY" => w.prev /\ w.map \notin {"stale", "absent"}

\* The logger's side.
LoggerSound(w) == w.track = "RECORDING" <=> w.file # "none"

DevSound(w) == w \in DevType /\ MountSound(w) /\ LoggerSound(w)

\* The age of the opposite state never exceeds the time that the ticks have seen it.
Counted ==
    supply.pending # NotPending =>
        held.low = ~ supply.blocked /\ held.age >= supply.pending

\* A card that was given up since the loop last looked stays so until it looks again.
GivenUp(w) ==
    w.prevReady /\ w.state # "READY" =>
        w.state = "MOUNT_ERROR" /\ w.retry = SD_RETRY_PERIOD /\ w.prev

Noticed ==
    /\ GivenUp(dev)
    /\ dev.prevReady /\ dev.state # "READY" => at \in {"service", "render", "poll"}

EnvType == [vddLow : BOOLEAN, batt : {"low", "band", "high"}, card : Cards]
SupplyType == [blocked : BOOLEAN, pending : {NotPending} \cup (0..RECOVER),
               battLow : BOOLEAN]
HeldType == [low : BOOLEAN, age : 0..RECOVER]

IInv ==
    /\ at \in {"supply", "service", "render", "poll", "wait"}
    /\ env \in EnvType /\ supply \in SupplyType /\ held \in HeldType
    /\ DevSound(dev)
    /\ Counted
    /\ Noticed

LEMMA InvImpliesTypes ==
    ASSUME IInv
    PROVE  TypeOK
BY DEF IInv, TypeOK, DevSound, MountSound, LoggerSound, EnvType, SupplyType, HeldType,
   DevType, States, Retries, Tracks, Ends, Maps

----------------------------------------------------------------------------
(* Operations on the card and the logger.  They leave the mount alone.     *)

SameMount(w, v) ==
    /\ v.state = w.state /\ v.retry = w.retry /\ v.map = w.map
    /\ v.prev = w.prev /\ v.prevReady = w.prevReady

\* What the logger's operations may make of dev.
LoggerStep(w, v) == DevSound(v) /\ SameMount(w, v)

LEMMA LoggerStepTransitive ==
    ASSUME NEW u, NEW v, NEW w, LoggerStep(u, v), LoggerStep(v, w)
    PROVE  LoggerStep(u, w)
BY DEF LoggerStep, SameMount

LEMMA FailedStep ==
    ASSUME NEW w, DevSound(w), NEW h
    PROVE  LoggerStep(w, Failed(w, h)) /\ Failed(w, h).track = w.track
<1> DEFINE l == w.lost \/ (h = "live" /\ env.card \in {"out", "fresh", "dead"})
           v == [w EXCEPT !.lost = l]
<1>1. Failed(w, h) = v
  BY DEF Failed
<1>2. l \in BOOLEAN /\ w \in DevType
  BY DEF DevSound, DevType
<1> HIDE DEF l
<1>3. v \in DevType /\ v.track = w.track /\ v.file = w.file /\ SameMount(w, v)
  BY <1>2 DEF DevType, SameMount
<1> HIDE DEF v
<1> QED
  BY <1>1, <1>3 DEF DevSound, LoggerStep, MountSound, LoggerSound, SameMount

LEMMA TryStep ==
    ASSUME NEW w, NEW h, NEW done, NEW undone, LoggerStep(w, done), LoggerStep(w, undone),
           NEW v \in Try(w, h, done, undone)
    PROVE  LoggerStep(w, v) /\ v.track \in {done.track, undone.track}
<1>1. v = done \/ v = Failed(undone, h)
  BY DEF Try
<1>2. DevSound(undone)
  BY DEF LoggerStep
<1> QED
  BY <1>1, <1>2, FailedStep, LoggerStepTransitive

LEMMA EndedStep ==
    ASSUME NEW w, DevSound(w), NEW e \in Ends
    PROVE  /\ LoggerStep(w, Ended(w, e))
           /\ Ended(w, e).file = "none" /\ Ended(w, e).trackEnd = e
<1>1. w \in DevType
  BY DEF DevSound
<1>2. Ended(w, e) \in DevType /\ Ended(w, e).track = "IDLE" /\ Ended(w, e).file = "none" /\ Ended(w, e).trackEnd = e
      /\ SameMount(w, Ended(w, e))
  BY <1>1 DEF Ended, DevType, SameMount, Tracks, Handles
<1> QED
  BY <1>2 DEF DevSound, LoggerStep, MountSound, LoggerSound, SameMount

LEMMA RecordingStep ==
    ASSUME NEW w, DevSound(w)
    PROVE  LoggerStep(w, Recording(w)) /\ Recording(w).track = "RECORDING"
<1>1. w \in DevType
  BY DEF DevSound
<1>2. Recording(w) \in DevType /\ Recording(w).track = "RECORDING" /\ Recording(w).file = "live" /\ SameMount(w, Recording(w))
  BY <1>1 DEF Recording, DevType, SameMount, Tracks, Handles
<1> QED
  BY <1>2 DEF DevSound, LoggerStep, MountSound, LoggerSound, SameMount

LEMMA InErrorStep ==
    ASSUME NEW w, DevSound(w), NEW n \in BOOLEAN
    PROVE  LoggerStep(w, InError(w, n)) /\ InError(w, n).track = "ERROR"
<1>1. w \in DevType
  BY DEF DevSound
<1>2. InError(w, n) \in DevType /\ InError(w, n).track = "ERROR" /\ InError(w, n).file = "none" /\ SameMount(w, InError(w, n))
  BY <1>1 DEF InError, DevType, SameMount, Tracks, Handles
<1> QED
  BY <1>2 DEF DevSound, LoggerStep, MountSound, LoggerSound, SameMount

\* Suspending leaves no file open, and a working card gets the footer.
LEMMA LoggerSuspendStep ==
    ASSUME NEW w, DevSound(w), NEW v \in LoggerSuspend(w)
    PROVE  /\ LoggerStep(w, v) /\ v.file = "none"
           /\ w.track = "RECORDING" /\ Works(w, w.file) /\ env.card = "up" =>
                 v.trackEnd = "footer"
<1>1. "footer" \in Ends /\ "cut" \in Ends /\ w.trackEnd \in Ends
  BY DEF Ends, DevSound, DevType
<1> DEFINE ft == Ended(w, "footer")
           ct == Ended(w, "cut")
           tt == Ended(w, w.trackEnd)
<1>2. /\ LoggerStep(w, ft) /\ ft.file = "none" /\ ft.trackEnd = "footer"
      /\ LoggerStep(w, ct) /\ ct.file = "none"
      /\ LoggerStep(w, tt) /\ tt.file = "none"
  BY <1>1, EndedStep
<1>3. \A h : LoggerStep(w, Failed(ct, h)) /\ Failed(ct, h).file = "none"
  <2> TAKE h
  <2>1. LoggerStep(ct, Failed(ct, h)) /\ Failed(ct, h).track = ct.track
    BY <1>2, FailedStep DEF LoggerStep
  <2>2. LoggerSound(ct) /\ LoggerSound(Failed(ct, h))
    BY <1>2, <2>1 DEF LoggerStep, DevSound
  <2>3. LoggerStep(w, Failed(ct, h))
    BY <1>2, <2>1, LoggerStepTransitive
  <2> QED
    BY <1>2, <2>1, <2>2, <2>3 DEF LoggerSound
<1>4. \/ \E h : v \in Try(w, h, ft, ct) /\ (w.track = "RECORDING" => h = w.file)
      \/ w.track # "RECORDING" /\ v = tt
  BY DEF LoggerSuspend
<1> HIDE DEF ft, ct, tt
<1>5. CASE w.track # "RECORDING" /\ v = tt
  BY <1>2, <1>5
<1>6. CASE \E h : v \in Try(w, h, ft, ct) /\ (w.track = "RECORDING" => h = w.file)
  <2>1. PICK h : v \in Try(w, h, ft, ct) /\ (w.track = "RECORDING" => h = w.file)
    BY <1>6
  <2>2. v = ft \/ (v = Failed(ct, h) /\ (~ Works(w, h) \/ env.card = "noisy"))
    BY <2>1 DEF Try
  <2> QED
    BY <1>2, <1>3, <2>1, <2>2
<1> QED
  BY <1>4, <1>5, <1>6

LEMMA NewFileStep ==
    ASSUME NEW w, DevSound(w), NEW v \in NewFile(w)
    PROVE  LoggerStep(w, v)
<1>1. LoggerStep(w, Recording(w)) /\ LoggerStep(w, InError(w, FALSE))
  <2>1. FALSE \in BOOLEAN
    OBVIOUS
  <2> QED
    BY <2>1, RecordingStep, InErrorStep
<1>2. v \in Try(w, Volume(w), Recording(w), InError(w, FALSE))
  BY DEF NewFile
<1> QED
  BY <1>1, <1>2, TryStep

LEMMA LoggerStartStep ==
    ASSUME NEW w, DevSound(w), NEW v \in LoggerStart(w)
    PROVE  LoggerStep(w, v)
<1>1. LoggerStep(w, Recording(w)) /\ LoggerStep(w, InError(w, FALSE))
  <2>1. FALSE \in BOOLEAN
    OBVIOUS
  <2> QED
    BY <2>1, RecordingStep, InErrorStep
<1>2. CASE v \in NewFile(w)
  BY <1>2, NewFileStep
<1>3. CASE \E u \in Try(w, Volume(w), Recording(w), InError(w, FALSE)) :
              v = u \/ v \in NewFile(u)
  <2>1. PICK u \in Try(w, Volume(w), Recording(w), InError(w, FALSE)) :
           v = u \/ v \in NewFile(u)
    BY <1>3
  <2>2. LoggerStep(w, u)
    BY <1>1, TryStep
  <2>3. v \in NewFile(u) => LoggerStep(u, v)
    BY <2>2, NewFileStep DEF LoggerStep
  <2> QED
    BY <2>1, <2>2, <2>3, LoggerStepTransitive
<1> QED
  BY <1>2, <1>3 DEF LoggerStart

LEMMA AddPointStep ==
    ASSUME NEW w, DevSound(w), NEW io, NEW v \in AddPoint(w, io)
    PROVE  LoggerStep(w, v)
<1>1. CASE v = w
  BY <1>1 DEF LoggerStep, SameMount
<1>2. CASE v \in Try(w, w.file, w, InError(w, TRUE))
  <2>1. TRUE \in BOOLEAN /\ LoggerStep(w, w)
    BY DEF LoggerStep, SameMount
  <2>2. LoggerStep(w, InError(w, TRUE))
    BY <2>1, InErrorStep
  <2> QED
    BY <1>2, <2>1, <2>2, TryStep
<1>3. CASE \E u \in LoggerSuspend(w) : v \in NewFile(u)
  <2>1. PICK u \in LoggerSuspend(w) : v \in NewFile(u)
    BY <1>3
  <2>2. LoggerStep(w, u)
    BY LoggerSuspendStep
  <2>3. LoggerStep(u, v)
    BY <2>1, <2>2, NewFileStep DEF LoggerStep
  <2> QED
    BY <2>2, <2>3, LoggerStepTransitive
<1> QED
  BY <1>1, <1>2, <1>3 DEF AddPoint

----------------------------------------------------------------------------
(* Mounting.                                                               *)

LEMMA UnmountedFields ==
    ASSUME NEW w, w \in DevType, LoggerSound(w), NEW s \in States
    PROVE  /\ Unmounted(w, s) \in DevType /\ LoggerSound(Unmounted(w, s))
           /\ Unmounted(w, s).state = s /\ Unmounted(w, s).retry = w.retry
           /\ Unmounted(w, s).prev = w.prev /\ Unmounted(w, s).prevReady = w.prevReady
           /\ w.file = "none" => Unmounted(w, s).file = "none"
           /\ w.map = "closed" => Unmounted(w, s).map = "closed"
           /\ Unmounted(w, s).trackEnd = w.trackEnd
<1>1. Stale(w.file) \in Handles /\ (Stale(w.file) = "none" <=> w.file = "none")
  BY DEF DevType, Stale, Handles
<1>2. Stale(w.map) \in Maps /\ (w.map = "closed" => Stale(w.map) = "closed")
  BY DEF DevType, Stale, Maps
<1>3. Unmounted(w, s) = [w EXCEPT !.state = s, !.file = Stale(w.file), !.map = Stale(w.map)]
  BY DEF Unmounted
<1> QED
  BY <1>1, <1>2, <1>3 DEF DevType, LoggerSound

\* A retry that is armed after a mount that failed.
LEMMA RetryArmed ==
    ASSUME NEW w, w \in DevType, LoggerSound(w), w.state = "MOUNT_ERROR",
           NEW v, v = [w EXCEPT !.retry = SD_RETRY_PERIOD]
    PROVE  /\ DevSound(v) /\ v.state = "MOUNT_ERROR" /\ v.retry = SD_RETRY_PERIOD
           /\ v.prev = w.prev /\ v.prevReady = w.prevReady
           /\ v.file = w.file /\ v.map = w.map /\ v.trackEnd = w.trackEnd
<1>1. SD_RETRY_PERIOD \in Retries /\ SD_RETRY_PERIOD # NotArmed
  BY StorageAssumption DEF Retries, NotArmed
<1>2. /\ v \in DevType /\ v.state = "MOUNT_ERROR" /\ v.retry = SD_RETRY_PERIOD
      /\ v.prev = w.prev /\ v.prevReady = w.prevReady
      /\ v.file = w.file /\ v.map = w.map /\ v.track = w.track /\ v.trackEnd = w.trackEnd
  BY <1>1 DEF DevType
<1> QED
  BY <1>1, <1>2 DEF DevSound, MountSound, LoggerSound

LEMMA SuspendStep ==
    ASSUME NEW w, DevSound(w)
    PROVE  /\ DevSound(SdSuspend(w)) /\ SdSuspend(w).state # "READY"
           /\ SdSuspend(w).prevReady = w.prevReady /\ SdSuspend(w).prev = w.prev
           /\ w.state # "READY" => SdSuspend(w) = w
           /\ w.state = "READY" => SdSuspend(w).state = "MOUNT_ERROR"
                                   /\ SdSuspend(w).retry = SD_RETRY_PERIOD
           /\ w.file = "none" => SdSuspend(w).file = "none"
           /\ w.map = "closed" => SdSuspend(w).map = "closed"
           /\ SdSuspend(w).trackEnd = w.trackEnd
<1>1. CASE w.state # "READY"
  BY <1>1 DEF SdSuspend
<1>2. CASE w.state = "READY"
  <2> DEFINE u == Unmounted(w, "MOUNT_ERROR")
  <2>1. "MOUNT_ERROR" \in States /\ w \in DevType /\ LoggerSound(w)
    BY DEF States, DevSound
  <2>2. /\ u \in DevType /\ LoggerSound(u) /\ u.state = "MOUNT_ERROR"
        /\ u.prev = w.prev /\ u.prevReady = w.prevReady
        /\ w.file = "none" => u.file = "none"
        /\ w.map = "closed" => u.map = "closed"
        /\ u.trackEnd = w.trackEnd
    BY <2>1, UnmountedFields
  <2>3. SdSuspend(w) = [u EXCEPT !.retry = SD_RETRY_PERIOD]
    BY <1>2 DEF SdSuspend
  <2> HIDE DEF u
  <2> QED
    BY <1>2, <2>2, <2>3, RetryArmed
<1> QED
  BY <1>1, <1>2

\* Closing the map's files.
LEMMA MapClosed ==
    ASSUME NEW w, DevSound(w)
    PROVE  /\ DevSound(MapShutdown(w)) /\ MapShutdown(w).map = "closed"
           /\ MapShutdown(w).state = w.state /\ MapShutdown(w).retry = w.retry
           /\ MapShutdown(w).prev = w.prev /\ MapShutdown(w).prevReady = w.prevReady
           /\ MapShutdown(w).file = w.file /\ MapShutdown(w).trackEnd = w.trackEnd
<1>1. /\ MapShutdown(w) \in DevType /\ MapShutdown(w).map = "closed"
      /\ MapShutdown(w).state = w.state /\ MapShutdown(w).retry = w.retry
      /\ MapShutdown(w).prev = w.prev /\ MapShutdown(w).prevReady = w.prevReady
      /\ MapShutdown(w).file = w.file /\ MapShutdown(w).trackEnd = w.trackEnd
      /\ MapShutdown(w).track = w.track
  BY DEF DevSound, MapShutdown, DevType, Maps
<1> QED
  BY <1>1 DEF DevSound, MountSound, LoggerSound

\* storage_stop: the logger, the map, the card, in this order.
LEMMA StorageStopStep ==
    ASSUME NEW w, DevSound(w), GivenUp(w), NEW v \in StorageStop(w)
    PROVE  /\ DevSound(v) /\ GivenUp(v) /\ v.state # "READY"
           /\ v.file = "none" /\ v.map = "closed"
           /\ w.track = "RECORDING" /\ Works(w, w.file) /\ env.card = "up" =>
                 v.trackEnd = "footer"
<1>1. PICK u \in LoggerSuspend(w) : v = SdSuspend(MapShutdown(u))
  BY DEF StorageStop
<1>2. /\ DevSound(u) /\ SameMount(w, u) /\ u.file = "none"
      /\ w.track = "RECORDING" /\ Works(w, w.file) /\ env.card = "up" =>
            u.trackEnd = "footer"
  BY LoggerSuspendStep DEF LoggerStep
<1> DEFINE m == MapShutdown(u)
<1>3. /\ DevSound(m) /\ m.map = "closed" /\ m.state = u.state /\ m.retry = u.retry
      /\ m.prev = u.prev /\ m.prevReady = u.prevReady
      /\ m.file = "none" /\ m.trackEnd = u.trackEnd
  BY <1>2, MapClosed
<1>4. /\ DevSound(v) /\ v.state # "READY" /\ v.prevReady = m.prevReady /\ v.prev = m.prev
      /\ m.state # "READY" => v = m
      /\ m.state = "READY" => v.state = "MOUNT_ERROR" /\ v.retry = SD_RETRY_PERIOD
      /\ v.file = "none" /\ v.map = "closed" /\ v.trackEnd = m.trackEnd
  BY <1>1, <1>3, SuspendStep
<1> HIDE DEF m
<1>5. GivenUp(v)
  <2>1. CASE w.state = "READY"
    BY <1>2, <1>3, <1>4, <2>1 DEF GivenUp, SameMount, DevSound, MountSound
  <2>2. CASE w.state # "READY"
    BY <1>2, <1>3, <1>4, <2>2 DEF GivenUp, SameMount
  <2> QED
    BY <2>1, <2>2
<1> QED
  BY <1>2, <1>3, <1>4, <1>5

----------------------------------------------------------------------------
(* The poll, and the look of the loop at what it did.                      *)

\* What the poll leaves: the files of the map may be of an earlier mount, but only
\* when the loop is about to notice a new one.
Polled(w) ==
    /\ w \in DevType /\ LoggerSound(w)
    /\ w.state = "MOUNT_ERROR" <=> w.retry # NotArmed
    /\ w.state = "READY" => w.prev
    /\ w.state = "READY" /\ w.prevReady => w.map \notin {"stale", "absent"}

LEMMA MountStep ==
    ASSUME NEW w, w \in DevType, LoggerSound(w), w.prev, ~ w.prevReady,
           NEW v \in MountCard(w)
    PROVE  Polled(v)
<1>1. /\ "READY" \in States /\ "MOUNT_ERROR" \in States /\ FALSE \in BOOLEAN
      /\ NotArmed \in Retries
      /\ SD_RETRY_PERIOD \in Retries /\ SD_RETRY_PERIOD # NotArmed
  BY StorageAssumption DEF States, Retries, NotArmed
<1>2. CASE v = [[w EXCEPT !.state = "MOUNT_ERROR"] EXCEPT !.retry = SD_RETRY_PERIOD]
  <2> DEFINE u == [w EXCEPT !.state = "MOUNT_ERROR"]
  <2>1. u \in DevType /\ u.state = "MOUNT_ERROR" /\ LoggerSound(u)
    BY <1>1 DEF DevType, LoggerSound
  <2>2. v = [u EXCEPT !.retry = SD_RETRY_PERIOD]
    BY <1>2
  <2> HIDE DEF u
  <2> QED
    BY <2>1, <2>2, RetryArmed DEF Polled, DevSound, MountSound
<1> DEFINE m == [w EXCEPT !.lost = FALSE]
<1>3. /\ m \in DevType /\ LoggerSound(m) /\ m.prev = w.prev /\ m.prevReady = w.prevReady
  BY <1>1 DEF DevType, LoggerSound
<1>4. CASE v = [m EXCEPT !.state = "READY", !.retry = NotArmed]
  <2> HIDE DEF m
  <2>1. /\ v \in DevType /\ LoggerSound(v) /\ v.state = "READY" /\ v.retry = NotArmed
        /\ v.prev = m.prev /\ v.prevReady = m.prevReady
    BY <1>1, <1>3, <1>4 DEF DevType, LoggerSound
  <2> QED
    BY <1>3, <2>1 DEF Polled
<1>5. CASE v = [Unmounted(m, "MOUNT_ERROR") EXCEPT !.retry = SD_RETRY_PERIOD]
  <2> HIDE DEF m
  <2> DEFINE u == Unmounted(m, "MOUNT_ERROR")
  <2>1. u \in DevType /\ u.state = "MOUNT_ERROR" /\ LoggerSound(u)
    BY <1>1, <1>3, UnmountedFields
  <2>2. v = [u EXCEPT !.retry = SD_RETRY_PERIOD]
    BY <1>5
  <2> HIDE DEF u
  <2> QED
    BY <2>1, <2>2, RetryArmed DEF Polled, DevSound, MountSound
<1> QED
  BY <1>2, <1>4, <1>5 DEF MountCard

LEMMA SdPollStep ==
    ASSUME NEW w, DevSound(w), GivenUp(w), NEW u \in SdPoll(w)
    PROVE  Polled(u)
<1> DEFINE raw == env.card # "out"
           stable == IF raw = w.candidate THEN raw ELSE w.stable
           inserted == stable /\ ~ w.prev
           v == [w EXCEPT !.candidate = raw, !.stable = stable, !.prev = stable]
<1>1. \/ w.state = "READY" /\ ~ stable /\ u = Unmounted(v, "NO_CARD")
      \/ /\ w.state = "READY" /\ stable
         /\ u = [Unmounted(v, "MOUNT_ERROR") EXCEPT !.retry = SD_RETRY_PERIOD]
      \/ w.state = "READY" /\ stable /\ u = v
      \/ /\ w.state # "READY" /\ ~ stable
         /\ u = [v EXCEPT !.state = "NO_CARD", !.retry = NotArmed]
      \/ w.state # "READY" /\ stable /\ (inserted \/ w.retry = 0) /\ u \in MountCard(v)
      \/ w.state # "READY" /\ stable /\ u = v
  BY DEF SdPoll
<1>2. w \in DevType /\ MountSound(w) /\ LoggerSound(w)
  BY DEF DevSound
<1>3. raw \in BOOLEAN
  OBVIOUS
<1>4. stable \in BOOLEAN
  BY <1>2, <1>3 DEF DevType
<1> HIDE DEF raw, stable
<1>5. /\ v \in DevType /\ LoggerSound(v) /\ v.state = w.state /\ v.retry = w.retry
      /\ v.prev = stable /\ v.prevReady = w.prevReady /\ v.map = w.map
  BY <1>2, <1>3, <1>4 DEF DevType, LoggerSound
<1> HIDE DEF v
<1>6. "NO_CARD" \in States /\ "MOUNT_ERROR" \in States /\ NotArmed \in Retries
  BY DEF States, Retries
<1>7. CASE w.state = "READY" /\ u = Unmounted(v, "NO_CARD")
  BY <1>2, <1>5, <1>6, <1>7, UnmountedFields DEF Polled, MountSound
<1>8. CASE u = [Unmounted(v, "MOUNT_ERROR") EXCEPT !.retry = SD_RETRY_PERIOD]
  <2> DEFINE m == Unmounted(v, "MOUNT_ERROR")
  <2>1. m \in DevType /\ m.state = "MOUNT_ERROR" /\ LoggerSound(m)
    BY <1>5, <1>6, UnmountedFields
  <2>2. u = [m EXCEPT !.retry = SD_RETRY_PERIOD]
    BY <1>8
  <2> HIDE DEF m
  <2> QED
    BY <2>1, <2>2, RetryArmed DEF Polled, DevSound, MountSound
<1>9. CASE stable /\ u = v
  BY <1>2, <1>5, <1>9 DEF Polled, MountSound
<1>10. CASE u = [v EXCEPT !.state = "NO_CARD", !.retry = NotArmed]
  <2>1. u \in DevType /\ LoggerSound(u) /\ u.state = "NO_CARD" /\ u.retry = NotArmed
    BY <1>5, <1>6, <1>10 DEF DevType, LoggerSound
  <2> QED
    BY <2>1 DEF Polled
<1>11. CASE w.state # "READY" /\ stable /\ (inserted \/ w.retry = 0) /\ u \in MountCard(v)
  <2>1. SD_RETRY_PERIOD # 0
    BY StorageAssumption
  <2>2. ~ w.prevReady
    BY <1>11, <2>1 DEF GivenUp
  <2> QED
    BY <1>5, <1>11, <2>2, MountStep
<1> QED
  BY <1>1, <1>7, <1>8, <1>9, <1>10, <1>11

\* When the loop has looked, what it remembers of the mount is what is so.
LEMMA SeenStep ==
    ASSUME NEW w, Polled(w)
    PROVE  /\ DevSound(SeenByLoop(w)) /\ GivenUp(SeenByLoop(w))
           /\ SeenByLoop(w).prevReady => SeenByLoop(w).state = "READY"
<1> DEFINE r == w.state = "READY"
           v == [w EXCEPT !.prevReady = r]
<1>1. r \in BOOLEAN
  OBVIOUS
<1>2. SeenByLoop(w) = IF r /\ ~ w.prevReady THEN MapShutdown(v) ELSE v
  BY DEF SeenByLoop
<1>3. r <=> w.state = "READY"
  OBVIOUS
<1> HIDE DEF r
<1>4. /\ v \in DevType /\ LoggerSound(v) /\ v.state = w.state /\ v.retry = w.retry
      /\ v.prev = w.prev /\ v.prevReady = r /\ v.map = w.map
  BY <1>1 DEF Polled, DevType, LoggerSound
<1> HIDE DEF v
<1>5. CASE r /\ ~ w.prevReady
  <2> DEFINE u == MapShutdown(v)
  <2>1. /\ u \in DevType /\ LoggerSound(u) /\ u.map = "closed" /\ u.state = v.state
        /\ u.retry = v.retry /\ u.prev = v.prev /\ u.prevReady = v.prevReady
    BY <1>4 DEF MapShutdown, DevType, LoggerSound, Maps
  <2> HIDE DEF u
  <2>2. SeenByLoop(w) = u
    BY <1>2, <1>5 DEF u
  <2> QED
    BY <1>3, <1>4, <2>1, <2>2 DEF Polled, DevSound, MountSound, GivenUp
<1>6. CASE ~ (r /\ ~ w.prevReady)
  <2>1. SeenByLoop(w) = v
    BY <1>2, <1>6
  <2> QED
    BY <1>3, <1>4, <1>6, <2>1 DEF Polled, DevSound, MountSound, GivenUp
<1> QED
  BY <1>5, <1>6

----------------------------------------------------------------------------
(* The steps.                                                              *)

LEMMA BootSound ==
    ASSUME NEW s \in States, NEW r \in Retries, NEW b \in BOOLEAN,
           s = "MOUNT_ERROR" <=> r # NotArmed, s = "READY" => b
    PROVE  /\ DevSound(AtBoot(s, r, b))
           /\ AtBoot(s, r, b).prevReady => AtBoot(s, r, b).state = "READY"
<1> DEFINE w == AtBoot(s, r, b)
<1>1. (s = "READY") \in BOOLEAN
  OBVIOUS
<1>2. /\ w \in DevType /\ w.state = s /\ w.retry = r /\ w.prev = b /\ w.map = "closed"
      /\ w.prevReady = (s = "READY") /\ w.track = "IDLE" /\ w.file = "none"
  BY <1>1 DEF AtBoot, DevType, Tracks, Handles, Ends, Maps
<1> HIDE DEF w
<1>3. DevSound(w) /\ (w.prevReady => w.state = "READY")
  BY <1>2 DEF DevSound, MountSound, LoggerSound
<1> QED
  BY <1>3 DEF w

LEMMA InitInv ==
    ASSUME Init
    PROVE  IInv
<1>1. /\ "READY" \in States /\ "MOUNT_ERROR" \in States /\ "NO_CARD" \in States
      /\ NotArmed \in Retries /\ SD_RETRY_PERIOD \in Retries
      /\ SD_RETRY_PERIOD # NotArmed /\ TRUE \in BOOLEAN /\ FALSE \in BOOLEAN
  BY StorageAssumption DEF States, Retries, NotArmed
<1>2. DevSound(dev) /\ (dev.prevReady => dev.state = "READY")
  <2>1. CASE dev = AtBoot("READY", NotArmed, TRUE)
    BY <1>1, <2>1, BootSound
  <2>2. CASE dev = AtBoot("MOUNT_ERROR", SD_RETRY_PERIOD, TRUE)
    BY <1>1, <2>2, BootSound
  <2>3. CASE dev = AtBoot("NO_CARD", NotArmed, FALSE)
    BY <1>1, <2>3, BootSound
  <2> QED
    BY <2>1, <2>2, <2>3 DEF Init
<1>3. env \in EnvType
  <2>1. PICK v \in BOOLEAN, c \in Cards : env = [vddLow |-> v, batt |-> "high", card |-> c]
    BY <1>1 DEF Init, Cards
  <2> QED
    BY <2>1 DEF EnvType
<1>4. supply \in SupplyType /\ held \in HeldType
  BY <1>1, StorageAssumption DEF Init, SupplyType, HeldType
<1>5. Counted
  BY DEF Init, Counted
<1> QED
  BY <1>2, <1>3, <1>4, <1>5 DEF Init, IInv, Noticed, GivenUp

LEMMA BatteryLowIsBoolean ==
    ASSUME supply \in SupplyType
    PROVE  BatteryLow \in BOOLEAN
<1>1. (env.batt = "low") \in BOOLEAN /\ supply.battLow \in BOOLEAN
  BY DEF SupplyType
<1> QED
  BY <1>1 DEF BatteryLow

\* What purrgo_supply_tick does to the switch and to its count.
LEMMA SwitchStep ==
    ASSUME IInv, SupplyTick
    PROVE  /\ supply' \in SupplyType /\ held' \in HeldType /\ Counted'
           /\ supply'.blocked # supply.blocked =>
                 /\ held'.low = supply'.blocked
                 /\ held'.age >= (IF supply'.blocked THEN LOW_CONFIRM ELSE RECOVER)
           /\ dev' = dev \/ dev' \in StorageStop(dev)
           /\ ~ supply.blocked /\ supply'.blocked => dev' \in StorageStop(dev)
<1> DEFINE low == env.vddLow \/ BatteryLow
           pending == Pending(low)
           switch == low # supply.blocked /\ Confirmed(low, pending)
           blocked == IF switch THEN low ELSE supply.blocked
           count == IF switch THEN NotPending ELSE pending
           age == IF low = held.low THEN held.age ELSE 0
<1>1. /\ supply' = [blocked |-> blocked, pending |-> count, battLow |-> BatteryLow]
      /\ held' = [low |-> low, age |-> age]
      /\ IF switch /\ low THEN dev' \in StorageStop(dev) ELSE dev' = dev
  BY DEF SupplyTick
<1>2. /\ BatteryLow \in BOOLEAN
      /\ supply.blocked \in BOOLEAN /\ supply.pending \in {NotPending} \cup (0..RECOVER)
      /\ held.low \in BOOLEAN /\ held.age \in 0..RECOVER
      /\ RECOVER \in Nat /\ LOW_CONFIRM \in Nat /\ NotPending = -1
  BY BatteryLowIsBoolean, StorageAssumption DEF IInv, SupplyType, HeldType, NotPending
<1>3. low \in BOOLEAN
  BY <1>2 DEF IInv, EnvType
<1>4. /\ low = supply.blocked => pending = NotPending
      /\ low # supply.blocked /\ supply.pending = NotPending => pending = 0
      /\ low # supply.blocked /\ supply.pending # NotPending => pending = supply.pending
  BY DEF Pending
<1>5. Confirmed(low, pending) <=> pending >= (IF low THEN LOW_CONFIRM ELSE RECOVER)
  BY DEF Confirmed
<1>6. switch <=> low # supply.blocked /\ Confirmed(low, pending)
  OBVIOUS
<1>7. supply.pending # NotPending => held.low = ~ supply.blocked /\ held.age >= supply.pending
  BY DEF IInv, Counted
<1> HIDE DEF low, pending, switch
<1>8. blocked \in BOOLEAN /\ age \in 0..RECOVER
  BY <1>2, <1>3
<1>9. pending \in {NotPending} \cup (0..RECOVER)
  BY <1>2, <1>4
<1>10. count \in {NotPending} \cup (0..RECOVER)
  BY <1>9
<1>11. low # supply.blocked => pending # NotPending /\ age >= pending
  BY <1>2, <1>3, <1>4, <1>7
<1>12. /\ supply'.blocked = blocked /\ supply'.pending = count
       /\ held'.low = low /\ held'.age = age
  BY <1>1
<1>13. supply' \in SupplyType /\ held' \in HeldType
  BY <1>1, <1>2, <1>3, <1>8, <1>10 DEF SupplyType, HeldType
<1>14. CASE switch
  <2>1. blocked = low /\ count = NotPending /\ low # supply.blocked
    BY <1>6, <1>14
  <2>2. age >= (IF low THEN LOW_CONFIRM ELSE RECOVER)
    BY <1>2, <1>5, <1>6, <1>8, <1>9, <1>11, <1>14
  <2>3. Counted'
    BY <1>12, <2>1 DEF Counted
  <2>4. ~ supply.blocked => low
    BY <1>2, <1>3, <2>1
  <2> QED
    BY <1>1, <1>12, <1>13, <1>14, <2>1, <2>2, <2>3, <2>4
<1>15. CASE ~ switch
  <2>1. blocked = supply.blocked /\ count = pending
    BY <1>15
  <2>2. ASSUME pending # NotPending
        PROVE  low = ~ supply.blocked /\ age >= pending
    BY <1>2, <1>3, <1>4, <1>11, <2>2
  <2>3. Counted'
    BY <1>12, <2>1, <2>2 DEF Counted
  <2> QED
    BY <1>1, <1>12, <1>13, <1>15, <2>1, <2>3
<1> QED
  BY <1>14, <1>15

LEMMA SupplyTickKeepsInv ==
    ASSUME IInv, SupplyTick
    PROVE  /\ IInv'
           /\ ~ supply.blocked /\ supply'.blocked =>
                 /\ dev'.state # "READY" /\ dev'.file = "none" /\ dev'.map = "closed"
                 /\ dev.track = "RECORDING" /\ Works(dev, dev.file) /\ env.card = "up" =>
                       dev'.trackEnd = "footer"
<1>1. DevSound(dev) /\ GivenUp(dev)
  BY DEF IInv, Noticed
<1>2. DevSound(dev') /\ GivenUp(dev')
  BY <1>1, SwitchStep, StorageStopStep
<1>3. at' = "service" /\ UNCHANGED env
  BY DEF SupplyTick
<1>4. IInv'
  BY <1>2, <1>3, SwitchStep DEF IInv, Noticed, EnvType
<1> QED
  BY <1>1, <1>4, SwitchStep, StorageStopStep

\* A step of the logger or of the map, between the supply's tick and the poll.
LEMMA UserStepKeepsInv ==
    ASSUME IInv, at \in {"service", "render"}, at' \in {"render", "poll"},
           DevSound(dev'), GivenUp(dev'), UNCHANGED <<env, supply, held>>
    PROVE  IInv'
BY DEF IInv, Counted, Noticed, EnvType, SupplyType, HeldType

LEMMA ServiceKeepsInv ==
    ASSUME IInv, \/ \E io \in BOOLEAN : Service(io)
                 \/ NoService
    PROVE  IInv'
<1>1. DevSound(dev) /\ GivenUp(dev)
  BY DEF IInv, Noticed
<1>2. at = "service" /\ at' = "render" /\ UNCHANGED <<env, supply, held>>
  BY DEF Service, NoService
<1>3. LoggerStep(dev, dev')
  <2>1. CASE NoService
    BY <1>1, <2>1 DEF NoService, LoggerStep, SameMount
  <2>2. CASE \E io \in BOOLEAN : Service(io)
    <3>1. PICK io \in BOOLEAN : Service(io)
      BY <2>2
    <3>2. PICK v \in (IF dev.track = "RECORDING" THEN {dev} ELSE LoggerStart(dev)) :
             dev' \in (IF v.track = "RECORDING" THEN AddPoint(v, io) ELSE {v})
      BY <3>1 DEF Service
    <3>3. LoggerStep(dev, v)
      BY <1>1, <3>2, LoggerStartStep DEF LoggerStep, SameMount
    <3>4. LoggerStep(v, dev')
      BY <3>2, <3>3, AddPointStep DEF LoggerStep, SameMount
    <3> QED
      BY <3>3, <3>4, LoggerStepTransitive
  <2> QED
    BY <2>1, <2>2
<1>4. DevSound(dev') /\ GivenUp(dev')
  BY <1>1, <1>3 DEF LoggerStep, SameMount, GivenUp
<1> QED
  BY <1>2, <1>4, UserStepKeepsInv

\* A file of the map that is opened, or not found: missing only without a card.
LEMMA MapSet ==
    ASSUME NEW w, DevSound(w), NEW m \in Maps,
           w.state = "READY" => m \notin {"stale", "absent"},
           NEW v, v = [w EXCEPT !.map = m]
    PROVE  DevSound(v) /\ v.state = w.state /\ v.retry = w.retry
           /\ v.prev = w.prev /\ v.prevReady = w.prevReady
<1>1. /\ v \in DevType /\ v.map = m /\ v.state = w.state /\ v.retry = w.retry
      /\ v.prev = w.prev /\ v.prevReady = w.prevReady /\ v.track = w.track
      /\ v.file = w.file
  BY DEF DevSound, DevType
<1> QED
  BY <1>1 DEF DevSound, MountSound, LoggerSound

LEMMA RenderKeepsInv ==
    ASSUME IInv, Render \/ NoRender
    PROVE  IInv'
<1>1. DevSound(dev) /\ GivenUp(dev)
  BY DEF IInv, Noticed
<1>2. at = "render" /\ at' = "poll" /\ UNCHANGED <<env, supply, held>>
  BY DEF Render, NoRender
<1>3. DevSound(dev') /\ GivenUp(dev')
  <2>1. CASE dev' = dev
    BY <1>1, <2>1
  <2>2. CASE dev' \in Try(dev, dev.map, dev, dev)
    <3>1. LoggerStep(dev, dev)
      BY <1>1 DEF LoggerStep, SameMount
    <3>2. LoggerStep(dev, dev')
      BY <2>2, <3>1, TryStep
    <3> QED
      BY <1>1, <3>2 DEF LoggerStep, SameMount, GivenUp
  <2> DEFINE m == IF dev.state = "READY" THEN "broken" ELSE "absent"
             opened == [dev EXCEPT !.map = "live"]
             missing == [dev EXCEPT !.map = m]
  <2>3. CASE dev' \in Try(dev, Volume(dev), opened, missing)
    <3>1. "live" \in Maps /\ m \in Maps /\ (dev.state = "READY" => m = "broken")
      BY DEF Maps
    <3> HIDE DEF m
    <3>2. /\ DevSound(opened) /\ opened.state = dev.state /\ opened.retry = dev.retry
          /\ opened.prev = dev.prev /\ opened.prevReady = dev.prevReady
      BY <1>1, <3>1, MapSet
    <3>3. /\ DevSound(missing) /\ missing.state = dev.state /\ missing.retry = dev.retry
          /\ missing.prev = dev.prev /\ missing.prevReady = dev.prevReady
      BY <1>1, <3>1, MapSet
    <3> HIDE DEF opened, missing
    <3>4. LoggerStep(missing, Failed(missing, Volume(dev)))
      BY <3>3, FailedStep
    <3>5. dev' = opened \/ dev' = Failed(missing, Volume(dev))
      BY <2>3 DEF Try
    <3>6. CASE dev' = opened
      BY <1>1, <3>2, <3>6 DEF GivenUp
    <3>7. CASE dev' = Failed(missing, Volume(dev))
      BY <1>1, <3>3, <3>4, <3>7 DEF LoggerStep, SameMount, GivenUp
    <3> QED
      BY <3>5, <3>6, <3>7
  <2>4. dev.map \in Maps
    BY <1>1 DEF DevSound, DevType
  <2>5. \/ dev' = dev
        \/ dev' \in Try(dev, dev.map, dev, dev)
        \/ dev' \in Try(dev, Volume(dev), opened, missing)
    BY <2>4 DEF Render, NoRender, Maps
  <2> QED
    BY <2>1, <2>2, <2>3, <2>5
<1> QED
  BY <1>2, <1>3, UserStepKeepsInv

LEMMA PollKeepsInv ==
    ASSUME IInv, Poll \/ NoPoll
    PROVE  IInv'
<1>1. DevSound(dev) /\ GivenUp(dev)
  BY DEF IInv, Noticed
<1>2. \E w : Polled(w) /\ dev' = SeenByLoop(w)
  <2>1. CASE Poll
    BY <1>1, <2>1, SdPollStep DEF Poll
  <2>2. CASE NoPoll
    <3>1. Polled(dev)
      BY <1>1 DEF Polled, DevSound, MountSound
    <3> QED
      BY <2>2, <3>1 DEF NoPoll
  <2> QED
    BY <2>1, <2>2
<1>3. DevSound(dev') /\ GivenUp(dev') /\ (dev'.prevReady => dev'.state = "READY")
  BY <1>2, SeenStep
<1>4. env' \in EnvType
  BY DEF IInv, Poll, NoPoll, EnvType, Cards
<1>5. at' = "wait" /\ UNCHANGED <<supply, held>>
  BY DEF Poll, NoPoll
<1> QED
  BY <1>3, <1>4, <1>5 DEF IInv, Counted, Noticed, SupplyType, HeldType

LEMMA ElapseKeepsInv ==
    ASSUME IInv, NEW d \in 1..MaxPass, Elapse(d)
    PROVE  IInv' /\ supply'.blocked = supply.blocked
<1> DEFINE p == IF supply.pending = NotPending THEN NotPending ELSE Later(supply.pending, d)
           a == Later(held.age, d)
           r == IF dev.retry = NotArmed THEN NotArmed ELSE Earlier(dev.retry, d)
<1>1. /\ at = "wait" /\ at' = "supply" /\ UNCHANGED env
      /\ supply' = [supply EXCEPT !.pending = p]
      /\ held' = [held EXCEPT !.age = a]
      /\ dev' = [dev EXCEPT !.retry = r]
  BY DEF Elapse
<1>2. /\ supply.pending \in {NotPending} \cup (0..RECOVER) /\ held.age \in 0..RECOVER
      /\ dev.retry \in {NotArmed} \cup (0..SD_RETRY_PERIOD)
      /\ RECOVER \in Nat /\ SD_RETRY_PERIOD \in Nat /\ d \in Nat
      /\ NotPending = -1 /\ NotArmed = -1
  BY StorageAssumption
     DEF IInv, SupplyType, HeldType, DevSound, DevType, Retries, NotPending, NotArmed
<1>3. /\ p \in {NotPending} \cup (0..RECOVER) /\ a \in 0..RECOVER
      /\ p = NotPending <=> supply.pending = NotPending
      /\ supply.pending # NotPending /\ held.age >= supply.pending => a >= p
  BY <1>2 DEF Later
<1>4. r \in Retries /\ (r = NotArmed <=> dev.retry = NotArmed)
  BY <1>2 DEF Earlier, Retries
<1> HIDE DEF p, a, r
<1>5. /\ supply' \in SupplyType /\ supply'.pending = p /\ supply'.blocked = supply.blocked
  BY <1>1, <1>3 DEF IInv, SupplyType
<1>6. held' \in HeldType /\ held'.age = a /\ held'.low = held.low
  BY <1>1, <1>3 DEF IInv, HeldType
<1>7. /\ dev' \in DevType /\ dev'.retry = r /\ dev'.state = dev.state
      /\ dev'.prev = dev.prev /\ dev'.prevReady = dev.prevReady /\ dev'.map = dev.map
      /\ dev'.track = dev.track /\ dev'.file = dev.file
  BY <1>1, <1>4 DEF IInv, DevSound, DevType
<1>8. DevSound(dev')
  BY <1>4, <1>7 DEF IInv, DevSound, MountSound, LoggerSound
<1>9. dev.prevReady => dev.state = "READY"
  BY <1>1 DEF IInv, Noticed
<1>10. Noticed'
  BY <1>7, <1>9 DEF Noticed, GivenUp
<1>11. Counted'
  BY <1>3, <1>5, <1>6 DEF IInv, Counted
<1> QED
  BY <1>1, <1>5, <1>6, <1>8, <1>10, <1>11 DEF IInv, EnvType

LEMMA SurroundingsKeepInv ==
    ASSUME IInv, VddChanges \/ BatteryChanges \/ CardChanges
    PROVE  IInv' /\ UNCHANGED supply
<1>1. UNCHANGED <<at, supply, dev, held>>
  BY DEF VddChanges, BatteryChanges, CardChanges, Surroundings
<1>2. env' \in EnvType
  <2>1. CASE VddChanges
    <3>1. (~ env.vddLow) \in BOOLEAN
      OBVIOUS
    <3> QED
      BY <2>1, <3>1 DEF IInv, VddChanges, Surroundings, EnvType
  <2>2. CASE BatteryChanges
    BY <2>2 DEF IInv, BatteryChanges, Surroundings, EnvType
  <2>3. CASE CardChanges
    <3>1. PICK c \in Cards : env' = [env EXCEPT !.card = c]
      BY <2>3 DEF IInv, CardChanges, Surroundings, EnvType, Cards
    <3> QED
      BY <3>1 DEF IInv, EnvType
  <2> QED
    BY <2>1, <2>2, <2>3
<1> QED
  BY <1>1, <1>2 DEF IInv, Counted, Noticed, SupplyType, HeldType

LEMMA StutterKeepsInv ==
    ASSUME IInv, UNCHANGED vars
    PROVE  IInv'
BY DEF vars, IInv, Counted, Noticed, EnvType, SupplyType, HeldType

LEMMA StepKeepsInv ==
    ASSUME IInv, [Next]_vars
    PROVE  IInv'
BY SupplyTickKeepsInv, ServiceKeepsInv, RenderKeepsInv, PollKeepsInv, ElapseKeepsInv,
   SurroundingsKeepInv, StutterKeepsInv DEF Next, Loop

\* The switch of the supply moves at a tick only.
LEMMA OnlyTickSwitches ==
    ASSUME IInv, [Next]_vars, supply'.blocked # supply.blocked
    PROVE  SupplyTick
<1>1. CASE UNCHANGED vars
  BY <1>1 DEF vars
<1>2. CASE Loop
  BY <1>2, ElapseKeepsInv DEF Loop, Service, NoService, Render, NoRender, Poll, NoPoll
<1>3. CASE VddChanges \/ BatteryChanges \/ CardChanges
  BY <1>3, SurroundingsKeepInv
<1> QED
  BY <1>1, <1>2, <1>3 DEF Next

----------------------------------------------------------------------------
(* The theorems.                                                           *)

\* Types, and: a card that could not be mounted always has its next try armed and a
\* mounted one has none; the logger holds a file exactly while it records.
THEOREM StorageTypes == Spec => []TypeOK
<1>1. IInv /\ [Next]_vars => IInv'
  BY StepKeepsInv
<1>2. IInv => TypeOK
  BY InvImpliesTypes
<1> QED
  BY <1>1, <1>2, InitInv, PTL DEF Spec

\* purrgo_map_shutdown after a mount (main loop): a frame that is drawn with a mounted
\* card never uses a file of an earlier mount, nor what was found missing when there was
\* no card, however the card is pulled, dies or loses its supply between two looks.
THEOREM StorageDrawsThisMount == Spec => []MapFilesOfThisMount
<1>1. IInv /\ [Next]_vars => IInv'
  BY StepKeepsInv
<1>2. IInv => MapFilesOfThisMount
  BY DEF IInv, DevSound, MountSound, MapFilesOfThisMount
<1> QED
  BY <1>1, <1>2, InitInv, PTL DEF Spec

\* purrgo_supply_tick: writing is blocked only by a supply that was low at every tick of
\* the confirmation time, and allowed again only after as long a normal one.
THEOREM StorageDebouncesSupply == Spec => SupplyDebounced
<1>1. IInv /\ [Next]_vars => IInv'
  BY StepKeepsInv
<1>2. IInv /\ [Next]_vars
         => [supply'.blocked # supply.blocked =>
               /\ held'.low = supply'.blocked
               /\ held'.age >= (IF supply'.blocked THEN LOW_CONFIRM ELSE RECOVER)]_vars
  BY OnlyTickSwitches, SwitchStep
<1> QED
  BY <1>1, <1>2, InitInv, PTL DEF SupplyDebounced, Spec

\* storage_stop: when the supply fails, the card is given up with nothing open on it, and
\* a recording on a card that still works gets its footer first.
THEOREM StorageStopsInOrder == Spec => StopsInOrder
<1>1. IInv /\ [Next]_vars => IInv'
  BY StepKeepsInv
<1>2. IInv /\ [Next]_vars
         => [~ supply.blocked /\ supply'.blocked =>
               /\ dev'.state # "READY" /\ dev'.file = "none" /\ dev'.map = "closed"
               /\ dev.track = "RECORDING" /\ Works(dev, dev.file) /\ env.card = "up" =>
                     dev'.trackEnd = "footer"]_vars
  <2> SUFFICES ASSUME IInv, [Next]_vars, ~ supply.blocked, supply'.blocked
               PROVE  /\ dev'.state # "READY" /\ dev'.file = "none" /\ dev'.map = "closed"
                      /\ dev.track = "RECORDING" /\ Works(dev, dev.file)
                            /\ env.card = "up" => dev'.trackEnd = "footer"
    OBVIOUS
  <2>1. SupplyTick
    BY OnlyTickSwitches
  <2> QED
    BY <2>1, SupplyTickKeepsInv
<1> QED
  BY <1>1, <1>2, InitInv, PTL DEF StopsInOrder, Spec
=============================================================================
