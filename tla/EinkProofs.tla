----------------------------- MODULE EinkProofs -----------------------------
(***************************************************************************)
(* Theorems about Eink, for every number of rows and colours: types, and   *)
(* every safety and action property that its run checks.                   *)
(*                                                                         *)
(* A state is the driver and the library below it, as in the operators of  *)
(* Eink, and its invariant has three parts:                                *)
(*   Sound(s)      the driver knows the mode and the sleep of the panel,   *)
(*                 its operation is the library's job, and a request lives *)
(*                 until the operation that serves it has been begun;      *)
(*   Shows(s, f)   in the loop: every row shows f, or is asked for, or is  *)
(*                 being sent, and what the driver takes to be on a gray   *)
(*                 panel is on it;                                         *)
(*   Leaves(s, f)  in a power off: the last picture is asked for, or being *)
(*                 sent, or there.                                         *)
(* One lemma for each way to end an operation and for each way to begin    *)
(* the next says that they keep these (Keeps); PollKeeps puts them         *)
(* together as poll_core does.                                             *)
(***************************************************************************)
EXTENDS Eink, TLAPS

Jobs == {"init", "full", "partial", "sleep"}
Kinds == {"none", "off"} \cup Jobs

DrvType ==
    [target : Modes, full : BOOLEAN, region : SUBSET Rows, hw : Modes \cup {"off"},
     asleep : BOOLEAN, img : Modes \cup {"none"}, op : {"none"} \cup Jobs, opMode : Modes,
     retry : {"none", "wait"}, prev : Frames]
JobType ==
    [kind : Kinds, mode : Modes, rows : SUBSET Rows, phase : {"none", "data", "wave", "resync"}]
LibType ==
    [job : JobType, mode : Modes \cup {"none"}, asleep : BOOLEAN, live : BOOLEAN,
     result : {"ok", "failed"}, glass : [Rows -> Colours \cup {Unclear}]]

States == [drv : DrvType, lib : LibType]

\* The job of the library is the operation of the driver, or the library's own.
JobIsOp(s) ==
    /\ s.drv.op # "none" => s.lib.job.kind = s.drv.op
    /\ s.drv.op = "none" => s.lib.job.kind \in {"none", "off"}

\* An update sends rows, a partial one in one bit twice; nothing else does.
Phased(s) ==
    LET job == s.lib.job
    IN  /\ job.kind = "none" <=> job.phase = "none"
        /\ job.kind \in {"off", "init", "sleep"} => job.phase = "wave" /\ job.rows = {}
        /\ job.kind = "full" => job.rows = Rows /\ job.phase # "resync"
        /\ job.kind = "partial" => \/ job.mode = "mono" /\ job.rows # {}
                                   \/ job.mode = "gray" /\ job.phase # "resync"

\* The driver knows in which mode the panel is, and whether it sleeps; a partial
\* update in one bit wakes it at its end.
Agrees(s) ==
    /\ s.drv.hw # "off" => s.lib.mode = s.drv.hw
    /\ s.drv.hw = "mono" \/ ~ s.drv.asleep
    /\ s.drv.hw # "off" /\ s.drv.op # "partial" => s.lib.asleep = s.drv.asleep

\* What an operation was begun with is still so.
Operated(s) ==
    LET d == s.drv IN
    /\ d.op \in {"full", "partial"} =>
          /\ s.lib.job.mode = d.img /\ d.hw = d.img /\ ~ d.asleep
          /\ d.op = "partial" /\ d.img = "gray" => ~ s.lib.asleep
    /\ d.op = "init" => s.lib.job.mode = d.opMode
    /\ d.op = "sleep" => d.hw # "off"

\* What is asked for and what the panel shows: a request is not forgotten before the
\* first picture, and a change of mode asks for a whole picture.
Asked(d) ==
    /\ d.op = "init" \/ (d.hw # "off" /\ d.img = "none") => RequestPending(d)
    /\ d.img # "none" /\ ~ d.full => d.img = d.target
    /\ d.img = "mono" /\ ~ d.full => d.hw = "mono" /\ d.op # "init"

Sound(s) ==
    /\ s \in States /\ s.lib.result = "ok"
    /\ JobIsOp(s) /\ Phased(s) /\ Agrees(s) /\ Operated(s) /\ Asked(s.drv)

\* The rows of f that are still being sent.
Sending(s) == s.drv.op \in {"full", "partial"} /\ s.lib.job.phase = "data"

\* Every row that is neither asked for nor being sent shows f.
Covered(s, f) ==
    s.drv.img # "none" /\ ~ s.drv.full =>
        \A r \in Rows \ s.drv.region :
            s.lib.glass[r] = f[r] \/ (Sending(s) /\ r \in s.lib.job.rows)

\* What the driver takes to be on a gray panel is there, or on its way.
Known(s, f) ==
    s.drv.img = "gray" =>
        IF Sending(s)
        THEN s.drv.prev = f /\ \A r \in Rows \ s.lib.job.rows : s.lib.glass[r] = f[r]
        ELSE s.lib.glass = s.drv.prev

Shows(s, f) == Covered(s, f) /\ Known(s, f)

\* Power off: its picture is asked for, or being sent, or there.
Leaves(s, f) ==
    /\ s.drv.target = "gray"
    /\ ~ s.drv.full =>
          /\ s.drv.region = {} /\ s.drv.img = "gray" /\ s.drv.hw = "gray"
          /\ s.drv.op \in {"none", "full"}
          /\ s.lib.glass = f \/ Sending(s)

\* In standby the driver may be wrong about a panel that did not answer when it was put
\* to sleep; the next start begins anew.
Standing(s) ==
    /\ s \in States /\ s.drv.op = "none" /\ ~ Busy(s.lib)
    /\ s.drv.asleep => s.drv.hw = "mono"

Now == [drv |-> drv, lib |-> lib]

IInv ==
    /\ fb \in Frames
    /\ ui \in [screen : Screens, shown : Screens, stale : SUBSET Rows]
    /\ at \in {"boot", "run", "wait", "waited", "dropped", "standby"}
    /\ panel \in {"good", "bad"}
    /\ IF at = "standby" THEN Standing(Now) ELSE Sound(Now)
    /\ Looping => Shows(Now, fb)
    /\ at \in {"wait", "waited"} => Leaves(Now, fb)
    /\ at \in {"waited", "dropped", "standby"} => drv.op = "none"
    /\ at = "waited" => ~ drv.full
    /\ at = "dropped" => drv.hw = "off"

----------------------------------------------------------------------------
(* The library.                                                            *)

LEMMA NoJobType == NoJob \in JobType
BY DEF NoJob, JobType, Kinds, Modes

LEMMA CutShortLib ==
    ASSUME NEW p \in LibType
    PROVE  CutShort(p) \in LibType /\ CutShort(p).mode = p.mode
<1>1. [r \in Rows |-> IF r \in p.job.rows THEN Unclear ELSE p.glass[r]]
         \in [Rows -> Colours \cup {Unclear}]
  BY DEF LibType
<1> QED
  BY <1>1 DEF CutShort, Blurred, LibType

LEMMA AbortedLib ==
    ASSUME NEW p \in LibType
    PROVE  /\ Aborted(p) \in LibType /\ Aborted(p).job = NoJob /\ Aborted(p).result = "ok"
           /\ Aborted(p).mode = "none" /\ ~ Aborted(p).asleep
<1>1. CutShort(p).glass \in [Rows -> Colours \cup {Unclear}]
  BY CutShortLib DEF LibType
<1> QED
  BY <1>1, NoJobType DEF Aborted, Unpowered, LibType

LEMMA StartedLib ==
    ASSUME NEW p \in LibType, NEW kind \in Kinds, NEW mode \in Modes, NEW rows \in SUBSET Rows
    PROVE  LET q == Started(p, kind, mode, rows) IN
           /\ q \in LibType
           /\ q.job.kind = kind /\ q.job.mode = mode /\ q.job.rows = rows
           /\ rows = {} => q.job.phase = "wave"
           /\ rows # {} => q.job.phase = "data"
           /\ q.mode = p.mode /\ q.asleep = p.asleep /\ q.live = p.live
           /\ q.result = p.result /\ q.glass = p.glass
BY DEF Started, LibType, JobType

LEMMA FinishedLib ==
    ASSUME NEW p \in LibType, Busy(p)
    PROVE  LET q == Finished(p) IN
           /\ q \in LibType /\ q.job = NoJob /\ q.glass = p.glass
           /\ q.result = IF p.job.kind = "off" THEN p.result ELSE "ok"
           /\ p.job.kind = "init" => q.mode = p.job.mode /\ ~ q.asleep
           /\ p.job.kind = "sleep" => IF p.mode = "gray"
                                      THEN q.mode = "none" /\ q.asleep = p.asleep
                                      ELSE q.mode = p.mode /\ q.asleep
           /\ p.job.kind \in {"full", "partial", "off"} => q.mode = p.mode
           /\ p.job.kind \in {"full", "off"} => q.asleep = p.asleep
           /\ p.job.kind = "partial" => q.asleep = (p.asleep /\ p.job.rows = {})
           /\ p.job.kind = "off" \/ (p.job.kind = "sleep" /\ p.mode = "gray") => ~ q.live
<1> DEFINE q0 == [p EXCEPT !.job = NoJob,
                           !.result = IF p.job.kind = "off" THEN @ ELSE "ok"]
<1>1. /\ q0 \in LibType /\ q0.job = NoJob /\ q0.glass = p.glass /\ q0.mode = p.mode
      /\ q0.asleep = p.asleep /\ q0.live = p.live
      /\ q0.result = IF p.job.kind = "off" THEN p.result ELSE "ok"
  BY NoJobType DEF LibType
<1>2. p.job.kind \in {"off", "init", "full", "partial", "sleep"} /\ p.job.mode \in Modes
  BY DEF LibType, JobType, Kinds, Jobs, Busy
<1>3. Finished(p) = CASE p.job.kind = "init" ->
                           [q0 EXCEPT !.mode = p.job.mode, !.asleep = FALSE, !.live = TRUE]
                      [] p.job.kind = "full" -> [q0 EXCEPT !.live = TRUE]
                      [] p.job.kind = "partial" ->
                           IF p.job.rows = {} THEN q0
                           ELSE [q0 EXCEPT !.asleep = FALSE, !.live = TRUE]
                      [] p.job.kind = "off" -> [q0 EXCEPT !.live = FALSE]
                      [] p.job.kind = "sleep" ->
                           IF p.mode = "gray" THEN [q0 EXCEPT !.mode = "none", !.live = FALSE]
                           ELSE [q0 EXCEPT !.asleep = TRUE, !.live = FALSE]
  BY DEF Finished
<1> HIDE DEF q0
<1>4. CASE p.job.kind = "init"
  BY <1>1, <1>2, <1>3, <1>4 DEF LibType
<1>5. CASE p.job.kind = "full"
  BY <1>1, <1>2, <1>3, <1>5 DEF LibType
<1>6. CASE p.job.kind = "partial"
  BY <1>1, <1>2, <1>3, <1>6 DEF LibType
<1>7. CASE p.job.kind = "off"
  BY <1>1, <1>2, <1>3, <1>7 DEF LibType
<1>8. CASE p.job.kind = "sleep"
  BY <1>1, <1>2, <1>3, <1>8, ZenonT(40) DEF LibType
<1> QED
  BY <1>2, <1>4, <1>5, <1>6, <1>7, <1>8

\* A job that times out leaves an error and no job.
LEMMA TimedOutLib ==
    ASSUME NEW p \in LibType, p.job.kind # "off"
    PROVE  /\ TimedOut(p) \in LibType /\ TimedOut(p).job = NoJob
           /\ TimedOut(p).result = "failed"
           /\ p.job.rows = {} => TimedOut(p).glass = p.glass
<1>1. CutShort(p) \in LibType
  BY CutShortLib
<1>2. /\ TimedOut(p) \in LibType /\ TimedOut(p).job = NoJob
      /\ TimedOut(p).result = "failed" /\ TimedOut(p).glass = CutShort(p).glass
  BY <1>1, NoJobType DEF TimedOut, LibType
<1>3. ASSUME p.job.rows = {} PROVE CutShort(p).glass = p.glass
  <2>1. p.glass = [r \in Rows |-> p.glass[r]]
    BY DEF LibType
  <2>2. [r \in Rows |-> IF r \in p.job.rows THEN Unclear ELSE p.glass[r]]
           = [r \in Rows |-> p.glass[r]]
    BY <1>3
  <2>3. [p EXCEPT !.glass = p.glass].glass = p.glass
    BY DEF LibType
  <2>4. Blurred(p) = [p EXCEPT !.glass = p.glass]
    BY <2>1, <2>2 DEF Blurred
  <2> QED
    BY <2>3, <2>4 DEF CutShort
<1> QED
  BY <1>2, <1>3

\* What the glass shows at the end of the next phase.
LEMMA AdvancedLib ==
    ASSUME NEW p \in LibType, NEW f \in Frames, Busy(p)
    PROVE  LET q == Advanced(p, f)
               resync == p.job.kind = "partial" /\ p.job.mode = "mono"
               shown == [r \in Rows |-> IF r \in p.job.rows THEN f[r] ELSE p.glass[r]]
               kept == [p EXCEPT !.glass =
                            [r \in Rows |-> IF shown[r] = @[r] THEN @[r] ELSE Unclear]]
           IN
           /\ p.job.phase = "data" =>
                 /\ q \in LibType /\ q.job = [p.job EXCEPT !.phase = "wave"]
                 /\ q.mode = p.mode /\ q.asleep = p.asleep /\ q.result = p.result
                 /\ \A r \in Rows : q.glass[r] = IF r \in p.job.rows THEN f[r] ELSE p.glass[r]
           /\ p.job.phase = "wave" /\ resync =>
                 /\ q \in LibType /\ q.job = [p.job EXCEPT !.phase = "resync"]
                 /\ q.mode = p.mode /\ q.asleep = p.asleep /\ q.result = p.result
                 /\ q.glass = p.glass
           /\ p.job.phase = "wave" /\ ~ resync => q = Finished(p)
           /\ p.job.phase = "resync" =>
                 /\ q = Finished(kept) /\ kept \in LibType /\ kept.job = p.job
                 /\ kept.mode = p.mode /\ kept.asleep = p.asleep
                 /\ \A r \in Rows : r \notin p.job.rows \/ p.glass[r] = f[r] =>
                        kept.glass[r] = p.glass[r]
<1> DEFINE shown == [r \in Rows |-> IF r \in p.job.rows THEN f[r] ELSE p.glass[r]]
           same == [r \in Rows |-> IF shown[r] = p.glass[r] THEN p.glass[r] ELSE Unclear]
<1>1. shown \in [Rows -> Colours \cup {Unclear}] /\ same \in [Rows -> Colours \cup {Unclear}]
  BY DEF LibType, Frames
<1>2. \A r \in Rows : r \notin p.job.rows \/ p.glass[r] = f[r] => same[r] = p.glass[r]
  OBVIOUS
<1>3. \A r \in Rows : shown[r] = IF r \in p.job.rows THEN f[r] ELSE p.glass[r]
  OBVIOUS
<1>4. p.job \in JobType
  BY DEF LibType
<1>5. CASE p.job.phase = "data"
  <2>1. Advanced(p, f) = [p EXCEPT !.job.phase = "wave", !.glass = shown]
    BY <1>5 DEF Advanced
  <2> HIDE DEF shown, same
  <2>2. [p.job EXCEPT !.phase = "wave"] \in JobType
    BY <1>4 DEF JobType
  <2>3. /\ Advanced(p, f) \in LibType
        /\ Advanced(p, f).job = [p.job EXCEPT !.phase = "wave"]
        /\ Advanced(p, f).mode = p.mode /\ Advanced(p, f).asleep = p.asleep
        /\ Advanced(p, f).result = p.result /\ Advanced(p, f).glass = shown
    BY <1>1, <2>1, <2>2 DEF LibType
  <2>4. \A r \in Rows :
           Advanced(p, f).glass[r] = IF r \in p.job.rows THEN f[r] ELSE p.glass[r]
    BY <1>3, <2>3
  <2> QED
    BY <1>5, <2>3, <2>4, Zenon
<1>6. CASE p.job.phase = "wave" /\ p.job.kind = "partial" /\ p.job.mode = "mono"
  <2>1. Advanced(p, f) = [p EXCEPT !.job.phase = "resync"]
    BY <1>6 DEF Advanced
  <2>2. [p.job EXCEPT !.phase = "resync"] \in JobType
    BY <1>4 DEF JobType
  <2>3. /\ Advanced(p, f) \in LibType
        /\ Advanced(p, f).job = [p.job EXCEPT !.phase = "resync"]
        /\ Advanced(p, f).mode = p.mode /\ Advanced(p, f).asleep = p.asleep
        /\ Advanced(p, f).result = p.result /\ Advanced(p, f).glass = p.glass
    BY <2>1, <2>2 DEF LibType
  <2> QED
    BY <1>6, <2>3
<1>7. CASE p.job.phase = "wave" /\ ~ (p.job.kind = "partial" /\ p.job.mode = "mono")
  BY <1>7 DEF Advanced
<1>8. CASE p.job.phase = "resync"
  <2>1. Advanced(p, f) = Finished([p EXCEPT !.glass = same])
    BY <1>8 DEF Advanced
  <2>2. [p EXCEPT !.glass = same] =
           [p EXCEPT !.glass = [r \in Rows |-> IF shown[r] = @[r] THEN @[r] ELSE Unclear]]
    OBVIOUS
  <2> DEFINE kept == [p EXCEPT !.glass = same]
  <2>3. /\ kept \in LibType /\ kept.job = p.job /\ kept.mode = p.mode
        /\ kept.asleep = p.asleep /\ kept.glass = same
    <3> HIDE DEF same
    <3> QED
      BY <1>1 DEF LibType
  <2> QED
    BY <1>2, <1>8, <2>1, <2>2, <2>3
<1> QED
  BY <1>5, <1>6, <1>7, <1>8

----------------------------------------------------------------------------
(* The end of an operation.                                                *)

Idle(s) == Sound(s) /\ s.drv.op = "none" /\ ~ Busy(s.lib)

\* From s to t nothing is lost of what the panel shows, or is to show, of f.
Keeps(s, t, f) ==
    /\ Sound(t)
    /\ Shows(s, f) => Shows(t, f)
    /\ Leaves(s, f) => Leaves(t, f)

LEMMA KeepsOn ==
    ASSUME NEW f, NEW s, NEW t, NEW u, Keeps(s, t, f), Keeps(t, u, f)
    PROVE  Keeps(s, u, f)
BY DEF Keeps

LEMMA BlankFrame == Blank \in Frames
BY EinkAssumption DEF Blank, Frames

\* After an error the driver counts on nothing.
LEMMA FailedIsIdle ==
    ASSUME NEW s \in States, NEW f
    PROVE  LET t == OpFailed(s) IN
           /\ Idle(t) /\ Shows(t, f)
           /\ t.drv.img = "none" /\ t.drv.hw = "off" /\ t.drv.retry = "wait"
           /\ t.lib.job = NoJob
           /\ s.drv.target = "gray" /\ (s.drv.full \/ s.drv.op = "full") => Leaves(t, f)
<1> DEFINE t == OpFailed(s)
           d == [s.drv EXCEPT !.op = "none", !.opMode = "gray", !.hw = "off", !.asleep = FALSE,
                              !.img = "none", !.prev = Blank,
                              !.full = @ \/ s.drv.op \in {"full", "partial"}, !.retry = "wait"]
<1>1. t.drv = d /\ t.lib = Aborted(s.lib) /\ t = [drv |-> t.drv, lib |-> t.lib]
  BY DEF OpFailed
<1>2. /\ d \in DrvType /\ d.op = "none" /\ d.hw = "off" /\ ~ d.asleep /\ d.img = "none"
      /\ d.retry = "wait" /\ d.target = s.drv.target
      /\ s.drv.full \/ s.drv.op = "full" => d.full
  BY BlankFrame, ZenonT(40) DEF DrvType, States, Modes
<1>3. /\ t.lib \in LibType /\ t.lib.job = NoJob /\ t.lib.result = "ok"
      /\ t.lib.mode = "none" /\ ~ t.lib.asleep
  BY <1>1, AbortedLib DEF States
<1> HIDE DEF t, d
<1>4. t \in States
  BY <1>1, <1>2, <1>3 DEF States
<1>5. JobIsOp(t) /\ Phased(t) /\ Agrees(t) /\ Operated(t) /\ Asked(t.drv)
  BY <1>1, <1>2, <1>3 DEF JobIsOp, Phased, Agrees, Operated, Asked, NoJob
<1>6. Idle(t)
  BY <1>1, <1>2, <1>3, <1>4, <1>5 DEF Idle, Sound, Busy, NoJob
<1>7. Shows(t, f)
  BY <1>1, <1>2 DEF Shows, Covered, Known
<1>8. s.drv.target = "gray" /\ (s.drv.full \/ s.drv.op = "full") => Leaves(t, f)
  BY <1>1, <1>2 DEF Leaves
<1> QED
  BY <1>1, <1>2, <1>3, <1>6, <1>7, <1>8 DEF t

\* An operation that ended well, with the library and the panel at q.
LEMMA EndedWell ==
    ASSUME NEW s, Sound(s), s.drv.op # "none",
           NEW k \in LibType, k.job = s.lib.job, k.mode = s.lib.mode,
           k.asleep = s.lib.asleep
    PROVE  LET q == Finished(k)
               t == OpDone([drv |-> s.drv, lib |-> q])
           IN  /\ Idle(t) /\ t.lib = q /\ t.lib.job = NoJob /\ t.lib.glass = k.glass
               /\ t.drv.target = s.drv.target /\ t.drv.full = s.drv.full
               /\ t.drv.region = s.drv.region /\ t.drv.img = s.drv.img
               /\ t.drv.prev = s.drv.prev /\ t.drv.retry = s.drv.retry
               /\ s.drv.op = "full" => t.drv.hw = s.drv.hw
<1> DEFINE q == Finished(k)
           t == OpDone([drv |-> s.drv, lib |-> q])
           d == [s.drv EXCEPT !.op = "none", !.opMode = "gray"]
           e == IF s.drv.op = "init" THEN [d EXCEPT !.hw = s.drv.opMode, !.asleep = FALSE]
                ELSE IF s.drv.op = "sleep"
                     THEN IF d.hw = "gray" THEN [d EXCEPT !.hw = "off"]
                          ELSE [d EXCEPT !.asleep = TRUE]
                     ELSE d
<1>1. /\ s \in States /\ s.drv \in DrvType /\ s.lib \in LibType
      /\ s.drv.op \in Jobs /\ s.lib.job.kind = s.drv.op
  BY DEF Sound, States, JobIsOp, DrvType
<1>2. k.job.kind = s.drv.op /\ Busy(k)
  BY <1>1 DEF Busy
<1>3. /\ q \in LibType /\ q.job = NoJob /\ q.glass = k.glass
      /\ q.result = IF k.job.kind = "off" THEN k.result ELSE "ok"
      /\ k.job.kind = "init" => q.mode = k.job.mode /\ ~ q.asleep
      /\ k.job.kind = "sleep" => IF k.mode = "gray"
                                 THEN q.mode = "none" /\ q.asleep = k.asleep
                                 ELSE q.mode = k.mode /\ q.asleep
      /\ k.job.kind \in {"full", "partial", "off"} => q.mode = k.mode
      /\ k.job.kind \in {"full", "off"} => q.asleep = k.asleep
      /\ k.job.kind = "partial" => q.asleep = (k.asleep /\ k.job.rows = {})
  BY <1>2, FinishedLib
<1>4. q.result = "ok" /\ NoJob.kind = "none" /\ NoJob.phase = "none"
  BY <1>1, <1>2, <1>3 DEF Jobs, NoJob
<1>5. /\ d \in DrvType /\ d.op = "none"
      /\ d.target = s.drv.target /\ d.full = s.drv.full /\ d.region = s.drv.region
      /\ d.img = s.drv.img /\ d.prev = s.drv.prev /\ d.retry = s.drv.retry
      /\ d.hw = s.drv.hw /\ d.asleep = s.drv.asleep
  BY <1>1 DEF DrvType, Modes
<1> HIDE DEF d
<1>6. /\ e \in DrvType /\ e.op = "none"
      /\ e.target = s.drv.target /\ e.full = s.drv.full /\ e.region = s.drv.region
      /\ e.img = s.drv.img /\ e.prev = s.drv.prev /\ e.retry = s.drv.retry
      /\ s.drv.op = "init" => e.hw = s.drv.opMode /\ ~ e.asleep
      /\ s.drv.op = "sleep" => IF s.drv.hw = "gray" THEN e.hw = "off" /\ e.asleep = s.drv.asleep
                               ELSE e.hw = s.drv.hw /\ e.asleep
      /\ s.drv.op \in {"full", "partial"} => e.hw = s.drv.hw /\ e.asleep = s.drv.asleep
      /\ s.drv.op = "init" => e.hw \in Modes
  BY <1>1, <1>5 DEF DrvType
<1> HIDE DEF q
<1>7. t.drv = e /\ t.lib = q /\ t = [drv |-> t.drv, lib |-> t.lib]
  BY <1>1, <1>4 DEF OpDone, d, Jobs
<1> HIDE DEF t, e
<1>8. t \in States
  BY <1>3, <1>6, <1>7 DEF States
<1>8a. /\ q.asleep \in BOOLEAN /\ e.asleep \in BOOLEAN /\ s.drv.asleep \in BOOLEAN
       /\ s.lib.asleep \in BOOLEAN /\ k.asleep \in BOOLEAN
  BY <1>1, <1>3, <1>6 DEF DrvType, LibType
<1>9. Agrees(t)
  <2>1. CASE s.drv.op = "init"
    BY <1>2, <1>3, <1>6, <1>7, <1>8a, <2>1 DEF Sound, Operated, Agrees, Modes
  <2>2. CASE s.drv.op = "sleep"
    BY <1>1, <1>2, <1>3, <1>6, <1>7, <1>8a, <2>2 DEF Sound, Operated, Agrees, Modes, DrvType
  <2>3. CASE s.drv.op = "full"
    BY <1>2, <1>3, <1>6, <1>7, <1>8a, <2>3 DEF Sound, Agrees
  <2>4. CASE s.drv.op = "partial"
    BY <1>1, <1>2, <1>3, <1>6, <1>7, <1>8a, <2>4
       DEF Sound, Agrees, Operated, Phased, LibType, JobType, Modes
  <2> QED
    BY <1>1, <2>1, <2>2, <2>3, <2>4 DEF Jobs
<1>10. Asked(t.drv)
  <2>1. Asked(s.drv) /\ Operated(s) /\ Agrees(s)
    BY DEF Sound
  <2>2. CASE s.drv.op = "init"
    BY <1>6, <1>7, <2>1, <2>2 DEF Asked, RequestPending
  <2>3. CASE s.drv.op = "sleep"
    BY <1>6, <1>7, <2>1, <2>3 DEF Asked, RequestPending, Operated
  <2>4. CASE s.drv.op \in {"full", "partial"}
    BY <1>6, <1>7, <2>1, <2>4 DEF Asked, RequestPending
  <2> QED
    BY <1>1, <2>2, <2>3, <2>4 DEF Jobs
<1>11. JobIsOp(t) /\ Phased(t) /\ Operated(t)
  BY <1>3, <1>4, <1>6, <1>7 DEF JobIsOp, Phased, Operated
<1>12. Idle(t)
  BY <1>3, <1>4, <1>6, <1>7, <1>8, <1>9, <1>10, <1>11 DEF Idle, Sound, Busy
<1> QED
  BY <1>3, <1>6, <1>7, <1>12 DEF t, q

\* The same picture, with another state of the job or none.
LEMMA SamePicture ==
    ASSUME NEW f, NEW s, NEW t, Sound(t), ~ Sending(s), ~ Sending(t),
           t.drv.target = s.drv.target, t.drv.full = s.drv.full,
           t.drv.region = s.drv.region, t.drv.img = s.drv.img, t.drv.prev = s.drv.prev,
           t.lib.glass = s.lib.glass,
           s.drv.op = "full" => t.drv.hw = s.drv.hw /\ t.drv.op \in {"none", "full"},
           s.drv.op = "none" => t.drv.hw = s.drv.hw /\ t.drv.op = "none"
    PROVE  Keeps(s, t, f)
BY DEF Keeps, Shows, Covered, Known, Leaves

\* What a poll of the library leaves of the driver's operation.
Settled(s, t) ==
    /\ Idle(t) /\ t.lib.job.kind = "none"
    /\ \/ t.drv.img = s.drv.img /\ t.drv.prev = s.drv.prev /\ t.drv.retry = s.drv.retry
       \/ t.drv.img = "none"

\* The next phase of a job that does not end with it.
LEMMA OnwardKeeps ==
    ASSUME NEW s, Sound(s), s.drv.op # "none", NEW f \in Frames,
           \/ s.lib.job.phase = "data"
           \/ s.lib.job.phase = "wave" /\ s.lib.job.kind = "partial" /\ s.lib.job.mode = "mono"
    PROVE  LET e == [drv |-> s.drv, lib |-> Advanced(s.lib, f)]
           IN  Keeps(s, e, f) /\ Busy(e.lib)
<1> DEFINE e == [drv |-> s.drv, lib |-> Advanced(s.lib, f)]
<1>1. /\ s \in States /\ s.drv \in DrvType /\ s.lib \in LibType /\ s.lib.job \in JobType
      /\ s.drv.op \in Jobs /\ s.lib.job.kind = s.drv.op /\ Busy(s.lib)
  BY DEF Sound, States, JobIsOp, DrvType, LibType, Busy, Jobs
<1>2. e.drv = s.drv /\ e.lib = Advanced(s.lib, f)
  OBVIOUS
<1>3. CASE s.lib.job.phase = "data"
  <2>1. /\ e.lib \in LibType /\ e.lib.job = [s.lib.job EXCEPT !.phase = "wave"]
        /\ e.lib.mode = s.lib.mode /\ e.lib.asleep = s.lib.asleep
        /\ e.lib.result = s.lib.result
        /\ \A r \in Rows : e.lib.glass[r] = IF r \in s.lib.job.rows THEN f[r] ELSE s.lib.glass[r]
    BY <1>1, <1>2, <1>3, AdvancedLib, ZenonT(40)
  <2>2. /\ e.lib.job.kind = s.lib.job.kind /\ e.lib.job.mode = s.lib.job.mode
        /\ e.lib.job.rows = s.lib.job.rows /\ e.lib.job.phase = "wave"
    BY <1>1, <2>1 DEF JobType
  <2>3. e \in States
    BY <1>1, <1>2, <2>1 DEF States
  <2> HIDE DEF e
  <2>4. s.drv.op \in {"full", "partial"}
    BY <1>1, <1>3 DEF Sound, Phased, Jobs
  <2>5. Sound(e)
    BY <1>1, <1>2, <1>3, <2>1, <2>2, <2>3
       DEF Sound, JobIsOp, Phased, Agrees, Operated
  <2>6. ~ Sending(e) /\ Sending(s)
    BY <1>3, <2>2, <2>4 DEF Sending
  <2>7. Shows(s, f) => Covered(e, f)
    BY <1>1, <1>2, <2>1, <2>6 DEF Shows, Covered
  <2>8. Shows(s, f) => Known(e, f)
    <3> SUFFICES ASSUME Shows(s, f), s.drv.img = "gray" PROVE e.lib.glass = e.drv.prev
      BY <1>2, <2>6 DEF Known
    <3>1. s.drv.prev = f /\ \A r \in Rows \ s.lib.job.rows : s.lib.glass[r] = f[r]
      BY <2>6 DEF Shows, Known
    <3>2. \A r \in Rows : e.lib.glass[r] = f[r]
      BY <2>1, <3>1
    <3>3. e.lib.glass = [r \in Rows |-> e.lib.glass[r]] /\ f = [r \in Rows |-> f[r]]
      BY <2>1 DEF LibType, Frames
    <3>4. [r \in Rows |-> e.lib.glass[r]] = [r \in Rows |-> f[r]]
      BY <3>2
    <3> QED
      BY <1>2, <3>1, <3>3, <3>4
  <2>9. Leaves(s, f) => Leaves(e, f)
    <3> SUFFICES ASSUME Leaves(s, f), ~ s.drv.full PROVE e.lib.glass = f
      BY <1>2 DEF Leaves
    <3>1. s.drv.op = "full" /\ s.lib.job.rows = Rows
      BY <1>1, <2>4 DEF Leaves, Sound, Phased
    <3>2. \A r \in Rows : e.lib.glass[r] = f[r]
      BY <2>1, <3>1
    <3>3. e.lib.glass = [r \in Rows |-> e.lib.glass[r]] /\ f = [r \in Rows |-> f[r]]
      BY <2>1 DEF LibType, Frames
    <3>4. [r \in Rows |-> e.lib.glass[r]] = [r \in Rows |-> f[r]]
      BY <3>2
    <3> QED
      BY <3>3, <3>4
  <2> QED
    BY <1>1, <2>2, <2>5, <2>7, <2>8, <2>9 DEF Keeps, Shows, Busy, e
<1>4. CASE s.lib.job.phase = "wave" /\ s.lib.job.kind = "partial" /\ s.lib.job.mode = "mono"
  <2>1. /\ e.lib \in LibType /\ e.lib.job = [s.lib.job EXCEPT !.phase = "resync"]
        /\ e.lib.mode = s.lib.mode /\ e.lib.asleep = s.lib.asleep
        /\ e.lib.result = s.lib.result /\ e.lib.glass = s.lib.glass
    BY <1>1, <1>2, <1>4, AdvancedLib
  <2>2. /\ e.lib.job.kind = s.lib.job.kind /\ e.lib.job.mode = s.lib.job.mode
        /\ e.lib.job.rows = s.lib.job.rows /\ e.lib.job.phase = "resync"
    BY <1>1, <2>1 DEF JobType
  <2>3. e \in States
    BY <1>1, <1>2, <2>1 DEF States
  <2> HIDE DEF e
  <2>4. Sound(e)
    BY <1>1, <1>2, <1>4, <2>1, <2>2, <2>3
       DEF Sound, JobIsOp, Phased, Agrees, Operated
  <2>5. ~ Sending(e) /\ ~ Sending(s)
    BY <1>4, <2>2 DEF Sending
  <2>6. Keeps(s, e, f)
    BY <1>1, <1>2, <1>4, <2>1, <2>4, <2>5, SamePicture
  <2> QED
    BY <1>1, <2>2, <2>6 DEF Busy, e
<1> QED
  BY <1>3, <1>4

\* The last phase of a job.
LEMMA EndKeeps ==
    ASSUME NEW s, Sound(s), s.drv.op # "none", NEW f \in Frames,
           \/ s.lib.job.phase = "wave" /\ ~ (s.lib.job.kind = "partial" /\ s.lib.job.mode = "mono")
           \/ s.lib.job.phase = "resync"
    PROVE  LET q == Advanced(s.lib, f)
               t == OpDone([drv |-> s.drv, lib |-> q])
           IN  /\ ~ Busy(q) /\ Settled(s, t) /\ Keeps(s, t, f)
               /\ t.drv.retry = s.drv.retry
<1> DEFINE q == Advanced(s.lib, f)
           t == OpDone([drv |-> s.drv, lib |-> q])
<1>1. /\ s \in States /\ s.drv \in DrvType /\ s.lib \in LibType /\ s.lib.job \in JobType
      /\ s.drv.op \in Jobs /\ s.lib.job.kind = s.drv.op /\ Busy(s.lib)
  BY DEF Sound, States, JobIsOp, DrvType, LibType, Busy, Jobs
<1>2. PICK k \in LibType :
         /\ q = Finished(k) /\ k.job = s.lib.job /\ k.mode = s.lib.mode
         /\ k.asleep = s.lib.asleep
         /\ s.lib.job.phase = "wave" => k.glass = s.lib.glass
         /\ \A r \in Rows : r \notin s.lib.job.rows \/ s.lib.glass[r] = f[r] =>
                k.glass[r] = s.lib.glass[r]
  <2>1. CASE s.lib.job.phase = "wave"
    BY <1>1, <2>1, AdvancedLib
  <2>2. CASE s.lib.job.phase = "resync"
    <3> DEFINE shown == [r \in Rows |-> IF r \in s.lib.job.rows THEN f[r] ELSE s.lib.glass[r]]
               kept == [s.lib EXCEPT !.glass =
                           [r \in Rows |-> IF shown[r] = @[r] THEN @[r] ELSE Unclear]]
    <3>1. /\ q = Finished(kept) /\ kept \in LibType /\ kept.job = s.lib.job
          /\ kept.mode = s.lib.mode /\ kept.asleep = s.lib.asleep
          /\ \A r \in Rows : r \notin s.lib.job.rows \/ s.lib.glass[r] = f[r] =>
                 kept.glass[r] = s.lib.glass[r]
      BY <1>1, <2>2, AdvancedLib
    <3> HIDE DEF kept, shown, q
    <3> QED
      BY <2>2, <3>1
  <2> QED
    BY <2>1, <2>2
<1> HIDE DEF q
<1>3. /\ Idle(t) /\ t.lib = q /\ t.lib.job = NoJob /\ t.lib.glass = k.glass
      /\ t.drv.target = s.drv.target /\ t.drv.full = s.drv.full
      /\ t.drv.region = s.drv.region /\ t.drv.img = s.drv.img
      /\ t.drv.prev = s.drv.prev /\ t.drv.retry = s.drv.retry
      /\ s.drv.op = "full" => t.drv.hw = s.drv.hw
  BY <1>2, EndedWell
<1> HIDE DEF t
<1>4. NoJob.kind = "none" /\ NoJob.phase = "none"
  BY DEF NoJob
<1>5. ~ Sending(s) /\ ~ Sending(t) /\ Sound(t) /\ t.drv.op = "none"
  BY <1>3, <1>4 DEF Sending, Idle
<1>6. Keeps(s, t, f)
  <2>1. CASE s.lib.job.phase = "wave"
    BY <1>1, <1>2, <1>3, <1>5, <2>1, SamePicture
  <2>2. CASE s.lib.job.phase = "resync"
    <3>1. s.drv.op = "partial" /\ s.drv.img = "mono"
      BY <1>1, <2>2 DEF Sound, Phased, Operated, Jobs
    <3>2. ~ Leaves(s, f) \/ s.drv.full
      BY <3>1 DEF Leaves
    <3>3. Leaves(s, f) => Leaves(t, f)
      BY <1>3, <3>2 DEF Leaves
    <3>4. Shows(s, f) => Shows(t, f)
      BY <1>2, <1>3, <1>5, <3>1 DEF Shows, Covered, Known
    <3> QED
      BY <1>5, <3>3, <3>4 DEF Keeps
  <2> QED
    BY <2>1, <2>2
<1> QED
  BY <1>3, <1>4, <1>6 DEF Settled, Idle, t, q

\* A job that timed out.
LEMMA TimeoutKeeps ==
    ASSUME NEW s, Sound(s), s.drv.op # "none", NEW f
    PROVE  LET q == TimedOut(s.lib)
               t == OpDone([drv |-> s.drv, lib |-> q])
           IN  ~ Busy(q) /\ Settled(s, t) /\ Keeps(s, t, f)
<1> DEFINE q == TimedOut(s.lib)
           e == [drv |-> s.drv, lib |-> q]
<1>1. /\ s \in States /\ s.drv \in DrvType /\ s.lib \in LibType
      /\ s.drv.op \in Jobs /\ s.lib.job.kind = s.drv.op
  BY DEF Sound, States, JobIsOp, DrvType
<1>2. q \in LibType /\ q.job = NoJob /\ q.result = "failed"
  BY <1>1, TimedOutLib DEF Jobs
<1> HIDE DEF q
<1>3. /\ e \in States /\ OpDone(e) = OpFailed(e) /\ e.drv = s.drv
  BY <1>1, <1>2 DEF States, OpDone
<1>4. NoJob.kind = "none"
  BY DEF NoJob
<1>5. ~ Busy(q)
  BY <1>2, <1>4 DEF Busy
<1> DEFINE t == OpFailed(e)
<1> HIDE DEF e
<1>6. /\ Idle(t) /\ Shows(t, f) /\ t.drv.img = "none" /\ t.lib.job = NoJob
      /\ e.drv.target = "gray" /\ (e.drv.full \/ e.drv.op = "full") => Leaves(t, f)
  BY <1>3, FailedIsIdle
<1> HIDE DEF t
<1>7. Leaves(s, f) => Leaves(t, f)
  BY <1>1, <1>3, <1>6 DEF Leaves, Jobs
<1> QED
  BY <1>3, <1>4, <1>5, <1>6, <1>7 DEF Keeps, Settled, Idle, t, e, q

\* While the driver has nothing under way, the library may take the power.
LEMMA OwnKeeps ==
    ASSUME NEW s, Sound(s), s.drv.op = "none", NEW f \in Frames, NEW answers \in BOOLEAN,
           NEW q \in Polled(s.lib, f, answers)
    PROVE  LET e == [drv |-> s.drv, lib |-> q]
           IN  Keeps(s, e, f) /\ (~ Busy(q) => Idle(e))
<1> DEFINE e == [drv |-> s.drv, lib |-> q]
<1>1. /\ s \in States /\ s.drv \in DrvType /\ s.lib \in LibType /\ s.lib.job \in JobType
      /\ s.lib.job.kind \in {"none", "off"}
  BY DEF Sound, States, JobIsOp, LibType
<1>2. NoJob.kind = "none" /\ NoJob.phase = "none"
  BY DEF NoJob
<1>3. /\ q \in LibType /\ q.glass = s.lib.glass /\ q.result = s.lib.result
      /\ q.mode = s.lib.mode /\ q.asleep = s.lib.asleep
      /\ \/ q.job = s.lib.job
         \/ q.job = NoJob
         \/ q.job.kind = "off" /\ q.job.rows = {} /\ q.job.phase = "wave"
  <2>1. CASE ~ Busy(s.lib)
    <3>1. q = s.lib \/ q = Started(s.lib, "off", "gray", {})
      BY <2>1 DEF Polled
    <3>2. "off" \in Kinds /\ "gray" \in Modes /\ {} \in SUBSET Rows
      BY DEF Kinds, Modes
    <3>3. CASE q = Started(s.lib, "off", "gray", {})
      BY <1>1, <3>2, <3>3, StartedLib
    <3> QED
      BY <1>1, <3>1, <3>3
  <2>2. CASE Busy(s.lib)
    <3>1. s.lib.job.kind = "off" /\ s.lib.job.phase = "wave"
      BY <1>1, <2>2 DEF Busy, Sound, Phased
    <3>2. q = Advanced(s.lib, f) \/ q = TimedOut(s.lib)
      BY <2>2 DEF Polled
    <3>3. Advanced(s.lib, f) = Finished(s.lib)
      BY <1>1, <2>2, <3>1, AdvancedLib
    <3>4. TimedOut(s.lib) = Finished(s.lib)
      BY <3>1 DEF TimedOut
    <3>5. q = Finished(s.lib)
      BY <3>2, <3>3, <3>4
    <3> QED
      BY <1>1, <2>2, <3>1, <3>5, FinishedLib
  <2> QED
    BY <2>1, <2>2
<1>4. e \in States /\ e.drv = s.drv /\ e.lib = q
  BY <1>1, <1>3 DEF States
<1> HIDE DEF e
<1>5. Sound(e)
  BY <1>1, <1>2, <1>3, <1>4 DEF Sound, JobIsOp, Phased, Agrees, Operated
<1>6. Keeps(s, e, f)
  BY <1>3, <1>4, <1>5, SamePicture DEF Sending
<1> QED
  BY <1>4, <1>5, <1>6 DEF Idle, e

----------------------------------------------------------------------------
(* The beginning of the next operation.                                    *)

\* The end of the pause matters to no one here.
LEMMA RetryIsFree ==
    ASSUME NEW s, Sound(s), NEW f
    PROVE  LET t == [s EXCEPT !.drv = [s.drv EXCEPT !.retry = "none"]]
           IN  /\ (Idle(s) => Idle(t)) /\ Keeps(s, t, f) /\ t.lib = s.lib
               /\ t.drv.retry = "none" /\ t.drv.img = s.drv.img /\ t.drv.prev = s.drv.prev
               /\ t.drv.full = s.drv.full /\ t.drv.target = s.drv.target
               /\ t.drv.region = s.drv.region
<1> DEFINE d == [s.drv EXCEPT !.retry = "none"]
           t == [s EXCEPT !.drv = d]
<1>1. s \in States /\ s.drv \in DrvType
  BY DEF Sound, States
<1>2. /\ d \in DrvType /\ d.retry = "none" /\ d.img = s.drv.img /\ d.prev = s.drv.prev
      /\ d.full = s.drv.full /\ d.target = s.drv.target /\ d.region = s.drv.region
      /\ d.op = s.drv.op /\ d.opMode = s.drv.opMode /\ d.hw = s.drv.hw
      /\ d.asleep = s.drv.asleep
  BY <1>1 DEF DrvType
<1> HIDE DEF d
<1>3. t \in States /\ t.drv = d /\ t.lib = s.lib
  BY <1>1, <1>2 DEF States
<1> HIDE DEF t
<1>4. Sound(t) /\ (Idle(s) => Idle(t))
  BY <1>2, <1>3 DEF Idle, Sound, JobIsOp, Phased, Agrees, Operated, Asked, RequestPending
<1>5. Keeps(s, t, f)
  BY <1>2, <1>3, <1>4 DEF Keeps, Shows, Covered, Known, Leaves, Sending
<1> QED
  BY <1>2, <1>3, <1>4, <1>5 DEF d, t

\* A start that is accepted.
LEMMA Begun ==
    ASSUME NEW s \in States, NEW op \in Jobs, NEW mode \in Modes, NEW rows \in SUBSET Rows,
           Accepts(s.lib, op, mode)
    PROVE  LET t == OpStarted(s, op, mode, rows) IN
           /\ t \in States
           /\ t.drv.op = op /\ t.drv.opMode = mode /\ t.drv.retry = s.drv.retry
           /\ t.drv.target = s.drv.target /\ t.drv.full = s.drv.full
           /\ t.drv.region = s.drv.region /\ t.drv.img = s.drv.img /\ t.drv.prev = s.drv.prev
           /\ t.drv.hw = s.drv.hw /\ t.drv.asleep = s.drv.asleep
           /\ t.lib.job.kind = op /\ t.lib.job.mode = mode /\ t.lib.job.rows = rows
           /\ rows = {} => t.lib.job.phase = "wave"
           /\ rows # {} => t.lib.job.phase = "data"
           /\ t.lib.mode = s.lib.mode /\ t.lib.asleep = s.lib.asleep
           /\ t.lib.result = s.lib.result /\ t.lib.glass = s.lib.glass
<1> DEFINE t == OpStarted(s, op, mode, rows)
           d == [s.drv EXCEPT !.op = op, !.opMode = mode]
<1>1. s.drv \in DrvType /\ s.lib \in LibType /\ op \in Kinds
  BY DEF States, Kinds
<1>2. /\ d \in DrvType /\ d.op = op /\ d.opMode = mode /\ d.retry = s.drv.retry
      /\ d.target = s.drv.target /\ d.full = s.drv.full
      /\ d.region = s.drv.region /\ d.img = s.drv.img /\ d.prev = s.drv.prev
      /\ d.hw = s.drv.hw /\ d.asleep = s.drv.asleep
  BY <1>1 DEF DrvType
<1>3. /\ Started(s.lib, op, mode, rows) \in LibType
      /\ Started(s.lib, op, mode, rows).job.kind = op
      /\ Started(s.lib, op, mode, rows).job.mode = mode
      /\ Started(s.lib, op, mode, rows).job.rows = rows
      /\ rows = {} => Started(s.lib, op, mode, rows).job.phase = "wave"
      /\ rows # {} => Started(s.lib, op, mode, rows).job.phase = "data"
      /\ Started(s.lib, op, mode, rows).mode = s.lib.mode
      /\ Started(s.lib, op, mode, rows).asleep = s.lib.asleep
      /\ Started(s.lib, op, mode, rows).result = s.lib.result
      /\ Started(s.lib, op, mode, rows).glass = s.lib.glass
  BY <1>1, StartedLib
<1>4. t.drv = d /\ t.lib = Started(s.lib, op, mode, rows) /\ t = [drv |-> t.drv, lib |-> t.lib]
  BY DEF OpStarted, States
<1> HIDE DEF t, d
<1>5. t \in States
  BY <1>2, <1>3, <1>4 DEF States
<1> QED
  BY <1>2, <1>3, <1>4, <1>5 DEF t

\* An initialisation keeps what is asked for.
LEMMA InitKeeps ==
    ASSUME NEW s, Idle(s), NEW f, RequestPending(s.drv),
           s.drv.full \/ s.drv.img # s.drv.target \/ s.drv.target = "gray"
    PROVE  LET t == StartInit(s) IN
           /\ Keeps(s, t, f) /\ t.drv.op = "init" /\ t.lib.job.kind = "init"
           /\ t.drv.retry = s.drv.retry
<1> DEFINE t == OpStarted(s, "init", s.drv.target, {})
<1>1. s \in States /\ s.drv \in DrvType /\ s.lib \in LibType
  BY DEF Idle, Sound, States
<1>2. "init" \in Jobs /\ s.drv.target \in Modes /\ {} \in SUBSET Rows
  BY <1>1 DEF Jobs, DrvType
<1>3. Accepts(s.lib, "init", s.drv.target)
  BY DEF Accepts, Idle
<1>4. /\ t \in States
      /\ t.drv.op = "init" /\ t.drv.opMode = s.drv.target /\ t.drv.retry = s.drv.retry
      /\ t.drv.target = s.drv.target /\ t.drv.full = s.drv.full
      /\ t.drv.region = s.drv.region /\ t.drv.img = s.drv.img /\ t.drv.prev = s.drv.prev
      /\ t.drv.hw = s.drv.hw /\ t.drv.asleep = s.drv.asleep
      /\ t.lib.job.kind = "init" /\ t.lib.job.mode = s.drv.target /\ t.lib.job.rows = {}
      /\ t.lib.job.phase = "wave"
      /\ t.lib.mode = s.lib.mode /\ t.lib.asleep = s.lib.asleep
      /\ t.lib.result = s.lib.result /\ t.lib.glass = s.lib.glass
  BY <1>1, <1>2, <1>3, Begun
<1> HIDE DEF t
<1>5. Sound(t)
  <2>1. s.lib.result = "ok" /\ Agrees(s) /\ Asked(s.drv) /\ s.drv.op = "none"
    BY DEF Idle, Sound
  <2>2. JobIsOp(t) /\ Phased(t) /\ Operated(t)
    BY <1>4 DEF JobIsOp, Phased, Operated
  <2>3. Agrees(t)
    BY <1>4, <2>1 DEF Agrees
  <2>4. Asked(t.drv)
    BY <1>4, <2>1 DEF Asked, RequestPending
  <2> QED
    BY <1>4, <2>1, <2>2, <2>3, <2>4 DEF Sound
<1>6. ~ Sending(s) /\ ~ Sending(t)
  BY <1>4 DEF Sending, Idle
<1>7. Shows(s, f) => Shows(t, f)
  BY <1>4, <1>6 DEF Shows, Covered, Known
<1>8. Leaves(s, f) => Leaves(t, f)
  BY <1>4 DEF Leaves, RequestPending
<1> QED
  BY <1>4, <1>5, <1>7, <1>8 DEF Keeps, StartInit, t

\* The driver in the state t of an operation just begun, from s, with the library
\* as it was.
Beginning(s, t, op, mode, rows) ==
    /\ t \in States
    /\ t.drv.op = op /\ t.drv.retry = s.drv.retry /\ t.drv.target = s.drv.target
    /\ t.drv.hw = s.drv.hw
    /\ t.lib.job.kind = op /\ t.lib.job.mode = mode /\ t.lib.job.rows = rows
    /\ rows = {} => t.lib.job.phase = "wave"
    /\ rows # {} => t.lib.job.phase = "data"
    /\ t.lib.mode = s.lib.mode /\ t.lib.asleep = s.lib.asleep
    /\ t.lib.result = s.lib.result /\ t.lib.glass = s.lib.glass

\* The whole picture is taken and sent.
LEMMA FullKeeps ==
    ASSUME NEW s, Idle(s), fb \in Frames, AwakeFor(s.drv, s.drv.target)
    PROVE  LET t == StartFull(s) IN
           /\ Keeps(s, t, fb) /\ t.drv.op = "full" /\ t.lib.job.kind = "full"
           /\ t.drv.retry = s.drv.retry
<1> DEFINE mode == s.drv.target
           taken == [s.drv EXCEPT !.full = FALSE, !.region = {}, !.img = mode,
                                  !.prev = IF mode = "gray" THEN fb ELSE Blank]
           s1 == [s EXCEPT !.drv = taken]
           t == OpStarted(s1, "full", mode, Rows)
<1>1. /\ s \in States /\ s.drv \in DrvType /\ s.lib \in LibType /\ mode \in Modes
      /\ s.lib.result = "ok" /\ s.drv.op = "none" /\ ~ Busy(s.lib)
      /\ s.drv.hw = mode /\ (mode = "mono" => ~ s.drv.asleep)
  BY DEF Idle, Sound, States, DrvType, AwakeFor
<1>2. s.lib.mode = mode /\ ~ s.lib.asleep /\ ~ s.drv.asleep
  BY <1>1 DEF Idle, Sound, Agrees, Modes, DrvType, LibType
<1>3. Accepts(s.lib, "full", mode)
  BY <1>1, <1>2 DEF Accepts
<1>4. /\ taken \in DrvType /\ ~ taken.full /\ taken.region = {} /\ taken.img = mode
      /\ mode = "gray" => taken.prev = fb
      /\ taken.target = mode /\ taken.hw = s.drv.hw /\ taken.asleep = s.drv.asleep
      /\ taken.retry = s.drv.retry
  BY <1>1, BlankFrame DEF DrvType
<1> HIDE DEF taken
<1>5. s1 \in States /\ s1.drv = taken /\ s1.lib = s.lib
  BY <1>1, <1>4 DEF States
<1>6. StartFull(s) = t
  BY <1>3 DEF StartFull, taken
<1> HIDE DEF s1
<1>7. "full" \in Jobs /\ Rows \in SUBSET Rows /\ Rows # {}
  BY EinkAssumption DEF Jobs
<1>8. /\ Beginning(s, t, "full", mode, Rows)
      /\ ~ t.drv.full /\ t.drv.region = {} /\ t.drv.img = mode /\ ~ t.drv.asleep
      /\ mode = "gray" => t.drv.prev = fb
  BY <1>1, <1>2, <1>3, <1>4, <1>5, <1>7, Begun DEF Beginning
<1> HIDE DEF t
<1>9. t.lib.job.phase = "data"
  BY <1>7, <1>8 DEF Beginning
<1>10. Sound(t)
  <2>1. JobIsOp(t) /\ Phased(t)
    BY <1>8, <1>9 DEF JobIsOp, Phased, Beginning
  <2>2. Agrees(t) /\ Operated(t)
    <3>1. t.lib.asleep \in BOOLEAN /\ t.drv.asleep \in BOOLEAN
      BY <1>8 DEF Beginning, States, LibType, DrvType
    <3> QED
      BY <1>1, <1>2, <1>8, <3>1 DEF Agrees, Operated, Beginning
  <2>3. Asked(t.drv)
    BY <1>1, <1>8 DEF Asked, Beginning, Modes
  <2> QED
    BY <1>1, <1>8, <2>1, <2>2, <2>3 DEF Sound, Beginning
<1>11. Sending(t) /\ t.lib.job.rows = Rows
  BY <1>8, <1>9 DEF Sending, Beginning
<1>12. Shows(t, fb)
  BY <1>8, <1>11 DEF Shows, Covered, Known
<1>13. Leaves(s, fb) => Leaves(t, fb)
  BY <1>1, <1>8, <1>11 DEF Leaves, Beginning
<1> QED
  BY <1>6, <1>8, <1>10, <1>12, <1>13 DEF Keeps, Beginning

\* In gray the rows that differ from the picture on the panel are sent.
LEMMA GrayKeeps ==
    ASSUME NEW s, Idle(s), fb \in Frames, RequestPending(s.drv), ~ s.drv.full,
           s.drv.img = "gray", s.drv.target = "gray", s.drv.hw = "gray",
           NEW t \in StartPartialGray(s)
    PROVE  Keeps(s, t, fb) /\ t.drv.op = "partial" /\ t.drv.retry = s.drv.retry
<1> DEFINE diff == {r \in Rows : s.drv.prev[r] # fb[r]}
           taken == [s.drv EXCEPT !.region = {}, !.prev = fb]
           s1 == [s EXCEPT !.drv = taken]
<1>1. /\ s \in States /\ s.drv \in DrvType /\ s.lib \in LibType
      /\ s.lib.result = "ok" /\ s.drv.op = "none" /\ ~ Busy(s.lib)
  BY DEF Idle, Sound, States, DrvType
<1>2. s.lib.mode = "gray" /\ ~ s.lib.asleep /\ ~ s.drv.asleep
  BY <1>1 DEF Idle, Sound, Agrees, DrvType, LibType
<1>3. Accepts(s.lib, "partial", "gray")
  BY <1>1, <1>2 DEF Accepts
<1>4. /\ taken \in DrvType /\ ~ taken.full /\ taken.region = {} /\ taken.img = "gray"
      /\ taken.prev = fb /\ taken.target = "gray" /\ taken.hw = "gray"
      /\ taken.asleep = s.drv.asleep /\ taken.retry = s.drv.retry
  BY <1>1 DEF DrvType
<1>5. PICK rows \in SUBSET Rows :
         /\ t = OpStarted(s1, "partial", "gray", rows)
         /\ diff \subseteq rows /\ (rows = {} => diff = {})
  <2>1. t \in {OpStarted(s1, "partial", "gray", rows) :
                  rows \in IF diff = {} THEN {{}} ELSE {diff, Rows}}
    BY <1>3 DEF StartPartialGray
  <2>2. \A rows \in IF diff = {} THEN {{}} ELSE {diff, Rows} :
           rows \in SUBSET Rows /\ diff \subseteq rows /\ (rows = {} => diff = {})
    OBVIOUS
  <2> HIDE DEF diff, s1, taken
  <2> QED
    BY <2>1, <2>2
<1> HIDE DEF taken
<1>6. s1 \in States /\ s1.drv = taken /\ s1.lib = s.lib
  BY <1>1, <1>4 DEF States
<1> HIDE DEF s1
<1>7. "partial" \in Jobs /\ "gray" \in Modes
  BY DEF Jobs, Modes
<1>8. /\ Beginning(s, t, "partial", "gray", rows)
      /\ ~ t.drv.full /\ t.drv.region = {} /\ t.drv.img = "gray" /\ ~ t.drv.asleep
      /\ t.drv.prev = fb
  BY <1>1, <1>2, <1>3, <1>4, <1>5, <1>6, <1>7, Begun DEF Beginning
<1>9. Sound(t)
  <2>1. JobIsOp(t) /\ Phased(t)
    BY <1>8 DEF JobIsOp, Phased, Beginning
  <2>2. Agrees(t) /\ Operated(t)
    BY <1>1, <1>2, <1>8 DEF Agrees, Operated, Beginning
  <2>3. Asked(t.drv)
    BY <1>1, <1>8 DEF Asked, Beginning
  <2> QED
    BY <1>1, <1>8, <2>1, <2>2, <2>3 DEF Sound, Beginning
<1>10. Shows(s, fb) => Shows(t, fb)
  <2> SUFFICES ASSUME Shows(s, fb) PROVE Shows(t, fb)
    OBVIOUS
  <2>1. s.lib.glass = s.drv.prev
    BY <1>1 DEF Shows, Known, Sending
  <2>2. \A r \in Rows \ rows : t.lib.glass[r] = fb[r]
    BY <1>5, <1>8, <2>1 DEF Beginning
  <2>3. CASE rows = {}
    <3>1. \A r \in Rows : t.lib.glass[r] = fb[r]
      BY <2>2, <2>3
    <3>2. t.lib.glass = [r \in Rows |-> t.lib.glass[r]] /\ fb = [r \in Rows |-> fb[r]]
      BY <1>8 DEF Beginning, States, LibType, Frames
    <3>3. [r \in Rows |-> t.lib.glass[r]] = [r \in Rows |-> fb[r]]
      BY <3>1
    <3>4. t.lib.glass = t.drv.prev
      BY <1>8, <3>2, <3>3
    <3>5. ~ Sending(t)
      BY <1>8, <2>3 DEF Sending, Beginning
    <3> QED
      BY <1>8, <3>1, <3>4, <3>5 DEF Shows, Covered, Known
  <2>4. CASE rows # {}
    <3>1. Sending(t) /\ t.lib.job.rows = rows
      BY <1>8, <2>4 DEF Sending, Beginning
    <3> QED
      BY <1>8, <2>2, <3>1 DEF Shows, Covered, Known
  <2> QED
    BY <2>3, <2>4
<1>11. ~ Leaves(s, fb)
  BY DEF Leaves, RequestPending
<1> QED
  BY <1>8, <1>9, <1>10, <1>11 DEF Keeps, Beginning

\* In one bit the rows asked for are sent.
LEMMA MonoKeeps ==
    ASSUME NEW s, Idle(s), fb \in Frames, RequestPending(s.drv), ~ s.drv.full,
           s.drv.img = "mono", s.drv.target = "mono",
           NEW t \in StartPartialMono(s)
    PROVE  /\ Keeps(s, t, fb) /\ t.drv.op = "partial" /\ t.lib.job.mode = "mono"
           /\ t.drv.retry = s.drv.retry
<1> DEFINE taken == [s.drv EXCEPT !.region = {}, !.asleep = FALSE]
           s1 == [s EXCEPT !.drv = taken]
<1>1. /\ s \in States /\ s.drv \in DrvType /\ s.lib \in LibType
      /\ s.lib.result = "ok" /\ s.drv.op = "none" /\ ~ Busy(s.lib)
  BY DEF Idle, Sound, States, DrvType
<1>2. s.lib.mode = "mono" /\ s.drv.hw = "mono"
  BY <1>1 DEF Idle, Sound, Agrees, Asked
<1>3. Accepts(s.lib, "partial", "mono")
  BY <1>1, <1>2 DEF Accepts
<1>4. /\ taken \in DrvType /\ ~ taken.full /\ taken.region = {} /\ taken.img = "mono"
      /\ taken.target = "mono" /\ taken.hw = "mono"
      /\ ~ taken.asleep /\ taken.retry = s.drv.retry
  BY <1>1, <1>2 DEF DrvType
<1>5. PICK rows \in SUBSET Rows :
         /\ t = OpStarted(s1, "partial", "mono", rows)
         /\ s.drv.region \subseteq rows /\ rows # {}
  <2>1. t \in {OpStarted(s1, "partial", "mono", rows) : rows \in {s.drv.region, Rows}}
    BY <1>3 DEF StartPartialMono
  <2>2. s.drv.region \in SUBSET Rows /\ s.drv.region # {} /\ Rows # {}
    BY <1>1, EinkAssumption DEF DrvType, RequestPending
  <2> HIDE DEF s1, taken
  <2> QED
    BY <2>1, <2>2
<1> HIDE DEF taken
<1>6. s1 \in States /\ s1.drv = taken /\ s1.lib = s.lib
  BY <1>1, <1>4 DEF States
<1> HIDE DEF s1
<1>7. "partial" \in Jobs /\ "mono" \in Modes
  BY DEF Jobs, Modes
<1>8. /\ Beginning(s, t, "partial", "mono", rows)
      /\ ~ t.drv.full /\ t.drv.region = {} /\ t.drv.img = "mono" /\ ~ t.drv.asleep
  BY <1>1, <1>2, <1>3, <1>4, <1>5, <1>6, <1>7, Begun DEF Beginning
<1>9. Sound(t)
  <2>1. JobIsOp(t) /\ Phased(t)
    BY <1>5, <1>8 DEF JobIsOp, Phased, Beginning
  <2>2. Agrees(t) /\ Operated(t)
    BY <1>1, <1>2, <1>8 DEF Agrees, Operated, Beginning
  <2>3. Asked(t.drv)
    BY <1>1, <1>2, <1>8 DEF Asked, Beginning
  <2> QED
    BY <1>1, <1>8, <2>1, <2>2, <2>3 DEF Sound, Beginning
<1>10. Shows(s, fb) => Shows(t, fb)
  <2>1. ~ Sending(s) /\ Sending(t) /\ t.lib.job.rows = rows
    BY <1>1, <1>5, <1>8 DEF Sending, Beginning
  <2> QED
    BY <1>5, <1>8, <2>1 DEF Shows, Covered, Known, Beginning
<1>11. ~ Leaves(s, fb)
  BY DEF Leaves
<1> QED
  BY <1>8, <1>9, <1>10, <1>11 DEF Keeps, Beginning

\* The panel that is not needed is sent to sleep with the picture on it.
LEMMA SleepKeeps ==
    ASSUME NEW s, Idle(s), NEW f, MaySleep(s)
    PROVE  LET t == OpStarted(s, "sleep", s.drv.img, {}) IN
           /\ Sound(t) /\ (Shows(s, f) => Shows(t, f))
           /\ t.lib.job.kind = "sleep" /\ t.drv.retry = s.drv.retry
<1> DEFINE t == OpStarted(s, "sleep", s.drv.img, {})
<1>1. /\ s \in States /\ s.drv \in DrvType /\ s.lib \in LibType
      /\ s.lib.result = "ok" /\ s.drv.op = "none" /\ ~ Busy(s.lib)
      /\ s.drv.hw # "off" /\ ~ RequestPending(s.drv)
  BY DEF Idle, Sound, States, MaySleep
<1>2. "sleep" \in Jobs /\ s.drv.img \in Modes /\ {} \in SUBSET Rows
  BY <1>1 DEF Jobs, DrvType, Idle, Sound, Asked
<1>3. Accepts(s.lib, "sleep", s.drv.img)
  BY <1>1 DEF Accepts, Idle, Sound, Agrees, DrvType, Modes
<1>4. /\ t \in States
      /\ t.drv.op = "sleep" /\ t.drv.opMode = s.drv.img /\ t.drv.retry = s.drv.retry
      /\ t.drv.target = s.drv.target /\ t.drv.full = s.drv.full
      /\ t.drv.region = s.drv.region /\ t.drv.img = s.drv.img /\ t.drv.prev = s.drv.prev
      /\ t.drv.hw = s.drv.hw /\ t.drv.asleep = s.drv.asleep
      /\ t.lib.job.kind = "sleep" /\ t.lib.job.mode = s.drv.img /\ t.lib.job.rows = {}
      /\ t.lib.job.phase = "wave"
      /\ t.lib.mode = s.lib.mode /\ t.lib.asleep = s.lib.asleep
      /\ t.lib.result = s.lib.result /\ t.lib.glass = s.lib.glass
  BY <1>1, <1>2, <1>3, Begun
<1> HIDE DEF t
<1>5. Sound(t)
  <2>1. Agrees(s) /\ Asked(s.drv)
    BY DEF Idle, Sound
  <2>2. JobIsOp(t) /\ Phased(t) /\ Operated(t)
    BY <1>1, <1>4 DEF JobIsOp, Phased, Operated
  <2>3. Agrees(t)
    BY <1>1, <1>4, <2>1 DEF Agrees
  <2>4. Asked(t.drv)
    BY <1>1, <1>4, <2>1 DEF Asked, RequestPending
  <2> QED
    BY <1>1, <1>4, <2>2, <2>3, <2>4 DEF Sound
<1>6. ~ Sending(s) /\ ~ Sending(t)
  BY <1>1, <1>4 DEF Sending
<1>7. Shows(s, f) => Shows(t, f)
  BY <1>4, <1>6 DEF Shows, Covered, Known
<1> QED
  BY <1>4, <1>5, <1>7 DEF t

----------------------------------------------------------------------------
(* One poll of the driver.                                                 *)

\* From s the driver went on to t: no failure is new, and a gray update is only
\* begun from a known picture.
Goes(s, t) ==
    /\ t.drv.retry = "wait" => s.drv.retry = "wait"
    /\ t.lib.job.kind = "partial" /\ t.lib.job.mode = "gray" => s.drv.img = "gray"

LEMMA NextKeeps ==
    ASSUME NEW s, Idle(s), fb \in Frames, NEW t \in StartNext(s)
    PROVE  Keeps(s, t, fb) /\ Goes(s, t) /\ (t.drv.op = "none" => Idle(t))
<1> DEFINE d == [s.drv EXCEPT !.retry = "none"]
           u == [s EXCEPT !.drv = d]
           needFull == s.drv.full \/ s.drv.img # s.drv.target
<1>1. /\ s \in States /\ s.drv \in DrvType /\ s.lib.job.kind = "none"
  BY DEF Idle, Sound, States, Busy
<1>2. /\ Idle(u) /\ Keeps(s, u, fb) /\ u.lib = s.lib
      /\ u.drv.retry = "none" /\ u.drv.img = s.drv.img /\ u.drv.prev = s.drv.prev
      /\ u.drv.full = s.drv.full /\ u.drv.target = s.drv.target
      /\ u.drv.region = s.drv.region
  BY RetryIsFree DEF Idle
<1>3. u.drv = d
  BY <1>1 DEF States
<1>4. d.full = s.drv.full /\ d.img = s.drv.img /\ d.target = s.drv.target
  BY <1>2, <1>3
<1>5. \/ (~ RequestPending(s.drv) \/ s.drv.retry = "wait") /\ t = s
      \/ RequestPending(s.drv) /\
           \/ needFull /\ AwakeFor(d, d.target) /\ t = StartFull(u)
           \/ (needFull \/ (d.target = "gray" /\ ~ AwakeFor(d, "gray"))) /\ t = StartInit(u)
           \/ ~ needFull /\ d.target = "gray" /\ AwakeFor(d, "gray") /\ t \in StartPartialGray(u)
           \/ ~ needFull /\ d.target # "gray" /\ t \in StartPartialMono(u)
  <2>1. StartNext(s) =
           IF ~ RequestPending(s.drv) \/ s.drv.retry = "wait" THEN {s}
           ELSE IF needFull /\ AwakeFor(d, d.target) THEN {StartFull(u)}
           ELSE IF needFull \/ (d.target = "gray" /\ ~ AwakeFor(d, "gray")) THEN {StartInit(u)}
           ELSE IF d.target = "gray" THEN StartPartialGray(u)
           ELSE StartPartialMono(u)
    BY <1>4 DEF StartNext
  <2> HIDE DEF d, u, needFull
  <2> QED
    BY <2>1
<1>6. d.target \in Modes
  BY <1>1, <1>4 DEF DrvType
<1> HIDE DEF d, u
<1>7. CASE t = s
  BY <1>1, <1>7 DEF Keeps, Goes, Idle
<1>8. CASE AwakeFor(d, d.target) /\ t = StartFull(u)
  <2>1. /\ Keeps(u, t, fb) /\ t.drv.op = "full" /\ t.lib.job.kind = "full"
        /\ t.drv.retry = u.drv.retry
    BY <1>2, <1>3, <1>8, FullKeeps
  <2> QED
    BY <1>2, <2>1, KeepsOn DEF Goes
<1>9. CASE /\ RequestPending(s.drv) /\ t = StartInit(u)
           /\ needFull \/ d.target = "gray"
  <2>1. /\ Keeps(u, t, fb) /\ t.drv.op = "init" /\ t.lib.job.kind = "init"
        /\ t.drv.retry = u.drv.retry
    BY <1>2, <1>4, <1>9, InitKeeps DEF RequestPending
  <2> QED
    BY <1>2, <2>1, KeepsOn DEF Goes
<1>10. CASE /\ RequestPending(s.drv) /\ ~ needFull /\ d.target = "gray" /\ AwakeFor(d, "gray")
            /\ t \in StartPartialGray(u)
  <2>1. Keeps(u, t, fb) /\ t.drv.op = "partial" /\ t.drv.retry = u.drv.retry
    BY <1>2, <1>3, <1>4, <1>10, GrayKeeps DEF RequestPending, AwakeFor
  <2> QED
    BY <1>2, <1>4, <1>10, <2>1, KeepsOn DEF Goes
<1>11. CASE /\ RequestPending(s.drv) /\ ~ needFull /\ d.target # "gray"
            /\ t \in StartPartialMono(u)
  <2>1. d.target = "mono"
    BY <1>6, <1>11 DEF Modes
  <2>2. /\ Keeps(u, t, fb) /\ t.drv.op = "partial" /\ t.lib.job.mode = "mono"
        /\ t.drv.retry = u.drv.retry
    BY <1>2, <1>4, <1>11, <2>1, MonoKeeps DEF RequestPending
  <2> QED
    BY <1>2, <2>2, KeepsOn DEF Goes
<1> QED
  BY <1>5, <1>7, <1>8, <1>9, <1>10, <1>11

\* What poll_core does once the library is idle.
LEMMA RestKeeps ==
    ASSUME NEW s, Idle(s), fb \in Frames, NEW allowSleep \in BOOLEAN,
           NEW t \in StartNext(s) \cup
               {OpStarted(x, "sleep", x.drv.img, {}) :
                    x \in {x \in StartNext(s) : allowSleep /\ MaySleep(x)}}
    PROVE  /\ Sound(t) /\ Goes(s, t)
           /\ Shows(s, fb) => Shows(t, fb)
           /\ ~ allowSleep /\ Leaves(s, fb) => Leaves(t, fb)
<1>1. CASE t \in StartNext(s)
  BY <1>1, NextKeeps DEF Keeps
<1>2. ASSUME NEW x \in StartNext(s), allowSleep, MaySleep(x),
             t = OpStarted(x, "sleep", x.drv.img, {})
      PROVE  /\ Sound(t) /\ Goes(s, t)
             /\ Shows(s, fb) => Shows(t, fb)
  <2>1. Keeps(s, x, fb) /\ Goes(s, x) /\ Idle(x)
    BY <1>2, NextKeeps DEF MaySleep
  <2>2. /\ Sound(t) /\ (Shows(x, fb) => Shows(t, fb))
        /\ t.lib.job.kind = "sleep" /\ t.drv.retry = x.drv.retry
    BY <1>2, <2>1, SleepKeeps
  <2> QED
    BY <2>1, <2>2 DEF Keeps, Goes
<1> QED
  BY <1>1, <1>2

\* A new gray update starts from what is on the glass.
FromTheGlass(s, t) ==
    /\ t.lib.job.kind = "partial" /\ t.lib.job.mode = "gray" /\ t.lib.job # s.lib.job
    /\ t.lib.job.phase \in {"data", "wave"} /\ s.lib.job.phase # "data"
    => s.drv.img = "gray"

LEMMA PollKeeps ==
    ASSUME Sound(Now), fb \in Frames, NEW allowSleep \in BOOLEAN, NEW done \in BOOLEAN,
           PollCore(allowSleep, done)
    PROVE  /\ Sound(Now') /\ FromTheGlass(Now, Now')
           /\ Shows(Now, fb) => Shows([drv |-> drv', lib |-> lib'], fb)
           /\ ~ allowSleep /\ Leaves(Now, fb) => Leaves([drv |-> drv', lib |-> lib'], fb)
           /\ panel = "good" /\ drv'.retry = "wait" => drv.retry = "wait"
<1> DEFINE Well(t) ==
             /\ Sound(t) /\ FromTheGlass(Now, t)
             /\ Shows(Now, fb) => Shows(t, fb)
             /\ ~ allowSleep /\ Leaves(Now, fb) => Leaves(t, fb)
             /\ panel = "good" /\ t.drv.retry = "wait" => drv.retry = "wait"
<1>0. PICK p \in IF Busy(lib) /\ ~ done THEN {lib} ELSE Polled(lib, fb, panel = "good") :
         \E t \in PolledTo(allowSleep, p) : drv' = t.drv /\ lib' = t.lib
  BY DEF PollCore
<1>1. PICK t \in PolledTo(allowSleep, p) : drv' = t.drv /\ lib' = t.lib
  BY <1>0
<1> DEFINE e == [drv |-> drv, lib |-> p]
           ended == IF drv.op = "none" THEN e ELSE OpDone(e)
<1>2. /\ Now \in States /\ Now.drv = drv /\ Now.lib = lib
      /\ e.drv = drv /\ e.lib = p
  BY DEF Sound, Now
<1>3. /\ Busy(p) => t = e
      /\ ~ Busy(p) => t \in StartNext(ended) \cup
               {OpStarted(x, "sleep", x.drv.img, {}) :
                    x \in {x \in StartNext(ended) : allowSleep /\ MaySleep(x)}}
  BY DEF PolledTo
<1> HIDE DEF ended
<1>4. ASSUME ~ Busy(p), Idle(ended), Keeps(Now, ended, fb),
             ended.drv.img = drv.img \/ ended.drv.img = "none",
             panel = "good" => ended.drv.retry = drv.retry
      PROVE  Well(t)
  <2>1. /\ Sound(t) /\ Goes(ended, t)
        /\ Shows(ended, fb) => Shows(t, fb)
        /\ ~ allowSleep /\ Leaves(ended, fb) => Leaves(t, fb)
    BY <1>3, <1>4, RestKeeps
  <2> QED
    BY <1>2, <1>4, <2>1 DEF Goes, Keeps, FromTheGlass
<1>5. ASSUME Busy(lib) /\ ~ done PROVE Well(t)
  <2>1. t = Now
    BY <1>0, <1>3, <1>5 DEF Now
  <2> QED
    BY <1>2, <2>1 DEF FromTheGlass
<1>6. ASSUME p \in Polled(lib, fb, panel = "good") /\ drv.op = "none" PROVE Well(t)
  <2>1. (panel = "good") \in BOOLEAN
    OBVIOUS
  <2>2. Keeps(Now, e, fb) /\ (~ Busy(p) => Idle(e))
    BY <1>2, <1>6, <2>1, OwnKeeps
  <2>3. CASE Busy(p)
    <3>1. t = e
      BY <1>3, <2>3
    <3>2. p.job.kind \in {"none", "off"}
      BY <1>2, <1>6, <2>2 DEF Keeps, Sound, JobIsOp
    <3> QED
      BY <1>2, <2>2, <3>1, <3>2 DEF Keeps, FromTheGlass
  <2>4. CASE ~ Busy(p)
    <3>1. ended = e
      BY <1>6 DEF ended
    <3> QED
      BY <1>2, <1>4, <2>2, <2>4, <3>1
  <2> QED
    BY <2>3, <2>4
<1>7. ASSUME p \in Polled(lib, fb, panel = "good") /\ drv.op # "none" PROVE Well(t)
  <2>1. Now.drv.op # "none" /\ ended = OpDone(e) /\ lib.job.kind = drv.op /\ Busy(lib)
    BY <1>2, <1>7 DEF ended, Sound, JobIsOp, Busy
  <2>2. p = Advanced(lib, fb) \/ (p = TimedOut(lib) /\ panel # "good")
    BY <1>7, <2>1 DEF Polled
  <2>3. lib.job.phase \in {"data", "wave", "resync"}
    BY <1>2, <2>1 DEF Sound, States, LibType, JobType, Phased, Busy
  <2>4. CASE /\ p = Advanced(lib, fb)
             /\ \/ lib.job.phase = "data"
                \/ lib.job.phase = "wave" /\ lib.job.kind = "partial" /\ lib.job.mode = "mono"
    <3>1. Keeps(Now, e, fb) /\ Busy(e.lib)
      BY <1>2, <2>1, <2>4, OnwardKeeps
    <3>2. t = e
      BY <1>2, <1>3, <3>1
    <3>3. FromTheGlass(Now, e)
      <4>1. CASE lib.job.phase = "data"
        BY <1>2, <4>1 DEF FromTheGlass
      <4>2. CASE lib.job.phase = "wave" /\ lib.job.kind = "partial" /\ lib.job.mode = "mono"
        <5>1. lib \in LibType /\ lib.job \in JobType
          BY <1>2 DEF States, LibType
        <5>2. p.job = [lib.job EXCEPT !.phase = "resync"]
          BY <2>1, <2>4, <4>2, <5>1, AdvancedLib
        <5>3. p.job.phase = "resync"
          BY <5>1, <5>2 DEF JobType
        <5> QED
          BY <1>2, <5>3 DEF FromTheGlass
      <4> QED
        BY <2>4, <4>1, <4>2
    <3> QED
      BY <1>2, <3>1, <3>2, <3>3 DEF Keeps
  <2>5. CASE /\ p = Advanced(lib, fb)
             /\ \/ lib.job.phase = "wave" /\ ~ (lib.job.kind = "partial" /\ lib.job.mode = "mono")
                \/ lib.job.phase = "resync"
    <3>1. /\ ~ Busy(p) /\ Settled(Now, ended) /\ Keeps(Now, ended, fb)
          /\ ended.drv.retry = drv.retry
      BY <1>2, <2>1, <2>5, EndKeeps
    <3> QED
      BY <1>2, <1>4, <3>1 DEF Settled
  <2>6. CASE p = TimedOut(lib) /\ panel # "good"
    <3>1. ~ Busy(p) /\ Settled(Now, ended) /\ Keeps(Now, ended, fb)
      BY <1>2, <2>1, <2>6, TimeoutKeeps
    <3> QED
      BY <1>2, <1>4, <2>6, <3>1 DEF Settled
  <2> QED
    BY <2>2, <2>3, <2>4, <2>5, <2>6
<1>8. Well(t)
  BY <1>0, <1>5, <1>6, <1>7
<1>9. t = [drv |-> drv', lib |-> lib'] /\ Now' = [drv |-> drv', lib |-> lib']
  BY <1>1, <1>8 DEF Sound, States, Now
<1> QED
  BY <1>1, <1>8, <1>9

----------------------------------------------------------------------------
(* The requests, and the end of the display's life.                        *)

LEMMA NowIs == Now.drv = drv /\ Now.lib = lib /\ Now'.drv = drv' /\ Now'.lib = lib'
BY DEF Now

LEMMA HullOf ==
    ASSUME NEW rows \in SUBSET Rows
    PROVE  Hull(rows) \in SUBSET Rows /\ rows \subseteq Hull(rows)
<1>1. \A r \in rows : r \in Nat /\ r <= r
  BY EinkAssumption
<1> QED
  BY <1>1 DEF Hull

\* A change of mode and a request take back nothing that was asked for before.
LEMMA RequestedSound ==
    ASSUME Sound(Now), NEW mode \in Modes, NEW full \in BOOLEAN, NEW rows \in SUBSET Rows,
           drv' = Requested(ModeSet(drv, mode), full, rows), UNCHANGED lib
    PROVE  /\ Sound(Now') /\ drv'.target = mode
           /\ full \/ drv.full => drv'.full
           /\ ~ drv'.full => drv.region \subseteq drv'.region /\ rows \subseteq drv'.region
           /\ drv'.op = drv.op /\ drv'.img = drv.img /\ drv'.prev = drv.prev
           /\ drv'.retry = drv.retry
<1> DEFINE d == ModeSet(drv, mode)
<1>1. Now \in States /\ drv \in DrvType /\ lib \in LibType
  BY NowIs DEF Sound, States
<1>2. /\ d \in DrvType /\ d.target = mode /\ (~ d.full => ~ drv.full /\ mode = drv.target)
      /\ d.region = drv.region /\ d.op = drv.op /\ d.opMode = drv.opMode /\ d.img = drv.img
      /\ d.prev = drv.prev /\ d.retry = drv.retry /\ d.hw = drv.hw /\ d.asleep = drv.asleep
  BY <1>1 DEF ModeSet, DrvType
<1> HIDE DEF d
<1>3. drv.region \cup rows \in SUBSET Rows
  BY <1>1 DEF DrvType
<1>4. /\ drv' \in DrvType /\ drv'.target = mode
      /\ ~ drv'.full => ~ full /\ ~ d.full /\ drv'.region = Hull(drv.region \cup rows)
      /\ RequestPending(drv') \/ ~ RequestPending(drv)
      /\ drv'.op = drv.op /\ drv'.opMode = drv.opMode /\ drv'.img = drv.img
      /\ drv'.prev = drv.prev /\ drv'.retry = drv.retry /\ drv'.hw = drv.hw
      /\ drv'.asleep = drv.asleep
  <2>1. CASE full
    <3>1. drv' = [d EXCEPT !.full = TRUE]
      BY <2>1 DEF Requested, FullRequested, d
    <3> QED
      BY <1>2, <2>1, <3>1 DEF DrvType, RequestPending
  <2>2. CASE ~ full
    <3>1. drv' = [d EXCEPT !.region = Hull(d.region \cup rows)]
      BY <2>2 DEF Requested, RegionRequested, d
    <3>2. PICK hull \in SUBSET Rows :
             hull = Hull(drv.region \cup rows) /\ drv.region \cup rows \subseteq hull
      BY <1>3, HullOf
    <3>3. drv' = [d EXCEPT !.region = hull]
      BY <1>2, <3>1, <3>2
    <3>4. /\ drv' \in DrvType /\ drv'.full = d.full /\ drv'.region = hull
          /\ drv'.target = d.target /\ drv'.op = d.op /\ drv'.opMode = d.opMode
          /\ drv'.img = d.img /\ drv'.prev = d.prev /\ drv'.retry = d.retry
          /\ drv'.hw = d.hw /\ drv'.asleep = d.asleep
      BY <1>2, <3>3 DEF DrvType
    <3>5. RequestPending(drv') \/ ~ RequestPending(drv)
      BY <1>2, <3>2, <3>4 DEF RequestPending
    <3> QED
      BY <1>2, <2>2, <3>2, <3>4, <3>5
  <2> QED
    BY <2>1, <2>2
<1>5. Now' \in States
  BY <1>1, <1>4 DEF Now, States
<1>6. JobIsOp(Now') /\ Phased(Now') /\ Agrees(Now') /\ Operated(Now')
  BY <1>4, NowIs DEF Sound, JobIsOp, Phased, Agrees, Operated
<1>7. Asked(drv')
  <2>1. Asked(drv)
    BY NowIs DEF Sound
  <2> QED
    BY <1>2, <1>4, <2>1 DEF Asked
<1>8. Sound(Now')
  BY <1>5, <1>6, <1>7, NowIs DEF Sound
<1> QED
  BY <1>2, <1>3, <1>4, <1>8, HullOf

\* What has been drawn is asked for.
LEMMA RenderKeeps ==
    ASSUME IInv, Render
    PROVE  Sound(Now') /\ Shows(Now', fb')
<1>1. PICK full \in BOOLEAN, rows \in {ui.stale, Rows} :
         drv' = Requested(ModeSet(drv, ModeOf(ui.screen)), full, rows)
  BY DEF Render
<1>2. /\ ui.stale \in SUBSET Rows /\ ModeOf(ui.screen) \in Modes
      /\ rows \in SUBSET Rows /\ ui.stale \subseteq rows
  BY DEF IInv, ModeOf, Modes
<1>3. /\ UNCHANGED lib /\ Sound(Now) /\ Shows(Now, fb)
      /\ \A r \in Rows \ ui.stale : fb'[r] = fb[r]
  BY DEF Render, IInv, Looping
<1>4. /\ Sound(Now') /\ drv'.target = ModeOf(ui.screen)
      /\ full \/ drv.full => drv'.full
      /\ ~ drv'.full => drv.region \subseteq drv'.region /\ rows \subseteq drv'.region
      /\ drv'.op = drv.op /\ drv'.img = drv.img /\ drv'.prev = drv.prev
      /\ drv'.retry = drv.retry
  BY <1>1, <1>2, <1>3, RequestedSound
<1>5. ~ Sending(Now) /\ ~ Sending(Now')
  BY <1>3, <1>4, NowIs DEF Render, ReadyForRender, DataBusy, Sending
<1>6. Covered(Now', fb')
  BY <1>2, <1>3, <1>4, <1>5, NowIs DEF Shows, Covered
<1>7. Known(Now', fb')
  BY <1>3, <1>4, <1>5, NowIs DEF Shows, Known
<1> QED
  BY <1>4, <1>6, <1>7 DEF Shows

LEMMA PowerOffKeeps ==
    ASSUME IInv, PowerOff
    PROVE  Sound(Now') /\ Leaves(Now', fb')
<1>1. /\ drv' = Requested(ModeSet(drv, "gray"), TRUE, {}) /\ UNCHANGED lib /\ Sound(Now)
      /\ "gray" \in Modes /\ TRUE \in BOOLEAN /\ {} \in SUBSET Rows
  BY DEF PowerOff, Requested, IInv, Modes
<1>2. Sound(Now') /\ drv'.target = "gray" /\ drv'.full
  BY <1>1, RequestedSound
<1> QED
  BY <1>2, NowIs DEF Leaves

\* The wait that is given up leaves the driver as after an error.
LEMMA GiveUpKeeps ==
    ASSUME Sound(Now), GiveUp
    PROVE  Sound(Now') /\ drv'.op = "none" /\ drv'.hw = "off"
<1>1. Now \in States /\ drv \in DrvType /\ lib \in LibType
  BY NowIs DEF Sound, States
<1>2. /\ drv' \in DrvType /\ drv'.op = "none" /\ drv'.hw = "off" /\ ~ drv'.asleep
      /\ drv'.img = "none"
  BY <1>1, BlankFrame DEF GiveUp, DrvType, Modes
<1>3. /\ lib' \in LibType /\ lib'.job = NoJob /\ lib'.result = "ok"
  BY <1>1, AbortedLib DEF GiveUp
<1>4. Now' \in States
  BY <1>2, <1>3 DEF Now, States
<1>5. JobIsOp(Now') /\ Phased(Now') /\ Agrees(Now') /\ Operated(Now') /\ Asked(drv')
  BY <1>2, <1>3, NowIs DEF JobIsOp, Phased, Agrees, Operated, Asked, NoJob
<1> QED
  BY <1>2, <1>3, <1>4, <1>5, NowIs DEF Sound

\* The last sleep: the picture of a power off that was waited for stays, and a panel
\* that answers loses its power.
LEMMA SleepEnds ==
    ASSUME IInv, Sleep
    PROVE  /\ Standing(Now') /\ drv'.op = "none" /\ ~ Busy(lib')
           /\ at = "waited" => lib'.glass = fb /\ (panel = "good" => ~ lib'.live)
<1> DEFINE still == IF Busy(lib) THEN Finished(lib) ELSE lib
           asked == drv.hw # "off" /\ ~ drv.asleep
           begun == Started(still, "sleep", drv.img, {})
<1>1. /\ Now \in States /\ drv \in DrvType /\ lib \in LibType /\ lib.result = "ok"
      /\ at \in {"waited", "dropped"} /\ drv.op = "none"
      /\ JobIsOp(Now) /\ Phased(Now) /\ Agrees(Now) /\ Asked(drv)
      /\ at = "waited" => Leaves(Now, fb) /\ ~ drv.full
      /\ at = "dropped" => drv.hw = "off"
  BY NowIs DEF IInv, Sleep, Sound, States
<1>2. NoJob.kind = "none" /\ NoJob.phase = "none"
  BY DEF NoJob
<1>3. lib.job.kind \in {"none", "off"}
  BY <1>1, NowIs DEF JobIsOp
<1>4. /\ still \in LibType /\ still.job.kind = "none" /\ still.job.phase = "none"
      /\ still.glass = lib.glass /\ still.result = "ok"
      /\ still.mode = lib.mode /\ still.asleep = lib.asleep
  <2>1. CASE Busy(lib)
    BY <1>1, <1>2, <1>3, <2>1, FinishedLib DEF Busy
  <2>2. CASE ~ Busy(lib)
    BY <1>1, <2>2, NowIs DEF Busy, Phased
  <2> QED
    BY <2>1, <2>2
<1>5. /\ lib' \in IF ~ asked \/ ~ Accepts(still, "sleep", drv.img) THEN {still}
                  ELSE {Finished(begun)}
                       \cup (IF panel = "good" THEN {} ELSE {TimedOut(begun)})
      /\ drv' = IF ~ asked THEN drv
                ELSE IF drv.hw = "gray" THEN [drv EXCEPT !.hw = "off"]
                ELSE [drv EXCEPT !.asleep = TRUE]
  BY DEF Sleep
<1> HIDE DEF still, begun
<1>6. CASE at = "dropped"
  <2>1. lib' = still /\ drv' = drv /\ at # "waited"
    BY <1>1, <1>5, <1>6
  <2>2. Now' \in States
    BY <1>1, <1>4, <2>1 DEF Now, States
  <2> QED
    BY <1>1, <1>4, <1>6, <2>1, <2>2, NowIs DEF Standing, Agrees, Busy
<1>7. CASE at = "waited"
  <2>1. /\ drv.target = "gray" /\ drv.region = {} /\ drv.img = "gray" /\ drv.hw = "gray"
        /\ ~ drv.full /\ lib.glass = fb
    BY <1>1, <1>7, NowIs DEF Leaves, Sending
  <2>2. lib.mode = "gray" /\ ~ drv.asleep
    BY <1>1, <2>1, NowIs DEF Agrees
  <2>3. Accepts(still, "sleep", drv.img)
    BY <1>4, <2>2 DEF Accepts, Busy
  <2>4. /\ begun \in LibType /\ begun.job.kind = "sleep" /\ begun.job.rows = {}
        /\ begun.mode = "gray" /\ begun.glass = fb
    <3>1. "sleep" \in Kinds /\ "gray" \in Modes /\ {} \in SUBSET Rows
      BY DEF Kinds, Jobs, Modes
    <3> QED
      BY <1>4, <2>1, <2>2, <3>1, StartedLib DEF begun
  <2>5. /\ drv' = [drv EXCEPT !.hw = "off"]
        /\ lib' = Finished(begun) \/ (panel # "good" /\ lib' = TimedOut(begun))
    BY <1>5, <2>1, <2>2, <2>3
  <2>6. Busy(begun)
    BY <2>4 DEF Busy
  <2>7. /\ lib' \in LibType /\ lib'.job = NoJob /\ lib'.glass = fb
        /\ panel = "good" => ~ lib'.live
    <3>1. CASE lib' = Finished(begun)
      BY <2>4, <2>6, <3>1, FinishedLib
    <3>2. CASE panel # "good" /\ lib' = TimedOut(begun)
      BY <2>4, <3>2, TimedOutLib
    <3> QED
      BY <2>5, <3>1, <3>2
  <2>8. drv' \in DrvType /\ drv'.op = "none" /\ ~ drv'.asleep
    BY <1>1, <2>2, <2>5 DEF DrvType
  <2>9. Now' \in States
    BY <2>7, <2>8 DEF Now, States
  <2> QED
    BY <1>2, <2>7, <2>8, <2>9, NowIs DEF Standing, Busy
<1> QED
  BY <1>1, <1>6, <1>7

\* A driver and a library that have just been started.
LEMMA StartedSound ==
    ASSUME NEW glass \in [Rows -> Colours \cup {Unclear}], NEW f
    PROVE  LET s == [drv |-> Driver, lib |-> Unpowered(glass)]
           IN  Sound(s) /\ Shows(s, f)
<1> DEFINE s == [drv |-> Driver, lib |-> Unpowered(glass)]
<1>1. s.drv = Driver /\ s.lib = Unpowered(glass)
  OBVIOUS
<1>2. Driver \in DrvType
  BY BlankFrame DEF Driver, DrvType, Modes
<1>3. /\ s.lib \in LibType /\ s.lib.job = NoJob /\ s.lib.result = "ok"
  BY NoJobType DEF Unpowered, LibType
<1>4. s \in States
  BY <1>1, <1>2, <1>3 DEF States
<1> HIDE DEF s
<1>5. JobIsOp(s) /\ Phased(s) /\ Agrees(s) /\ Operated(s) /\ Asked(s.drv) /\ Shows(s, f)
  BY <1>1, <1>3
     DEF Driver, JobIsOp, Phased, Agrees, Operated, Asked, Shows, Covered, Known, NoJob
<1> QED
  BY <1>3, <1>4, <1>5 DEF Sound, s

----------------------------------------------------------------------------
(* The specification.                                                      *)

Updates ==
    FromTheGlass(Now, Now') /\ (panel = "good" /\ drv'.retry = "wait" => drv.retry = "wait")

LEMMA InitInv == Init => IInv
<1> SUFFICES ASSUME Init PROVE IInv
  OBVIOUS
<1>1. [r \in Rows |-> Unclear] \in [Rows -> Colours \cup {Unclear}]
  OBVIOUS
<1>2. Now = [drv |-> Driver, lib |-> Unpowered([r \in Rows |-> Unclear])]
  BY DEF Init, Now
<1>3. Sound(Now) /\ Shows(Now, fb)
  BY <1>1, <1>2, StartedSound
<1> QED
  BY <1>3, BlankFrame DEF Init, IInv, Screens

LEMMA PollStep ==
    ASSUME IInv, NEW done \in BOOLEAN, Poll(done)
    PROVE  IInv' /\ Updates
<1>1. /\ Looping /\ UNCHANGED <<fb, ui, at, panel>> /\ PollCore(TRUE, done)
      /\ Sound(Now) /\ fb \in Frames /\ Shows(Now, fb) /\ TRUE \in BOOLEAN
  BY DEF Poll, IInv, Looping
<1>2. /\ Sound(Now') /\ FromTheGlass(Now, Now')
      /\ Shows(Now, fb) => Shows([drv |-> drv', lib |-> lib'], fb)
      /\ panel = "good" /\ drv'.retry = "wait" => drv.retry = "wait"
  BY <1>1, PollKeeps
<1>3. Shows(Now', fb')
  BY <1>1, <1>2 DEF Now
<1> QED
  BY <1>1, <1>2, <1>3 DEF IInv, Looping, Updates

LEMMA WaitStep ==
    ASSUME IInv, NEW done \in BOOLEAN, WaitPoll(done)
    PROVE  IInv' /\ Updates
<1>1. /\ at = "wait" /\ UNCHANGED <<fb, ui, at, panel>> /\ PollCore(FALSE, done)
      /\ Sound(Now) /\ fb \in Frames /\ Leaves(Now, fb) /\ FALSE \in BOOLEAN
  BY DEF WaitPoll, IInv
<1>2. /\ Sound(Now') /\ FromTheGlass(Now, Now')
      /\ Leaves(Now, fb) => Leaves([drv |-> drv', lib |-> lib'], fb)
      /\ panel = "good" /\ drv'.retry = "wait" => drv.retry = "wait"
  BY <1>1, PollKeeps
<1>3. Leaves(Now', fb')
  BY <1>1, <1>2 DEF Now
<1> QED
  BY <1>1, <1>2, <1>3 DEF IInv, Looping, Updates

\* A step that leaves the driver and the library alone, or asks for more.
LEMMA OtherUpdates ==
    ASSUME drv'.retry = "wait" => drv.retry = "wait",
           lib'.job = lib.job \/ lib'.job.kind = "none"
    PROVE  Updates
BY NowIs DEF Updates, FromTheGlass

LEMMA NextStep ==
    ASSUME IInv, [Next]_vars
    PROVE  IInv' /\ Updates
<1>1. /\ at # "standby" => Sound(Now)
      /\ Now \in States /\ fb \in Frames
  BY DEF IInv, Sound, Standing
<1>2. ASSUME NEW done \in BOOLEAN, Poll(done) \/ WaitPoll(done) PROVE IInv' /\ Updates
  BY <1>2, PollStep, WaitStep
<1>3. ASSUME NEW screen \in Screens, NEW rows \in SUBSET Rows \ {{}}, ScreenChanges(screen, rows)
      PROVE  IInv' /\ Updates
  <2>1. UNCHANGED <<fb, drv, lib, at, panel>> /\ Now' = Now
    BY <1>3 DEF ScreenChanges, Now
  <2>2. ui' \in [screen : Screens, shown : Screens, stale : SUBSET Rows]
    BY <1>3 DEF ScreenChanges, IInv
  <2>3. Updates
    BY <2>1, OtherUpdates
  <2> QED
    BY <2>1, <2>2, <2>3 DEF IInv, Looping
<1>4. CASE RetryTime
  <2>1. drv' = [drv EXCEPT !.retry = "none"] /\ UNCHANGED <<fb, lib, ui, at, panel>>
    BY <1>4 DEF RetryTime
  <2>2. /\ drv' \in DrvType /\ drv'.retry = "none" /\ drv'.op = drv.op
        /\ drv'.full = drv.full /\ drv'.hw = drv.hw /\ drv'.asleep = drv.asleep
    BY <1>1, <2>1, NowIs DEF States, DrvType
  <2>3. Updates
    BY <2>1, <2>2, OtherUpdates
  <2>4. CASE at = "standby"
    <3>1. Now' \in States
      BY <1>1, <2>1, <2>2, NowIs DEF Now, States
    <3>2. Standing(Now')
      BY <2>1, <2>2, <2>4, <3>1, NowIs DEF IInv, Standing, Busy
    <3> QED
      BY <2>1, <2>2, <2>3, <2>4, <3>2 DEF IInv, Looping
  <2>5. CASE at # "standby"
    <3> DEFINE t == [Now EXCEPT !.drv = [Now.drv EXCEPT !.retry = "none"]]
    <3>1. Keeps(Now, t, fb)
      BY <1>1, <2>5, NowIs, RetryIsFree
    <3>2. Now' = t
      BY <2>1 DEF Now
    <3> HIDE DEF t
    <3> QED
      BY <2>1, <2>2, <2>3, <2>5, <3>1, <3>2 DEF IInv, Looping, Keeps
  <2> QED
    BY <2>4, <2>5
<1>5. CASE Render
  <2>1. Sound(Now') /\ Shows(Now', fb')
    BY <1>5, RenderKeeps
  <2>2. /\ at' = "run" /\ fb' \in Frames /\ UNCHANGED <<lib, panel>>
        /\ ui' \in [screen : Screens, shown : Screens, stale : SUBSET Rows]
    BY <1>5 DEF Render, IInv
  <2>3. drv'.retry = drv.retry
    <3>1. PICK full \in BOOLEAN, rows \in {ui.stale, Rows} :
             drv' = Requested(ModeSet(drv, ModeOf(ui.screen)), full, rows)
      BY <1>5 DEF Render
    <3>2. rows \in SUBSET Rows /\ ModeOf(ui.screen) \in Modes
      BY DEF IInv, ModeOf, Modes
    <3> QED
      BY <1>1, <1>5, <2>2, <3>1, <3>2, RequestedSound DEF Render, Looping
  <2>4. Updates
    BY <2>2, <2>3, OtherUpdates
  <2> QED
    BY <2>1, <2>2, <2>4 DEF IInv, Looping
<1>6. CASE PanelChanges
  <2>1. UNCHANGED <<fb, drv, lib, ui, at>> /\ Now' = Now /\ panel' \in {"good", "bad"}
    BY <1>6 DEF PanelChanges, Now
  <2>2. Updates
    BY <2>1, OtherUpdates
  <2> QED
    BY <2>1, <2>2 DEF IInv, Looping
<1>7. CASE PowerOff
  <2>1. Sound(Now') /\ Leaves(Now', fb')
    BY <1>7, PowerOffKeeps
  <2>2. /\ at' = "wait" /\ fb' \in Frames /\ UNCHANGED <<lib, panel>>
        /\ ui' \in [screen : Screens, shown : Screens, stale : SUBSET Rows]
    BY <1>7 DEF PowerOff, IInv
  <2>3. drv'.retry = drv.retry
    <3>1. /\ drv' = Requested(ModeSet(drv, "gray"), TRUE, {})
          /\ "gray" \in Modes /\ TRUE \in BOOLEAN /\ {} \in SUBSET Rows
      BY <1>7 DEF PowerOff, Requested, Modes
    <3> QED
      BY <1>1, <1>7, <2>2, <3>1, RequestedSound DEF PowerOff
  <2>4. Updates
    BY <2>2, <2>3, OtherUpdates
  <2> QED
    BY <2>1, <2>2, <2>4 DEF IInv, Looping
<1>8. CASE GiveUp
  <2>1. Sound(Now') /\ drv'.op = "none" /\ drv'.hw = "off"
    BY <1>1, <1>8, GiveUpKeeps DEF GiveUp
  <2>2. at' = "dropped" /\ UNCHANGED <<fb, ui, panel>> /\ lib' = Aborted(lib)
    BY <1>8 DEF GiveUp
  <2>3. drv'.retry = drv.retry /\ lib'.job.kind = "none"
    BY <1>1, <1>8, <2>2, NowIs, AbortedLib DEF GiveUp, States, DrvType, NoJob
  <2>4. Updates
    BY <2>3, OtherUpdates
  <2> QED
    BY <2>1, <2>2, <2>4 DEF IInv, Looping
<1>9. CASE WaitEnds
  <2>1. /\ at = "wait" /\ at' = "waited" /\ UNCHANGED <<fb, drv, lib, ui, panel>> /\ Now' = Now
        /\ drv.op = "none" /\ ~ drv.full
    BY <1>9 DEF WaitEnds, Now, IsBusy, RequestPending
  <2>2. Updates
    BY <2>1, OtherUpdates
  <2> QED
    BY <2>1, <2>2 DEF IInv, Looping
<1>10. CASE Sleep
  <2>1. Standing(Now') /\ drv'.op = "none" /\ ~ Busy(lib')
    BY <1>10, SleepEnds
  <2>2. at' = "standby" /\ UNCHANGED <<fb, ui, panel>>
    BY <1>10 DEF Sleep
  <2>3. drv'.retry = drv.retry
    BY <1>1, <1>10, NowIs DEF Sleep, States, DrvType
  <2>4. lib'.job.kind = "none"
    BY <2>1 DEF Busy
  <2> QED
    BY <2>1, <2>2, <2>3, <2>4, OtherUpdates DEF IInv, Looping
<1>11. CASE Boot
  <2>1. /\ drv' = Driver /\ lib' = Unpowered(CutShort(lib).glass) /\ fb' = Blank
        /\ at' = "boot" /\ ui' = [screen |-> "map", shown |-> "map", stale |-> Rows]
        /\ UNCHANGED panel
    BY <1>11 DEF Boot, Booted
  <2>2. CutShort(lib).glass \in [Rows -> Colours \cup {Unclear}]
    BY <1>1, NowIs, CutShortLib DEF States, LibType
  <2>3. Now' = [drv |-> Driver, lib |-> Unpowered(CutShort(lib).glass)]
    BY <2>1 DEF Now
  <2>4. Sound(Now') /\ Shows(Now', fb')
    BY <2>2, <2>3, StartedSound
  <2>5. drv'.retry = "none" /\ lib'.job.kind = "none"
    BY <2>1 DEF Driver, Unpowered, NoJob
  <2>6. Updates
    BY <2>5, OtherUpdates
  <2> QED
    BY <2>1, <2>4, <2>6, BlankFrame DEF IInv, Looping, Screens
<1>12. CASE UNCHANGED vars
  <2>1. UNCHANGED <<fb, drv, lib, ui, at, panel>> /\ Now' = Now
    BY <1>12 DEF vars, Now
  <2>2. Updates
    BY <2>1, OtherUpdates
  <2> QED
    BY <2>1, <2>2 DEF IInv, Looping
<1> QED
  BY <1>2, <1>3, <1>4, <1>5, <1>6, <1>7, <1>8, <1>9, <1>10, <1>11, <1>12 DEF Next

LEMMA AlwaysInv == Spec => []IInv
<1>1. IInv /\ [Next]_vars => IInv'
  BY NextStep
<1> QED
  BY <1>1, InitInv, PTL DEF Spec

----------------------------------------------------------------------------
(* The theorems.                                                           *)

\* Types, and: a driver that waits for an operation waits for the job the library has,
\* so display_eink_wait and the loop never wait for one that is not running.
THEOREM EinkTypes == Spec => []TypeOK
<1>1. IInv => TypeOK
  <2> SUFFICES ASSUME IInv PROVE TypeOK
    OBVIOUS
  <2>1. /\ drv \in DrvType /\ lib \in LibType
        /\ Standing(Now) \/ (JobIsOp(Now) /\ Agrees(Now))
    BY NowIs DEF IInv, Sound, Standing, States
  <2>2. drv.asleep => drv.hw = "mono"
    BY <2>1, NowIs DEF Agrees, Standing
  <2>3. drv.op # "none" => Busy(lib) /\ lib.job.kind = drv.op
    BY <2>1, NowIs DEF JobIsOp, Busy, Standing
  <2>4. /\ drv \in [target : Modes, full : BOOLEAN, region : SUBSET Rows,
                    hw : Modes \cup {"off"}, asleep : BOOLEAN, img : Modes \cup {"none"},
                    op : {"none", "init", "full", "partial", "sleep"}, opMode : Modes,
                    retry : {"none", "wait"}, prev : Frames]
        /\ lib \in [job : [kind : {"none", "init", "full", "partial", "sleep", "off"},
                           mode : Modes, rows : SUBSET Rows,
                           phase : {"none", "data", "wave", "resync"}],
                    mode : Modes \cup {"none"}, asleep : BOOLEAN, live : BOOLEAN,
                    result : {"ok", "failed"}, glass : [Rows -> Colours \cup {Unclear}]]
    <3>1. /\ {"none"} \cup Jobs = {"none", "init", "full", "partial", "sleep"}
          /\ Kinds = {"none", "init", "full", "partial", "sleep", "off"}
      BY DEF Jobs, Kinds
    <3> QED
      BY <2>1, <3>1 DEF DrvType, LibType, JobType
  <2> QED
    BY <2>2, <2>3, <2>4 DEF TypeOK, IInv
<1> QED
  BY <1>1, AlwaysInv, PTL

\* display_eink_is_busy: when the driver has nothing under way and nothing to do, the
\* panel shows the framebuffer, whatever requests were merged, whatever operations
\* failed, were repeated or slept through before.
THEOREM EinkRestShowsFrame == Spec => []RestShowsFrame
<1>1. IInv => RestShowsFrame
  <2> SUFFICES ASSUME IInv, Looping, ~ IsBusy(drv), drv.img # "none" PROVE lib.glass = fb
    BY DEF RestShowsFrame
  <2>1. ~ drv.full /\ drv.region = {} /\ drv.op = "none"
    BY DEF IsBusy, RequestPending
  <2>2. \A r \in Rows : lib.glass[r] = fb[r]
    BY <2>1, NowIs DEF IInv, Shows, Covered, Sending
  <2>3. lib.glass = [r \in Rows |-> lib.glass[r]] /\ fb = [r \in Rows |-> fb[r]]
    BY NowIs DEF IInv, Looping, Sound, States, LibType, Frames
  <2>4. [r \in Rows |-> lib.glass[r]] = [r \in Rows |-> fb[r]]
    BY <2>2
  <2> QED
    BY <2>3, <2>4
<1> QED
  BY <1>1, AlwaysInv, PTL

\* start_next: a gray partial update, which drives the glass by the difference from
\* s_prev, is only begun when s_prev is what the glass shows in every row.
THEOREM EinkStartsFromGlass == Spec => StartsFromTheGlass
<1>1. IInv /\ [Next]_vars =>
        [Looping /\ lib'.job.kind = "partial" /\ lib'.job.mode = "gray" /\ lib'.job # lib.job
             /\ lib'.job.phase \in {"data", "wave"} /\ lib.job.phase # "data"
           => lib.glass = drv.prev]_vars
  <2> SUFFICES ASSUME IInv, [Next]_vars, Looping, lib'.job.kind = "partial",
                      lib'.job.mode = "gray", lib'.job # lib.job,
                      lib'.job.phase \in {"data", "wave"}, lib.job.phase # "data"
               PROVE  lib.glass = drv.prev
    OBVIOUS
  <2>1. drv.img = "gray"
    BY NextStep, NowIs DEF Updates, FromTheGlass
  <2> QED
    BY <2>1, NowIs DEF IInv, Shows, Known, Sending
<1> QED
  BY <1>1, AlwaysInv, PTL DEF Spec, StartsFromTheGlass

\* op_started: what the driver believes of the panel's mode and sleep is so, and so
\* with a panel that answers no start is refused and no operation fails.
THEOREM EinkNothingRefused == Spec => NothingRefused
<1>1. IInv /\ [Next]_vars => [panel = "good" /\ drv'.retry = "wait" => drv.retry = "wait"]_vars
  BY NextStep DEF Updates
<1> QED
  BY <1>1, AlwaysInv, PTL DEF Spec, NothingRefused

\* purrgo_system_power_off: a wait that has ended by itself leaves the last picture on
\* the glass and the panel idle, and without power if it answers.
THEOREM EinkPowerOffShown == Spec => PowerOffShown
<1>1. IInv /\ [Next]_vars =>
        [at = "waited" /\ at' = "standby" =>
            lib'.glass = fb' /\ ~ Busy(lib') /\ (panel = "good" => ~ lib'.live)]_vars
  <2> SUFFICES ASSUME IInv, [Next]_vars, at = "waited", at' = "standby"
               PROVE  lib'.glass = fb' /\ ~ Busy(lib') /\ (panel = "good" => ~ lib'.live)
    OBVIOUS
  <2>1. Sleep
    BY DEF Next, vars, Poll, WaitPoll, ScreenChanges, RetryTime, Render, PanelChanges,
           PowerOff, GiveUp, WaitEnds, Boot, Booted, Looping
  <2>2. fb' = fb
    BY <2>1 DEF Sleep
  <2> QED
    BY <2>1, <2>2, SleepEnds
<1> QED
  BY <1>1, AlwaysInv, PTL DEF Spec, PowerOffShown
=============================================================================
