-------------------------------- MODULE Eink --------------------------------
(***************************************************************************)
(* display_eink.c and who draws for it: the main loop, which renders only  *)
(* while the library does not read the framebuffer, and power_off, which   *)
(* draws its last picture at any moment and then waits for it.             *)
(*                                                                         *)
(* A picture is a colour for each row.  A renderer is known by the rows it *)
(* may change and by the region it asks to have refreshed, which covers    *)
(* them.  Times (the pause after an error, the idle time before sleep, the *)
(* limit of a wait) run out at any moment.                                 *)
(***************************************************************************)
EXTENDS Integers, FiniteSets

CONSTANTS Rows,    (* of the framebuffer                                    *)
          Colours,
          White,   (* what an empty framebuffer holds                       *)
          Unclear  (* what a row of the glass shows that no one can say     *)

ASSUME EinkAssumption ==
    /\ Rows # {} /\ Rows \subseteq Nat /\ IsFiniteSet(Rows)
    /\ White \in Colours /\ Unclear \notin Colours

VARIABLES
    fb,      (* the framebuffer                                             *)
    drv,     (* the statics of display_eink.c                               *)
    lib,     (* the library and the panel                                   *)
    ui,      (* the screen, the one last drawn, and the rows out of date    *)
    at,      (* "boot" up to the first picture, "run", or in power_off      *)
    panel    (* "good", or "bad": it may stay busy                          *)

vars == <<fb, drv, lib, ui, at, panel>>

INSTANCE Epd4g

\* What the screens are told apart by: the map is drawn in gray, the menus, the
\* book and the trip computer in one bit.
Screens == {"map", "menu"}

ModeOf(screen) == IF screen = "map" THEN "gray" ELSE "mono"

Frames == [Rows -> Colours]

Blank == [r \in Rows |-> White]

\* The rows between the first and the last of a set: what merged regions cover.
Hull(rows) == {r \in Rows : \E a, b \in rows : a <= r /\ r <= b}

Driver ==
    [target |-> "gray", full |-> FALSE, region |-> {}, hw |-> "off", asleep |-> FALSE,
     img |-> "none", op |-> "none", opMode |-> "gray", retry |-> "none",
     prev |-> Blank]

Booted(glass) ==
    /\ fb' = Blank
    /\ drv' = Driver
    /\ lib' = Unpowered(glass)
    /\ ui' = [screen |-> "map", shown |-> "map", stale |-> Rows]
    /\ at' = "boot"

Init ==
    /\ fb = Blank
    /\ drv = Driver
    /\ lib = Unpowered([r \in Rows |-> Unclear])
    /\ ui = [screen |-> "map", shown |-> "map", stale |-> Rows]
    /\ at = "boot"
    /\ panel = "good"

----------------------------------------------------------------------------
(* display_eink.c: a state is the driver and the library below it.  prev   *)
(* is blank while no gray picture is known, and opMode gray while nothing  *)
(* is under way: the code does not look at them then.                      *)

RequestPending(d) == d.full \/ d.region # {}

IsBusy_OnlyOp(d) == d.op # "none"

\* display_eink_is_busy
IsBusy(d) == d.op # "none" \/ RequestPending(d)

OpFailed_Forgets(s) ==
    [drv |-> [s.drv EXCEPT !.op = "none", !.opMode = "gray", !.hw = "off", !.asleep = FALSE,
                           !.img = "none", !.prev = Blank,
                           !.retry = "wait"],
     lib |-> Aborted(s.lib)]

\* op_done after an error: the picture is lost and is sent again, as a whole.
OpFailed(s) ==
    [drv |-> [s.drv EXCEPT !.op = "none", !.opMode = "gray", !.hw = "off", !.asleep = FALSE,
                           !.img = "none", !.prev = Blank,
                           !.full = @ \/ s.drv.op \in {"full", "partial"}, !.retry = "wait"],
     lib |-> Aborted(s.lib)]

OpDone(s) ==
    LET d == [s.drv EXCEPT !.op = "none", !.opMode = "gray"]
    IN  CASE s.lib.result = "failed" -> OpFailed(s)
          [] s.lib.result = "ok" /\ s.drv.op = "init" ->
                [s EXCEPT !.drv = [d EXCEPT !.hw = s.drv.opMode, !.asleep = FALSE]]
          [] s.lib.result = "ok" /\ s.drv.op = "sleep" ->
                [s EXCEPT !.drv = IF d.hw = "gray" THEN [d EXCEPT !.hw = "off"]
                                  ELSE [d EXCEPT !.asleep = TRUE]]
          [] OTHER -> [s EXCEPT !.drv = d]

\* op_started: a start that is refused is an error.
OpStarted(s, op, mode, rows) ==
    LET t == [s EXCEPT !.drv = [@ EXCEPT !.op = op, !.opMode = mode]]
    IN  IF Accepts(s.lib, op, mode) THEN [t EXCEPT !.lib = Started(@, op, mode, rows)]
        ELSE OpFailed(t)

AwakeFor(d, mode) == d.hw = mode /\ (mode = "mono" => ~d.asleep)

\* The parts of start_next.
StartInit(s) == OpStarted(s, "init", s.drv.target, {})

StartFull(s) ==
    LET mode == s.drv.target
        taken == [s.drv EXCEPT !.full = FALSE, !.region = {}, !.img = mode,
                               !.prev = IF mode = "gray" THEN fb ELSE Blank]
    IN  OpStarted([s EXCEPT !.drv = IF Accepts(s.lib, "full", mode) THEN taken ELSE @],
                  "full", mode, Rows)

\* The library draws the rows that differ from prev, or now and then all of them.
StartPartialGray(s) ==
    LET diff == {r \in Rows : s.drv.prev[r] # fb[r]}
        taken == [s.drv EXCEPT !.region = {}, !.prev = fb]
    IN  {OpStarted([s EXCEPT !.drv = IF Accepts(s.lib, "partial", "gray") THEN taken ELSE @],
                   "partial", "gray", rows) : rows \in IF diff = {} THEN {{}} ELSE {diff, Rows}}

StartPartialMono(s) ==
    LET taken == [s.drv EXCEPT !.region = {}, !.asleep = FALSE]
    IN  {OpStarted([s EXCEPT !.drv = IF Accepts(s.lib, "partial", "mono") THEN taken ELSE @],
                   "partial", "mono", rows) : rows \in {s.drv.region, Rows}}

\* start_next
StartNext(s) ==
    LET d == [s.drv EXCEPT !.retry = "none"]
        t == [s EXCEPT !.drv = d]
        needFull == d.full \/ d.img # d.target
    IN  IF ~RequestPending(s.drv) \/ s.drv.retry = "wait" THEN {s}
        ELSE IF needFull /\ AwakeFor(d, d.target) THEN {StartFull(t)}
        ELSE IF needFull \/ (d.target = "gray" /\ ~AwakeFor(d, "gray")) THEN {StartInit(t)}
        ELSE IF d.target = "gray" THEN StartPartialGray(t)
        ELSE StartPartialMono(t)

\* The end of poll_core: deep sleep of a panel that has been idle for a while.
MaySleep(s) ==
    s.drv.op = "none" /\ ~RequestPending(s.drv) /\ s.drv.hw # "off" /\ ~s.drv.asleep

PolledTo_LooksAtOwn(allowSleep, p) ==
    LET s == [drv |-> drv, lib |-> p]
        ended == IF drv.op = "none" THEN s ELSE OpDone(s)
        next == StartNext(ended)
    IN  IF Busy(p) /\ drv.op # "none" THEN {s}
        ELSE next \cup
            {OpStarted(t, "sleep", t.drv.img, {}) : t \in {t \in next : allowSleep /\ MaySleep(t)}}

PolledTo(allowSleep, p) ==
    LET s == [drv |-> drv, lib |-> p]
        ended == IF drv.op = "none" THEN s ELSE OpDone(s)
        next == StartNext(ended)
    IN  IF Busy(p) THEN {s}
        ELSE next \cup
            {OpStarted(t, "sleep", t.drv.img, {}) : t \in {t \in next : allowSleep /\ MaySleep(t)}}

\* poll_core; done says whether the job under way has come to its next phase.
PollCore(allowSleep, done) ==
    \E p \in IF Busy(lib) /\ ~done THEN {lib} ELSE Polled(lib, fb, panel = "good") :
        \E s \in PolledTo(allowSleep, p) : drv' = s.drv /\ lib' = s.lib

\* display_eink_set_mode
ModeSet(d, mode) == [d EXCEPT !.target = mode, !.full = @ \/ mode # d.target]

\* display_eink_request_full and display_eink_request_region
FullRequested(d) == [d EXCEPT !.full = TRUE]

RegionRequested_Replaces(d, rows) == [d EXCEPT !.region = Hull(rows)]

RegionRequested(d, rows) == [d EXCEPT !.region = Hull(@ \cup rows)]

----------------------------------------------------------------------------
(* The main loop.                                                          *)

Looping == at \in {"boot", "run"}

\* display_eink_poll; done says whether the job under way has come to its next
\* phase.
Poll(done) == Looping /\ UNCHANGED <<fb, ui, at, panel>> /\ PollCore(TRUE, done)

\* The end of EINK_RETRY_DELAY_MS.
RetryTime ==
    /\ drv.retry = "wait"
    /\ drv' = [drv EXCEPT !.retry = "none"]
    /\ UNCHANGED <<fb, lib, ui, at, panel>>

\* Buttons, fixes, the clock, the battery: some rows are out of date, or another
\* screen is to be seen.
ScreenChanges(screen, rows) ==
    /\ at = "run" /\ (screen # ui.screen => rows = Rows)
    /\ ui' = [ui EXCEPT !.screen = screen, !.stale = @ \cup rows]
    /\ UNCHANGED <<fb, drv, lib, at, panel>>

ReadyForRender_Always == TRUE

\* display_stm32_ready_for_render
ReadyForRender == ~DataBusy(lib)

\* What a pass of purrgo_app_ui_render asks for: another screen, or who wants the
\* ghosts wiped, a full refresh; else the rows changed, or all of the screen.
Requested(d, full, rows) ==
    IF full THEN FullRequested(d) ELSE RegionRequested(d, rows)

\* purrgo_app_ui_render
Render ==
    /\ Looping /\ ReadyForRender /\ ui.stale # {}
    /\ UNCHANGED <<lib, panel>>
    /\ ui' = [ui EXCEPT !.shown = ui.screen, !.stale = {}]
    /\ at' = "run"
    /\ fb' \in {f \in Frames : \A r \in Rows \ ui.stale : f[r] = fb[r]}
    /\ \E full \in BOOLEAN, rows \in {ui.stale, Rows} :
        /\ ui.screen # ui.shown => full
        /\ drv' = Requested(ModeSet(drv, ModeOf(ui.screen)), full, rows)

PanelChanges ==
    /\ panel' \in {"good", "bad"} \ {panel}
    /\ UNCHANGED <<fb, drv, lib, ui, at>>

----------------------------------------------------------------------------
(* purrgo_system_power_off, and the way back.                              *)

\* The last picture is drawn over whatever is being sent, and asked for; the data
\* is saved in between.
PowerOff ==
    /\ at = "run"
    /\ fb' \in Frames
    /\ drv' = FullRequested(ModeSet(drv, "gray"))
    /\ ui' = [ui EXCEPT !.stale = {}]
    /\ at' = "wait"
    /\ UNCHANGED <<lib, panel>>

\* display_eink_wait
WaitPoll(done) ==
    /\ at = "wait" /\ IsBusy(drv)
    /\ PollCore(FALSE, done)
    /\ UNCHANGED <<fb, ui, at, panel>>

GiveUp_KeepsOp ==
    /\ at = "wait" /\ IsBusy(drv)
    /\ drv' = [drv EXCEPT !.full = FALSE, !.region = {},
                          !.hw = "off", !.asleep = FALSE, !.img = "none", !.prev = Blank]
    /\ lib' = Aborted(lib)
    /\ at' = "dropped"
    /\ UNCHANGED <<fb, ui, panel>>

\* EINK_WAIT_LIMIT_MS is over.
GiveUp ==
    /\ at = "wait" /\ IsBusy(drv)
    /\ drv' = [drv EXCEPT !.op = "none", !.opMode = "gray", !.full = FALSE, !.region = {},
                          !.hw = "off", !.asleep = FALSE, !.img = "none", !.prev = Blank]
    /\ lib' = Aborted(lib)
    /\ at' = "dropped"
    /\ UNCHANGED <<fb, ui, panel>>

WaitEnds ==
    /\ at = "wait" /\ ~IsBusy(drv)
    /\ at' = "waited"
    /\ UNCHANGED <<fb, drv, lib, ui, panel>>

\* epd4g_wait, and epd4g_sleep when the driver thinks the panel awake; that the panel
\* stays busy then is an error that is not looked at.
Sleep ==
    /\ at \in {"waited", "dropped"}
    /\ LET still == IF Busy(lib) THEN Finished(lib) ELSE lib
           asked == drv.hw # "off" /\ ~drv.asleep
           begun == Started(still, "sleep", drv.img, {})
       IN  /\ lib' \in IF ~asked \/ ~Accepts(still, "sleep", drv.img) THEN {still}
                       ELSE {Finished(begun)}
                            \cup (IF panel = "good" THEN {} ELSE {TimedOut(begun)})
           /\ drv' = IF ~asked THEN drv
                     ELSE IF drv.hw = "gray" THEN [drv EXCEPT !.hw = "off"]
                     ELSE [drv EXCEPT !.asleep = TRUE]
    /\ at' = "standby"
    /\ UNCHANGED <<fb, ui, panel>>

\* The button in standby, or a reset at any other time: what was on the glass
\* stays there.
Boot == Booted(CutShort(lib).glass) /\ UNCHANGED panel

Next ==
    \/ \E done \in BOOLEAN : Poll(done) \/ WaitPoll(done)
    \/ \E screen \in Screens, rows \in SUBSET Rows \ {{}} : ScreenChanges(screen, rows)
    \/ RetryTime \/ Render \/ PanelChanges
    \/ PowerOff \/ GiveUp \/ WaitEnds \/ Sleep
    \/ Boot

\* The loop comes round, the pause after an error ends, and a panel that answers ends
\* its jobs.
Fairness == WF_vars(Poll(TRUE)) /\ WF_vars(RetryTime) /\ WF_vars(Render)

Spec == Init /\ [][Next]_vars /\ Fairness

----------------------------------------------------------------------------
Modes == {"gray", "mono"}

TypeOK ==
    /\ fb \in Frames
    /\ drv \in [target : Modes, full : BOOLEAN, region : SUBSET Rows,
                hw : Modes \cup {"off"}, asleep : BOOLEAN, img : Modes \cup {"none"},
                op : {"none", "init", "full", "partial", "sleep"}, opMode : Modes,
                retry : {"none", "wait"}, prev : Frames]
    /\ lib \in [job : [kind : {"none", "init", "full", "partial", "sleep", "off"},
                       mode : Modes, rows : SUBSET Rows,
                       phase : {"none", "data", "wave", "resync"}],
                mode : Modes \cup {"none"}, asleep : BOOLEAN, live : BOOLEAN,
                result : {"ok", "failed"}, glass : [Rows -> Colours \cup {Unclear}]]
    /\ ui \in [screen : Screens, shown : Screens, stale : SUBSET Rows]
    /\ at \in {"boot", "run", "wait", "waited", "dropped", "standby"}
    /\ panel \in {"good", "bad"}
    /\ drv.asleep => drv.hw = "mono"
    /\ drv.op # "none" => Busy(lib) /\ lib.job.kind = drv.op

\* With nothing under way and nothing asked for, the glass shows the framebuffer:
\* whatever was merged, failed, repeated, slept through or cut short before.
RestShowsFrame ==
    Looping /\ ~IsBusy(drv) /\ drv.img # "none" => lib.glass = fb

\* A partial update in gray drives the glass from what is on it: what the driver
\* believes to be there (s_prev) is there, in every row.
StartsFromTheGlass ==
    [][Looping /\ lib'.job.kind = "partial" /\ lib'.job.mode = "gray" /\ lib'.job # lib.job
          /\ lib'.job.phase \in {"data", "wave"} /\ lib.job.phase # "data"
       => lib.glass = drv.prev]_vars

\* The driver starts nothing that the library refuses: with a panel that answers no
\* operation fails.
NothingRefused ==
    [][panel = "good" /\ drv'.retry = "wait" => drv.retry = "wait"]_vars

\* When the panel answers in the end and nothing changes any more, the glass shows
\* the present picture for good.
ShownInTheEnd ==
    <>[](panel = "good" /\ at = "run") =>
        \/ []<><<ui.stale # ui'.stale /\ ui'.stale # {}>>_vars
        \/ <>[](ui.stale = {} /\ lib.glass = fb)

\* A power off that has not given up leaves its picture on the glass and an idle
\* panel, which has no power any more if it answers; if it does not, the error of
\* epd4g_sleep is dropped and the standby cuts the supply as it is.
PowerOffShown ==
    [][at = "waited" /\ at' = "standby" =>
          lib'.glass = fb' /\ ~Busy(lib') /\ (panel = "good" => ~lib'.live)]_vars
=============================================================================
