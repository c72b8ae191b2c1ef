------------------------------ MODULE Storage ------------------------------
(***************************************************************************)
(* The card between its users and the power supply: one pass of the main   *)
(* loop (purrgo_stm32_process) is                                          *)
(*   purrgo_supply_tick        blocks and unblocks writing (supply.c),     *)
(*   track_logger_service      starts a track, adds points (app_fsm.c),    *)
(*   purrgo_app_ui_render      opens and reads the map's files (map.c),    *)
(*   purrgo_sd_poll            debounces, mounts, unmounts (sd_card.c), then *)
(*                             the loop notices that the card was mounted, *)
(* and the supply and the card change between any two of them.             *)
(*                                                                         *)
(* The logger is seen through its interface (its inside is TrackLogger);   *)
(* the map's files are one.  A handle that outlives its mount is stale:    *)
(* FatFs refuses it.                                                       *)
(***************************************************************************)
EXTENDS Integers

CONSTANTS LOW_CONFIRM,      (* PURRGO_SUPPLY_LOW_CONFIRM_MS                  *)
          RECOVER,          (* PURRGO_SUPPLY_RECOVER_MS                      *)
          SD_RETRY_PERIOD,  (* PURRGO_SD_RETRY_PERIOD_MS                     *)
          MaxPass,          (* bound: the longest pass of the loop           *)
          BatteryStop       (* a battery threshold is set (s_batt_stop_mv)   *)

ASSUME StorageAssumption ==
    /\ LOW_CONFIRM \in Nat
    /\ RECOVER \in Nat /\ LOW_CONFIRM <= RECOVER
    /\ SD_RETRY_PERIOD \in Nat \ {0}
    /\ MaxPass \in Nat \ {0}
    /\ BatteryStop \in BOOLEAN

VARIABLES
    at,      (* the part of the loop that runs next                        *)
    env,     (* the supply and the card as they are                        *)
    supply,  (* supply.c's statics                                         *)
    dev,     (* sd_card.c's statics and the files open on the card         *)
    held     (* history: how long the ticks have seen the supply as it is  *)

vars == <<at, env, supply, dev, held>>

\* The card: fresh, it answers but has not been initialised since it got power;
\* up, it works; noisy, a transfer may fail with an error; dead, it does not
\* answer.
Cards == {"out", "fresh", "up", "noisy", "dead"}

NotPending == -1
NotArmed == -1

----------------------------------------------------------------------------
(* One operation on the card.  h is the handle it goes through; w is dev.  *)

\* What an open goes through: the mounted volume.
Volume(w) == IF w.state = "READY" THEN "live" ELSE "none"

Works(w, h) == h = "live" /\ ~ w.lost /\ env.card \in {"up", "noisy"}

\* io_failed: a card that is gone or silent is declared lost.
Failed(w, h) ==
    [w EXCEPT !.lost = @ \/ (h = "live" /\ env.card \in {"out", "fresh", "dead"})]

\* The states an operation through h may leave: done, or undone when it fails.
Try(w, h, done, undone) ==
    (IF Works(w, h) THEN {done} ELSE {})
        \cup (IF ~ Works(w, h) \/ env.card = "noisy" THEN {Failed(undone, h)} ELSE {})

----------------------------------------------------------------------------
(* The logger's interface.                                                 *)

Ended(w, end) ==
    [w EXCEPT !.track = "IDLE", !.named = FALSE, !.file = "none", !.trackEnd = end]

\* purrgo_logger_suspend: an unfinished file is opened once more for its footer.
LoggerSuspend(w) ==
    CASE w.track = "RECORDING" ->
            Try(w, w.file, Ended(w, "footer"), Ended(w, "cut"))
      [] w.track = "ERROR" /\ w.named ->
            Try(w, Volume(w), Ended(w, "footer"), Ended(w, "cut"))
      [] OTHER -> {Ended(w, w.trackEnd)}

Recording(w) == [w EXCEPT !.track = "RECORDING", !.named = TRUE, !.file = "live"]

InError(w, named) ==
    [w EXCEPT !.track = "ERROR", !.named = named, !.file = "none"]

NewFile(w) == Try(w, Volume(w), Recording(w), InError(w, FALSE))

\* purrgo_logger_start: the failed file first, then a new one.
LoggerStart(w) ==
    IF w.track = "ERROR" /\ w.named
    THEN LET resumed == Try(w, Volume(w), Recording(w), InError(w, FALSE))
         IN  UNION { IF v.track = "RECORDING" THEN {v} ELSE NewFile(v) : v \in resumed }
    ELSE NewFile(w)

\* purrgo_logger_add_point: most points stay in the buffer; a flush, a sync or a
\* new day goes to the card.
AddPoint(w, io) ==
    IF ~ io THEN {w}
    ELSE Try(w, w.file, w, InError(w, TRUE))
            \cup (UNION { NewFile(v) : v \in LoggerSuspend(w) })

----------------------------------------------------------------------------
(* Mounting.                                                               *)

Stale(h) == IF h = "live" THEN "stale" ELSE h

\* f_mount(NULL): open files are not closed, they stop being valid.
Unmounted(w, state) ==
    [w EXCEPT !.state = state, !.file = Stale(@), !.map = Stale(@)]

MountCard_NotRetried(w) ==
    IF env.vddLow THEN {[w EXCEPT !.state = "MOUNT_ERROR", !.retry = NotArmed]}
    ELSE {[w EXCEPT !.lost = FALSE, !.state = "READY", !.retry = NotArmed]}

\* mount_card, with the retry its callers arm when it returns false.
MountCard(w) ==
    LET v == [w EXCEPT !.lost = FALSE]
        later(u) == [u EXCEPT !.retry = SD_RETRY_PERIOD]
    IN  IF env.vddLow THEN {later([w EXCEPT !.state = "MOUNT_ERROR"])}
        ELSE (IF env.card \in {"fresh", "up", "noisy"}
              THEN {[v EXCEPT !.state = "READY", !.retry = NotArmed]} ELSE {})
                \cup (IF env.card \in {"out", "noisy", "dead"}
                      THEN {later(Unmounted(v, "MOUNT_ERROR"))} ELSE {})

\* purrgo_sd_poll.  A level of Detect counts from its second sample on.
SdPoll(w) ==
    LET raw == env.card # "out"
        stable == IF raw = w.candidate THEN raw ELSE w.stable
        inserted == stable /\ ~ w.prev
        v == [w EXCEPT !.candidate = raw, !.stable = stable, !.prev = stable]
    IN  CASE w.state = "READY" /\ ~ stable -> {Unmounted(v, "NO_CARD")}
          [] w.state = "READY" /\ stable /\ w.lost ->
                {[Unmounted(v, "MOUNT_ERROR") EXCEPT !.retry = SD_RETRY_PERIOD]}
          [] w.state = "READY" /\ stable /\ ~ w.lost -> {v}
          [] w.state # "READY" /\ ~ stable ->
                {[v EXCEPT !.state = "NO_CARD", !.retry = NotArmed]}
          [] w.state # "READY" /\ stable ->
                IF inserted \/ w.retry = 0 THEN MountCard(v) ELSE {v}

MapShutdown(w) == [w EXCEPT !.map = "closed"]

SeenByLoop_Never(w) == [w EXCEPT !.prevReady = (w.state = "READY")]

\* The end of the pass: a card that has just been mounted makes the map's files,
\* and what it remembers as missing, out of date.
SeenByLoop(w) ==
    LET v == [w EXCEPT !.prevReady = (w.state = "READY")]
    IN  IF w.state = "READY" /\ ~ w.prevReady THEN MapShutdown(v) ELSE v

\* purrgo_platform_storage_suspend
SdSuspend(w) ==
    IF w.state = "READY"
    THEN [Unmounted(w, "MOUNT_ERROR") EXCEPT !.retry = SD_RETRY_PERIOD]
    ELSE w

----------------------------------------------------------------------------
(* Start-up: purrgo_sd_init, then the loop.                                *)

AtBoot(state, retry, present) ==
    [state |-> state, lost |-> FALSE, retry |-> retry,
     candidate |-> present, stable |-> present, prev |-> present,
     prevReady |-> (state = "READY"),
     track |-> "IDLE", named |-> FALSE, file |-> "none", trackEnd |-> "none",
     map |-> "closed"]

\* A card that is in is mounted at once, unless VDD is low or it does not answer.
Init ==
    /\ at = "supply"
    /\ supply = [blocked |-> FALSE, pending |-> NotPending, battLow |-> FALSE]
    /\ held = [low |-> FALSE, age |-> 0]
    /\ \/ /\ env = [vddLow |-> FALSE, batt |-> "high", card |-> "up"]
          /\ dev = AtBoot("READY", NotArmed, TRUE)
       \/ /\ env = [vddLow |-> TRUE, batt |-> "high", card |-> "fresh"]
          /\ dev = AtBoot("MOUNT_ERROR", SD_RETRY_PERIOD, TRUE)
       \/ /\ env = [vddLow |-> FALSE, batt |-> "high", card |-> "out"]
          /\ dev = AtBoot("NO_CARD", NotArmed, FALSE)

----------------------------------------------------------------------------
(* The loop.                                                               *)

\* The order matters: the footer needs the card mounted.
StorageStop_CardFirst(w) == LoggerSuspend(MapShutdown(SdSuspend(w)))

\* storage_stop
StorageStop(w) == { SdSuspend(MapShutdown(v)) : v \in LoggerSuspend(w) }

\* battery_low: the latch has a hysteresis and is not looked at while VDD is low.
\* (A reading is used for a second; a stale one is the battery changing later.)
BatteryLow ==
    IF ~ BatteryStop \/ env.vddLow \/ env.batt = "band" THEN supply.battLow
    ELSE env.batt = "low"

Confirmed(low, pending) == pending >= (IF low THEN LOW_CONFIRM ELSE RECOVER)

Pending_GoesOn(low) ==
    IF supply.pending = NotPending /\ low # supply.blocked THEN 0 ELSE supply.pending

\* The age of the opposite state, this tick included.
Pending(low) ==
    IF low = supply.blocked THEN NotPending
    ELSE IF supply.pending = NotPending THEN 0 ELSE supply.pending

\* purrgo_supply_tick
SupplyTick ==
    LET low == env.vddLow \/ BatteryLow
        pending == Pending(low)
        switch == low # supply.blocked /\ Confirmed(low, pending)
    IN  /\ at = "supply"
        /\ supply' = [blocked |-> IF switch THEN low ELSE supply.blocked,
                      pending |-> IF switch THEN NotPending ELSE pending,
                      battLow |-> BatteryLow]
        /\ IF switch /\ low THEN dev' \in StorageStop(dev) ELSE dev' = dev
        /\ held' = [low |-> low, age |-> IF low = held.low THEN held.age ELSE 0]
        /\ at' = "service"
        /\ UNCHANGED env

\* track_logger_service, with a fix and a retry that is due; io: the point makes
\* the logger write.
Service(io) ==
    /\ at = "service"
    /\ ~ supply.blocked
    /\ LET started == IF dev.track = "RECORDING" THEN {dev} ELSE LoggerStart(dev)
       IN  dev' \in UNION { IF v.track = "RECORDING" THEN AddPoint(v, io) ELSE {v} :
                              v \in started }
    /\ at' = "render"
    /\ UNCHANGED <<env, supply, held>>

\* Blocked, no fix, not its second, or the retry is not due.
NoService ==
    /\ at = "service"
    /\ at' = "render"
    /\ UNCHANGED <<env, supply, dev, held>>

\* map_sync_files and the reads of a frame.  A file that does not open is
\* remembered: "absent" if there was no mounted card, "broken" otherwise.
Render ==
    /\ at = "render"
    /\ dev' \in CASE dev.map = "closed" ->
                        Try(dev, Volume(dev), [dev EXCEPT !.map = "live"],
                            [dev EXCEPT !.map = IF dev.state = "READY" THEN "broken"
                                                ELSE "absent"])
                  [] dev.map \in {"live", "stale"} -> Try(dev, dev.map, dev, dev)
                  [] dev.map \in {"absent", "broken"} -> {dev}
    /\ at' = "poll"
    /\ UNCHANGED <<env, supply, held>>

NoRender ==
    /\ at = "render"
    /\ at' = "poll"
    /\ UNCHANGED <<env, supply, dev, held>>

\* purrgo_sd_poll and what the loop does after it.  Mounting initialises the card.
Poll ==
    /\ at = "poll"
    /\ \E w \in SdPoll(dev) :
        /\ dev' = SeenByLoop(w)
        /\ env' = IF w.state = "READY" /\ dev.state # "READY" /\ env.card = "fresh"
                  THEN [env EXCEPT !.card = "up"] ELSE env
    /\ at' = "wait"
    /\ UNCHANGED <<supply, held>>

\* The poll's period has not passed.
NoPoll ==
    /\ at = "poll"
    /\ dev' = SeenByLoop(dev)
    /\ at' = "wait"
    /\ UNCHANGED <<env, supply, held>>

Earlier(t, d) == IF t > d THEN t - d ELSE 0
Later(t, d) == IF t + d < RECOVER THEN t + d ELSE RECOVER

\* The pass took d.  An age beyond the longest threshold is not counted on.
Elapse(d) ==
    /\ at = "wait"
    /\ supply' = [supply EXCEPT !.pending = IF @ = NotPending THEN @ ELSE Later(@, d)]
    /\ dev' = [dev EXCEPT !.retry = IF @ = NotArmed THEN @ ELSE Earlier(@, d)]
    /\ held' = [held EXCEPT !.age = Later(@, d)]
    /\ at' = "supply"
    /\ UNCHANGED env

Loop ==
    \/ SupplyTick
    \/ \E io \in BOOLEAN : Service(io)
    \/ NoService
    \/ Render
    \/ NoRender
    \/ Poll
    \/ NoPoll
    \/ \E d \in 1..MaxPass : Elapse(d)

----------------------------------------------------------------------------
(* Outside the program.                                                    *)

Surroundings(e) == env' = e /\ UNCHANGED <<at, supply, dev, held>>

VddChanges == Surroundings([env EXCEPT !.vddLow = ~ @])

BatteryChanges ==
    /\ BatteryStop
    /\ \E b \in (IF env.batt = "band" THEN {"low", "high"} ELSE {"band"}) :
        Surroundings([env EXCEPT !.batt = b])

\* Taken out, put in (perhaps one that does not work), or going bad and back.
CardChanges ==
    \E c \in CASE env.card = "out" -> {"fresh", "dead"}
               [] env.card = "fresh" -> {"out", "dead"}
               [] env.card = "up" -> {"out", "noisy", "dead"}
               [] env.card = "noisy" -> {"out", "up", "dead"}
               [] env.card = "dead" -> {"out", "fresh"} :
        Surroundings([env EXCEPT !.card = c])

Next == Loop \/ VddChanges \/ BatteryChanges \/ CardChanges

\* The loop is never left, the logger is served and the card polled again and
\* again (once a second, four times a second), and points make it write (a sync
\* is due after a minute).
Fairness ==
    /\ WF_vars(Loop)
    /\ SF_vars(Service(TRUE))
    /\ SF_vars(Poll)

Spec == Init /\ [][Next]_vars /\ Fairness

----------------------------------------------------------------------------
(* Properties.                                                             *)

Handles == {"none", "live", "stale"}

\* Types, and: a card that could not be mounted always has its next try armed and
\* a mounted one has none; the logger holds a file exactly while recording.
TypeOK ==
    /\ at \in {"supply", "service", "render", "poll", "wait"}
    /\ env \in [vddLow : BOOLEAN, batt : {"low", "band", "high"}, card : Cards]
    /\ supply \in [blocked : BOOLEAN, pending : {NotPending} \cup (0..RECOVER),
                   battLow : BOOLEAN]
    /\ held \in [low : BOOLEAN, age : 0..RECOVER]
    /\ dev \in [state : {"NO_CARD", "READY", "MOUNT_ERROR"}, lost : BOOLEAN,
                retry : {NotArmed} \cup (0..SD_RETRY_PERIOD),
                candidate : BOOLEAN, stable : BOOLEAN, prev : BOOLEAN,
                prevReady : BOOLEAN, track : {"IDLE", "RECORDING", "ERROR"},
                named : BOOLEAN, file : Handles, trackEnd : {"none", "footer", "cut"},
                map : {"closed", "live", "stale", "absent", "broken"}]
    /\ dev.state = "MOUNT_ERROR" <=> dev.retry # NotArmed
    /\ dev.track = "RECORDING" <=> dev.file # "none"

\* When the supply fails under a recording and the card still works, the track
\* gets its footer, and nothing is left open on the card that is given up.
StopsInOrder ==
    [][~ supply.blocked /\ supply'.blocked =>
        /\ dev'.state # "READY" /\ dev'.file = "none" /\ dev'.map = "closed"
        /\ dev.track = "RECORDING" /\ Works(dev, dev.file) /\ env.card = "up" =>
              dev'.trackEnd = "footer"]_vars

\* Writing is blocked only by a supply that every tick of the confirmation time
\* saw low, and allowed again only after as long a normal one: a flicker restarts
\* the count.
SupplyDebounced ==
    [][supply'.blocked # supply.blocked =>
        /\ held'.low = supply'.blocked
        /\ held'.age >= (IF supply'.blocked THEN LOW_CONFIRM ELSE RECOVER)]_vars

\* A frame drawn with a mounted card never uses a file of an earlier mount, nor
\* what was found missing while there was no card.
MapFilesOfThisMount ==
    at = "render" /\ dev.state = "READY" => dev.map \notin {"stale", "absent"}

\* The loop always comes back: once the supply and the card stay well, the card is
\* mounted and the track recorded for good, whatever state they were left in.
Well == ~ env.vddLow /\ env.batt = "high" /\ env.card \in {"fresh", "up"}

RecoversForGood ==
    <>[]Well =>
        <>[](dev.state = "READY" /\ dev.track = "RECORDING" /\ dev.file = "live")

\* The hook's comment: on a low supply the card is unmounted and not touched again
\* until the voltage has come back; so a supply that stays low leaves it unmounted.
LowSupplyLeavesCardUnmounted == <>[]env.vddLow => <>[](dev.state # "READY")
=============================================================================
