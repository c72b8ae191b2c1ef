----------------------------- MODULE MapScreen -----------------------------
(***************************************************************************)
(* What is on the screen, and who sees to it: app_fsm.c, ui_dirty.c,       *)
(* map_controller.c, app_ui.c and ui_map.c.  The fix, the logger and the   *)
(* buttons change things; once a second the application compares what it   *)
(* has with what was drawn, and raises flags; the renderer takes the flags *)
(* and draws: the whole map, or only the marker and the new segments of    *)
(* the track.                                                              *)
(*                                                                         *)
(* A fix is a place, 0 for none.  Segment k of the track joins its k-th    *)
(* newest point to the one before.  Time is not counted: what waits for an *)
(* interval may go on at any step.                                         *)
(***************************************************************************)
EXTENDS Integers

CONSTANTS
    TrackMax,    (* TRACK_RAM_MAX_POINTS                                    *)
    EventsMax    (* bound: buttons, and what the surroundings do            *)

ASSUME MapScreenAssumption == TrackMax \in Nat /\ TrackMax >= 2 /\ EventsMax \in Nat

VARIABLES
    app,     (* statics of app_fsm.c and ui_dirty.c                         *)
    gnss,    (* internal_gnss_solution                                      *)
    logger,  (* the logger through its interface                            *)
    view,    (* statics of map_controller.c                                 *)
    pic,     (* the framebuffer, and what ui_map.c remembers of it          *)
    used     (* events so far                                               *)

vars == <<app, gnss, logger, view, pic, used>>

\* "pages" are the trip computer and the menus.
Screens == {"map", "pages", "book", "tracker"}
Flags == {"SCREEN", "MAP", "STATUS", "TRACK"}
Centres == {"west", "east"}
Places == 1..2
LastPlace == 1    \* app_config.last_lat_1e7, last_lon_1e7

\* The places a view shows.
Seen(c) == IF c = "west" THEN {1, 2} ELSE {2}

Segments == 1..TrackMax - 1
Drawable(l) == 1..l.count - 1

Markers == [valid : BOOLEAN, at : Places \cup {0}]

LoggerStates == {"idle", "rec", "err"}

AppRecords ==
    [screen : Screens, flags : SUBSET Flags, deferred : BOOLEAN, gate : BOOLEAN,
     tries : 0..1, wasValid : BOOLEAN, ref : 0..2, shown : 0..2, seenRec : LoggerStates]

LoggerRecords == [state : LoggerStates, named : BOOLEAN, count : 0..TrackMax]

PicRecords ==
    [on : Screens, status : [valid : BOOLEAN, rec : LoggerStates], marker : Markers,
     fix : 0..2, undrawn : 0..TrackMax, lines : SUBSET Segments, under : SUBSET Segments]

TypeOK ==
    /\ app \in AppRecords
    /\ gnss \in 0..2
    /\ logger \in LoggerRecords
    /\ view \in [centre : Centres, manual : BOOLEAN]
    /\ pic \in PicRecords
    /\ used \in 0..EventsMax
    /\ logger.state = "rec" => logger.named
    /\ logger.state = "idle" => ~logger.named
    /\ app.screen = "book" => gnss = 0 /\ logger.state = "idle"

Blank == [on |-> "map", status |-> [valid |-> FALSE, rec |-> "idle"],
          marker |-> [valid |-> FALSE, at |-> 0], fix |-> 0, undrawn |-> 0,
          lines |-> {}, under |-> {}]

Init ==
    /\ app = [screen |-> "map", flags |-> {"SCREEN", "MAP", "STATUS"}, deferred |-> FALSE,
              gate |-> FALSE, tries |-> 0, wasValid |-> FALSE, ref |-> 0, shown |-> 0,
              seenRec |-> "idle"]
    /\ gnss = 0
    /\ logger = [state |-> "idle", named |-> FALSE, count |-> 0]
    /\ view = [centre |-> "west", manual |-> FALSE]
    /\ pic = Blank
    /\ used = 0

\* Without a name nothing is drawn of the ring, and the next session empties it: its
\* points are not counted then.
Fallen(l, named) == [state |-> "err", named |-> named, count |-> IF named THEN l.count ELSE 0]

Stopped == [state |-> "idle", named |-> FALSE, count |-> 0]

----------------------------------------------------------------------------
(* The surroundings.                                                       *)

Event == used < EventsMax /\ used' = used + 1

\* A sentence of the receiver, or the time-out of the fix.
FixChanges ==
    /\ Event
    /\ app.screen # "book"
    /\ \E f \in 0..2 \ {gnss} : gnss' = f
    /\ UNCHANGED <<app, logger, view, pic>>

\* A mount: the loop closes the map's files and has the map drawn anew.
Mounted ==
    /\ Event
    /\ app' = [app EXCEPT !.flags = @ \cup {"MAP"}]
    /\ UNCHANGED <<gnss, logger, view, pic>>

\* purrgo_logger_suspend by the supply monitor.
SupplyStops ==
    /\ Event
    /\ logger.state # "idle"
    /\ logger' = Stopped
    /\ UNCHANGED <<app, gnss, view, pic>>

\* The text of the battery in the status bar.
BatteryChanges ==
    /\ Event
    /\ app.screen \in {"map", "book"}
    /\ app' = [app EXCEPT !.flags = @ \cup {"STATUS"}, !.deferred = TRUE]
    /\ UNCHANGED <<gnss, logger, view, pic>>

----------------------------------------------------------------------------
(* Once a second: purrgo_app_update.                                       *)

\* The picture is that of the segments, not of the ring: what a point or a new
\* session in the ring does to their numbers.
Pushed(S) == {k + 1 : k \in S} \cap Segments

Appended(p) ==
    [p EXCEPT !.lines = Pushed(@), !.under = Pushed(@),
              !.undrawn = IF @ < TrackMax THEN @ + 1 ELSE @]

Cleared(p) == [p EXCEPT !.lines = {}, !.under = {}]

Result(l, p, added) == [logger |-> l, pic |-> p, added |-> added]

\* purrgo_logger_start: a file is resumed, or a new one continues its session, or
\* a new session begins, or nothing opens.
Starts ==
    {Result(logger, pic, FALSE)} \cup
    IF logger.named
    THEN {Result([logger EXCEPT !.state = "rec"], pic, FALSE),
          Result(Fallen(logger, FALSE), pic, FALSE)}
    ELSE {Result([state |-> "rec", named |-> TRUE, count |-> 0], Cleared(pic), FALSE),
          Result(Fallen(logger, FALSE), pic, FALSE)}

\* purrgo_logger_add_point: filtered, accepted, accepted with a sync that fails, not
\* written, or the day over and no new file.
Adds(r) ==
    LET grown == [r.logger EXCEPT !.count = IF @ < TrackMax THEN @ + 1 ELSE @]
    IN  {r,
         Result(grown, Appended(r.pic), TRUE),
         Result(Fallen(grown, TRUE), Appended(r.pic), TRUE),
         Result(Fallen(r.logger, TRUE), r.pic, FALSE),
         Result(Stopped, r.pic, FALSE),
         Result(Fallen(r.logger, FALSE), r.pic, FALSE)}

\* track_logger_service
Served ==
    IF gnss = 0 THEN {Result(logger, pic, FALSE)}
    ELSE UNION {IF r.logger.state = "rec" THEN Adds(r) ELSE {r} :
                r \in IF logger.state = "rec" THEN {Result(logger, pic, FALSE)} ELSE Starts}

\* What was drawn, or sent to be drawn: the position to compare the fix with.
Reference_MarkerOnly == app.ref

Reference == IF app.screen = "map" THEN app.ref ELSE app.shown

\* The flags that changed data raise; minute: the minute, or another value that the
\* screen shows, has changed.
Noticed(minute) ==
    LET validity == (gnss # 0) # app.wasValid
        changed == gnss # Reference \/ minute
        rec == logger.state # app.seenRec
    IN  [app EXCEPT
           !.flags = @ \cup (IF validity \/ rec THEN {"SCREEN", "STATUS"} ELSE {})
                       \cup (IF minute THEN {"STATUS"} ELSE {}),
           !.deferred = changed \/ (@ /\ ~validity),
           !.shown = IF changed THEN gnss ELSE @,
           !.wasValid = gnss # 0,
           !.seenRec = logger.state]

WithTrack(a, added) ==
    IF added
    THEN [a EXCEPT !.flags = @ \cup {"TRACK"}, !.deferred = @ \/ a.screen = "map"]
    ELSE a

\* apply_auto_follow
Follows(f) == f # 0 /\ ~view.manual /\ f \notin Seen(view.centre)

Second(minute, quiet) ==
    /\ IF quiet THEN UNCHANGED used ELSE Event
    /\ app.screen # "book"
    /\ \E r \in IF quiet THEN {Result(logger, pic, FALSE)} ELSE Served :
          /\ logger' = r.logger /\ pic' = r.pic
          /\ IF app.screen = "tracker"
             THEN /\ app' = WithTrack([app EXCEPT !.wasValid = gnss # 0], r.added)
                  /\ UNCHANGED view
             ELSE LET a == WithTrack(Noticed(minute), r.added)
                  IN  IF app.screen = "map" /\ Follows(gnss)
                      THEN /\ app' = [a EXCEPT !.flags = @ \cup {"MAP"}]
                           /\ \E c \in Centres :
                                 gnss \in Seen(c) /\ view' = [view EXCEPT !.centre = c]
                      ELSE app' = a /\ UNCHANGED view
    /\ UNCHANGED <<gnss>>

\* purrgo_ui_dirty_tick: the interval between two redraws is over.
Ripens ==
    /\ app.deferred
    /\ app' = [app EXCEPT !.deferred = FALSE, !.flags = @ \cup {"SCREEN"}]
    /\ UNCHANGED <<gnss, logger, view, pic, used>>

----------------------------------------------------------------------------
(* The buttons: purrgo_app_handle_button.                                  *)

\* ui_input_done, and the pause after a failed map that a button ends.
InputDone_ScreenOnly(a, next) ==
    [a EXCEPT !.screen = next, !.gate = FALSE, !.flags = @ \cup {"SCREEN"}]

InputDone(a, next) ==
    [a EXCEPT !.screen = next, !.gate = FALSE,
              !.flags = @ \cup {"SCREEN"} \cup
                        (IF next = "map" /\ a.screen # "map" THEN {"MAP"} ELSE {})]

\* The cross moves the map, the wheel changes its scale.
Pan ==
    /\ Event
    /\ app.screen = "map"
    /\ \E c \in Centres, m \in {TRUE, view.manual} : view' = [centre |-> c, manual |-> m]
    /\ app' = InputDone([app EXCEPT !.flags = @ \cup {"MAP"}], "map")
    /\ UNCHANGED <<gnss, logger, pic>>

\* Back to following the fix of the last second.
Centre ==
    /\ Event
    /\ app.screen = "map"
    /\ IF view.manual
       THEN /\ \E c \in Centres : view' = [centre |-> c, manual |-> FALSE]
            /\ app' = InputDone([app EXCEPT !.flags = @ \cup {"MAP"}], "map")
       ELSE app' = InputDone(app, "map") /\ UNCHANGED view
    /\ UNCHANGED <<gnss, logger, pic>>

\* purrgo_logger_set_mode: OFF stops the recording and empties the ring.
Turned(off) ==
    IF off /\ logger.state # "idle"
    THEN logger' = Stopped /\ pic' = Cleared(pic)
    ELSE UNCHANGED <<logger, pic>>

\* From the map to the pages and back; BACK of the main menu applies its settings.
NextPage ==
    /\ Event
    /\ app.screen \in {"map", "pages"}
    /\ app' = InputDone(app, IF app.screen = "map" THEN "pages" ELSE "map")
    /\ \E off \in BOOLEAN : (off => app.screen = "pages") /\ Turned(off)
    /\ UNCHANGED <<gnss, view>>

\* A row of a menu, or a page of a book; a choice of a map, a layer or a target.
Turns ==
    /\ Event
    /\ app.screen \in {"pages", "book"}
    /\ \E F \in SUBSET {"MAP"} :
          /\ app.screen = "book" => F = {}
          /\ app' = InputDone([app EXCEPT !.flags = @ \cup F], app.screen)
    /\ UNCHANGED <<gnss, logger, view, pic>>

EnterBook_KeepsFix ==
    /\ Event
    /\ app.screen = "pages"
    /\ app' = InputDone([app EXCEPT !.wasValid = FALSE, !.ref = 0, !.shown = 0,
                                    !.deferred = FALSE], "book")
    /\ Turned(TRUE)
    /\ UNCHANGED <<gnss, view>>

\* purrgo_book_reader_enter and book_mode_entered
EnterBook ==
    /\ Event
    /\ app.screen = "pages"
    /\ app' = InputDone([app EXCEPT !.wasValid = FALSE, !.ref = 0, !.shown = 0,
                                    !.deferred = FALSE], "book")
    /\ gnss' = 0
    /\ Turned(TRUE)
    /\ UNCHANGED <<view>>

\* book_mode_left
LeaveBook ==
    /\ Event
    /\ app.screen = "book"
    /\ app' = InputDone([app EXCEPT !.deferred = FALSE, !.flags = @ \cup {"MAP"}], "pages")
    /\ UNCHANGED <<gnss, logger, view, pic>>

EnterTracker_KeepsDeferred ==
    /\ Event
    /\ app.screen = "pages"
    /\ app' = InputDone(app, "tracker")
    /\ UNCHANGED <<gnss, logger, view, pic>>

\* tracker_mode_entered
EnterTracker ==
    /\ Event
    /\ app.screen = "pages"
    /\ app' = InputDone([app EXCEPT !.deferred = FALSE], "tracker")
    /\ UNCHANGED <<gnss, logger, view, pic>>

\* tracker_mode_left
LeaveTracker ==
    /\ Event
    /\ app.screen = "tracker"
    /\ app' = InputDone([app EXCEPT !.ref = 0, !.shown = 0, !.deferred = FALSE,
                                    !.flags = @ \cup {"MAP", "STATUS"}], "map")
    /\ \E off \in BOOLEAN : Turned(off)
    /\ UNCHANGED <<gnss, view>>

----------------------------------------------------------------------------
(* The renderer: purrgo_app_ui_render with ui_render_map.                  *)

\* purrgo_app_ui_needs_render
Needed == "SCREEN" \in app.flags \/ (app.screen = "map" /\ "MAP" \in app.flags)

GateEnds ==
    /\ app.gate
    /\ app' = [app EXCEPT !.gate = FALSE]
    /\ UNCHANGED <<gnss, logger, view, pic, used>>

\* ui_calc_marker_state: without a fix the marker stands at the last place.
Marker ==
    LET place == IF gnss = 0 THEN LastPlace ELSE gnss
    IN  [valid |-> gnss # 0, at |-> IF place \in Seen(view.centre) THEN place ELSE 0]

Status == [valid |-> gnss # 0, rec |-> logger.state]

\* ui_update_status_bar
Overlaid(p) ==
    IF app.flags \cap {"MAP", "STATUS"} # {} THEN [p EXCEPT !.status = Status] ELSE p

\* The marker, with what is under it saved.
Marked(p, m) == [p EXCEPT !.marker = m, !.under = IF m.at # 0 THEN p.lines ELSE {}]

Notified(a, m) == IF m.at # 0 THEN [a EXCEPT !.ref = gnss] ELSE a

\* The whole map: two attempts, then it is left until something marks it again.
WholeMap_TriesOn(a, read) ==
    IF read THEN [a EXCEPT !.flags = @ \ {"MAP"}] ELSE [a EXCEPT !.gate = TRUE]

WholeMap(a, read) ==
    IF read \/ a.tries = 1
    THEN [a EXCEPT !.flags = @ \ {"MAP"}, !.tries = 0]
    ELSE [a EXCEPT !.tries = 1, !.gate = TRUE]

DrawWhole ==
    LET p == [Overlaid(pic) EXCEPT !.on = "map", !.fix = 0, !.undrawn = 0,
                                   !.lines = IF logger.named THEN Drawable(logger) ELSE {}]
    IN  /\ pic' = Marked(p, Marker)
        /\ \E read \in BOOLEAN :
              app' = Notified(WholeMap([app EXCEPT !.flags = @ \ {"SCREEN", "STATUS", "TRACK"}],
                                       read), Marker)

\* ui_restore_marker_bg: what was drawn over the marker is gone with it.
Restored(p) == IF p.marker.at # 0 THEN p.lines \cap p.under ELSE p.lines

\* purrgo_track_render_new_segments
NewSegments ==
    1..(IF pic.undrawn < logger.count THEN pic.undrawn ELSE logger.count - 1)

\* The old marker goes first, then the track is drawn, then the marker.
Tracked(p) ==
    IF "TRACK" \in app.flags
    THEN [p EXCEPT !.undrawn = 0,
                   !.lines = Restored(p) \cup (IF logger.named THEN NewSegments ELSE {})]
    ELSE [p EXCEPT !.lines = Restored(p)]

MarkerChanged_Moved == Marker.at # pic.marker.at

MarkerChanged == Marker # pic.marker

DrawChanges ==
    LET p == [Overlaid(pic) EXCEPT !.on = "map", !.fix = 0]
        m == IF MarkerChanged THEN Marker ELSE pic.marker
        a == [app EXCEPT !.flags = @ \ {"SCREEN", "STATUS", "TRACK"}]
    IN  /\ pic' = IF MarkerChanged \/ "TRACK" \in app.flags THEN Marked(Tracked(p), m) ELSE p
        /\ app' = IF MarkerChanged THEN Notified(a, m) ELSE a

\* The other screens are drawn as a whole; nothing of the map is left.
DrawOther ==
    /\ pic' = [Blank EXCEPT !.on = app.screen, !.fix = IF app.screen = "pages" THEN gnss ELSE 0]
    /\ app' = [app EXCEPT !.flags = @ \ {"SCREEN"}]

Render ==
    /\ Needed /\ ~app.gate
    /\ IF app.screen # "map" THEN DrawOther
       ELSE IF "MAP" \in app.flags THEN DrawWhole ELSE DrawChanges
    /\ UNCHANGED <<gnss, logger, view, used>>

\* Does a pass ask the panel for an update?
PanelAsked ==
    \/ app.screen # "map" \/ pic.on # "map"
    \/ app.flags \cap {"MAP", "STATUS"} # {}
    \/ MarkerChanged
    \/ "TRACK" \in app.flags

----------------------------------------------------------------------------
Buttons == Pan \/ Centre \/ NextPage \/ Turns \/ EnterBook \/ LeaveBook
                \/ EnterTracker \/ LeaveTracker

Next ==
    \/ FixChanges \/ Mounted \/ SupplyStops \/ BatteryChanges
    \/ \E minute, quiet \in BOOLEAN : Second(minute, quiet)
    \/ Ripens \/ GateEnds \/ Buttons \/ Render

\* The loop comes round: seconds pass, pauses end, and what is needed is drawn.
Fairness ==
    WF_vars(Second(FALSE, TRUE)) /\ WF_vars(Ripens) /\ WF_vars(GateEnds) /\ WF_vars(Render)

Spec == Init /\ [][Next]_vars /\ Fairness

----------------------------------------------------------------------------
\* Whenever the map is up and no drawing of it is pending, all of the track that the
\* logger holds is on it: whatever was drawn in pieces, under a marker that moved, or
\* recorded while another screen was up.
TrackDrawn ==
    /\ app.screen = "map" /\ pic.on = "map" /\ logger.named
    /\ app.flags \cap {"MAP", "TRACK"} = {}
    => Drawable(logger) \subseteq pic.lines

\* Once the warning of the tracker mode is drawn nothing has the screen drawn again
\* until the mode is left («экран всё равно не должен меняться», app_fsm.c:584-589).
TrackerStill ==
    [][app.screen = "tracker" /\ app'.screen = "tracker" /\ ~Needed => ~Needed']_vars

\* Once the surroundings are done and the clock stands, the panel is left alone in the
\* end, also when the map cannot be read and when the fix is off the map.
QuietInTheEnd ==
    <>[][~Second(TRUE, TRUE)]_vars => <>[][~(Render /\ PanelAsked)]_vars

True ==
    /\ pic.on = app.screen
    /\ app.screen = "map" => pic.status = Status /\ pic.marker = Marker
    /\ app.screen = "pages" => pic.fix = gnss

\* Once the surroundings are done and only the clock goes on, the screen shows for good
\* whether there is a fix and a recording, and where one is.
TrueInTheEnd == []<><<Second(TRUE, TRUE)>>_vars => <>[]True
=============================================================================
