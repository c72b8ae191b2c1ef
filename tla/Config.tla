------------------------------- MODULE Config -------------------------------
(***************************************************************************)
(* The configuration file (src/core/config.c): loading it at boot with the *)
(* recovery of an interrupted save, saving it through a temporary file,    *)
(* and those who save: the menus, the book reader with its delayed save of *)
(* the reading position (src/core/book_reader.c), and power-off.           *)
(*                                                                         *)
(* The loop runs one save at a time, but power may go between any two      *)
(* calls it makes on the card, so each call is a step and pc says which is *)
(* next.  The settings are one value; a text is known by the settings it   *)
(* was made from and by how much of it there is.                           *)
(***************************************************************************)
EXTENDS Integers

CONSTANTS
    Settings,      (* what app_config may hold                              *)
    Default,       (* purrgo_config_init                                    *)
    Mixed,         (* a part of a text read over the defaults               *)
    NoFile,        (* the file is not in the directory                      *)
    SAVE_TIMEOUT,  (* PURRGO_BOOK_SAVE_TIMEOUT_MS, in units of Tick         *)
    Faults         (* what a bad card may do wrong                          *)

\* The faults: a directory search that fails (lookup), a temporary file that does
\* not open, a write cut inside a line or at the end of one, a failed sync, close,
\* unlink of an existing file, rename after it (also by the card being pulled just
\* then), and a file that is read short.  A call that fails may have done its work
\* before: FatFs changes the directory first.  A card pulled in the middle of a call
\* is a bad one that is then out.
FaultKinds == {"lookup", "openTmp", "write", "writeCut", "sync", "close",
               "unlink", "rename", "read"}

Values == Settings \cup {Mixed}

\* A torn text ends inside a line, a cut one at the end of a line.
Text == [val : Values, size : {"empty", "torn", "cut", "whole"}]

ASSUME ConfigAssumption ==
    /\ Default \in Settings /\ Mixed \notin Settings
    /\ NoFile \notin Text
    /\ SAVE_TIMEOUT \in Nat \ {0}
    /\ Faults \subseteq FaultKinds

VARIABLES
    pc,      (* the next call on the card; idle: the main loop; off          *)
    task,    (* what the calls are for                                       *)
    ok,      (* ok of purrgo_config_save                                     *)
    ram,     (* app_config                                                   *)
    cfg,     (* PURRGO.CFG as a power loss would leave it                    *)
    tmp,     (* PURRGO.CFG.TMP as a power loss would leave it                *)
    data,    (* what FatFs has accepted for the open temporary file          *)
    card,    (* the card: good, bad (calls may fail), out                    *)
    reader,  (* the reader's statics                                         *)
    held     (* history: this boot's settings were read or saved             *)

vars == <<pc, task, ok, ram, cfg, tmp, data, card, reader, held>>

file == <<cfg, tmp, data>>

Init ==
    /\ pc = "off" /\ task = "none" /\ ok = FALSE /\ ram = Default
    /\ cfg \in {NoFile} \cup [val : Settings, size : {"whole"}]
    /\ tmp = NoFile /\ data = NoFile
    /\ card \in {"good", "bad", "out"}
    /\ reader = [active |-> FALSE, dirty |-> FALSE, age |-> 0]
    /\ held = FALSE

----------------------------------------------------------------------------
(* The card.                                                               *)

Works == card # "out"
MayFail(fault) == card = "out" \/ (card = "bad" /\ fault \in Faults)

\* The test that recovery makes on the temporary file.
EndsInNewline(f) == f # NoFile /\ f.size \in {"cut", "whole"}

\* What the parser makes of a text: missing keys keep their defaults.
Parsed(f) ==
    CASE f.size = "whole" -> f.val
      [] f.size = "empty" -> Default
      [] OTHER -> Mixed

----------------------------------------------------------------------------
(* purrgo_config_save: text to the temporary file, sync, close, replace.   *)
(* The text always fits its buffer (the longest names leave room in it).   *)

Saving(t) == pc' = "open" /\ task' = t

\* purrgo_book_reader_flush: what the reader makes of the result of its save.
Flushed_Forgets(r) == [reader EXCEPT !.dirty = FALSE]

Flushed(r) ==
    IF r THEN [reader EXCEPT !.dirty = FALSE] ELSE [reader EXCEPT !.age = 0]

\* The save is over with result r; power-off goes on to standby.
Return(r) ==
    /\ pc' = IF task = "power off" THEN "standby" ELSE "idle"
    /\ task' = "none"
    /\ reader' = IF task = "flush" THEN Flushed(r) ELSE reader
    /\ held' = (held \/ r)

\* purrgo_fs_open(tmp, FS_WRITE_CREATE): an old text is cut to nothing, which the
\* directory may or may not show yet, also when the open fails after that.
OpenTmp ==
    /\ pc = "open"
    /\ tmp' \in {tmp} \cup (IF Works THEN {[val |-> ram, size |-> "empty"]} ELSE {})
    /\ \/ /\ Works
          /\ data' = [val |-> ram, size |-> "empty"]
          /\ ok' = TRUE /\ pc' = "write"
          /\ UNCHANGED <<task, reader, held>>
       \/ MayFail("openTmp") /\ Return(FALSE) /\ UNCHANGED <<data, ok>>
    /\ UNCHANGED <<ram, cfg, card>>

\* The size of the part that a failing write leaves.
WriteTmp_ReturnsAtOnce ==
    /\ pc = "write"
    /\ \/ /\ Works /\ data' = [data EXCEPT !.size = "whole"] /\ pc' = "sync"
          /\ ok' = TRUE /\ UNCHANGED <<task, reader, held>>
       \/ /\ MayFail("write") /\ ok' = FALSE /\ Return(FALSE)
          /\ data' \in [val : {ram}, size : {"empty", "torn"}]
    /\ UNCHANGED <<ram, cfg, tmp, card>>

WriteTmp ==
    /\ pc = "write"
    /\ \/ Works /\ data' = [data EXCEPT !.size = "whole"] /\ pc' = "sync" /\ ok' = TRUE
       \/ /\ MayFail("write") /\ pc' = "close" /\ ok' = FALSE
          /\ data' \in [val : {ram}, size : {"empty", "torn"}]
       \/ /\ MayFail("writeCut") /\ pc' = "close" /\ ok' = FALSE
          /\ data' = [data EXCEPT !.size = "cut"]
    /\ UNCHANGED <<task, ram, cfg, tmp, card, reader, held>>

SyncTmp ==
    /\ pc = "sync" /\ pc' = "close"
    /\ \/ Works /\ tmp' = data /\ ok' = TRUE
       \/ Works /\ MayFail("sync") /\ tmp' \in {tmp, data} /\ ok' = FALSE
       \/ ~ Works /\ ok' = FALSE /\ UNCHANGED tmp
    /\ UNCHANGED <<task, ram, cfg, data, card, reader, held>>

\* A close saves what was written, also after a write that failed.
CloseTmp_IgnoresErrors ==
    /\ pc = "close" /\ data' = NoFile
    /\ tmp' = IF Works THEN data ELSE tmp
    /\ pc' = "unlink"
    /\ UNCHANGED <<task, ok, ram, cfg, card, reader, held>>

CloseTmp ==
    /\ pc = "close" /\ data' = NoFile
    /\ \/ Works /\ tmp' = data /\ ok' = ok
       \/ Works /\ MayFail("close") /\ tmp' \in {tmp, data} /\ ok' = FALSE
       \/ ~ Works /\ ok' = FALSE /\ UNCHANGED tmp
    /\ IF ok' THEN pc' = "unlink" /\ UNCHANGED <<task, reader, held>> ELSE Return(FALSE)
    /\ UNCHANGED <<ram, cfg, card>>

----------------------------------------------------------------------------
(* purrgo_fs_replace: remove the old file, rename the new one.  A save     *)
(* ends with it, a recovery goes on to load whatever came of it.           *)

Replaced(r) ==
    IF task = "recover"
    THEN pc' = "load" /\ task' = "boot" /\ UNCHANGED <<reader, held>>
    ELSE Return(r)

\* f_unlink removes the entry first and then the clusters: an error of theirs is
\* reported with the file gone.
Unlink ==
    /\ pc = "unlink"
    /\ \/ Works /\ cfg' = NoFile /\ pc' = "rename" /\ UNCHANGED <<task, reader, held>>
       \/ /\ MayFail(IF cfg = NoFile THEN "lookup" ELSE "unlink") /\ Replaced(FALSE)
          /\ cfg' \in {cfg} \cup (IF Works THEN {NoFile} ELSE {})
    /\ UNCHANGED <<ok, ram, tmp, data, card>>

\* f_rename that fails may have given the file its new name.  Left out: an error
\* between the two, which leaves the one chain under both names.
Rename ==
    /\ pc = "rename"
    /\ \/ Works /\ cfg' = tmp /\ tmp' = NoFile /\ Replaced(TRUE)
       \/ /\ MayFail("rename") /\ Replaced(FALSE)
          /\ UNCHANGED <<cfg, tmp>> \/ (Works /\ cfg' = tmp /\ tmp' = NoFile)
    /\ UNCHANGED <<ok, ram, data, card>>

----------------------------------------------------------------------------
(* purrgo_config_load, at boot.                                            *)

PowerOn ==
    /\ pc = "off" /\ pc' = "check" /\ task' = "boot"
    /\ ram' = Default /\ held' = FALSE
    /\ reader' = [active |-> FALSE, dirty |-> FALSE, age |-> 0]
    /\ UNCHANGED <<ok, file, card>>

\* config_recover_interrupted_save
Check ==
    LET usable == Works /\ EndsInNewline(tmp)
        missing == cfg = NoFile \/ MayFail("lookup")
        Recover == usable /\ pc' = "unlink" /\ task' = "recover"
        GoOn == pc' = "load" /\ UNCHANGED task
    IN  /\ pc = "check"
        /\ \/ cfg # NoFile /\ Works /\ GoOn
           \/ missing /\ Recover
           \/ missing /\ (~ usable \/ MayFail("lookup") \/ MayFail("read")) /\ GoOn
        /\ UNCHANGED <<ok, ram, file, card, reader, held>>

\* A file that does not open, and not only one that is missing, is replaced by
\* the defaults; an empty one is not.
Load ==
    /\ pc = "load"
    /\ \/ /\ Works /\ cfg # NoFile
          /\ ram' \in {Parsed(cfg)}
                    \cup (IF MayFail("read") THEN {Mixed, Default} ELSE {})
          /\ pc' = "idle" /\ task' = "none" /\ held' = TRUE
       \/ /\ cfg = NoFile \/ MayFail("lookup")
          /\ Saving("boot") /\ UNCHANGED <<ram, held>>
    /\ UNCHANGED <<ok, file, card, reader>>

----------------------------------------------------------------------------
(* Those who change and save the settings, from the main loop.             *)

\* A menu applies its drafts and saves; it ignores the result.
Menu(s) ==
    /\ pc = "idle" /\ ~ reader.active
    /\ ram' = s /\ Saving("menu")
    /\ UNCHANGED <<ok, file, card, reader, held>>

\* purrgo_system_power_off, from the menu.
PowerOff ==
    /\ pc = "idle" /\ ~ reader.active
    /\ Saving("power off")
    /\ UNCHANGED <<ok, ram, file, card, reader, held>>

EnterReader ==
    /\ pc = "idle" /\ ~ reader.active
    /\ reader' = [reader EXCEPT !.active = TRUE]
    /\ UNCHANGED <<pc, task, ok, ram, file, card, held>>

\* remember_position: a book is opened or a page turned.
RememberPosition(s) ==
    /\ pc = "idle" /\ reader.active
    /\ ram' = s
    /\ reader' = [reader EXCEPT !.dirty = TRUE, !.age = 0]
    /\ UNCHANGED <<pc, task, ok, file, card, held>>

LeaveReader ==
    /\ pc = "idle" /\ reader.active
    /\ reader' = [reader EXCEPT !.active = FALSE]
    /\ IF reader.dirty THEN Saving("flush") ELSE UNCHANGED <<pc, task>>
    /\ UNCHANGED <<ok, ram, file, card, held>>

\* One unit of time, and purrgo_book_reader_tick.
Aged ==
    [reader EXCEPT !.age = IF @ < SAVE_TIMEOUT THEN @ + 1 ELSE @]

Tick_OnlyWhileReading ==
    /\ pc = "idle" /\ reader' = Aged
    /\ IF Aged.active /\ Aged.dirty /\ Aged.age >= SAVE_TIMEOUT
       THEN Saving("flush") ELSE UNCHANGED <<pc, task>>
    /\ UNCHANGED <<ok, ram, file, card, held>>

Tick ==
    /\ pc = "idle" /\ reader' = Aged
    /\ IF Aged.dirty /\ Aged.age >= SAVE_TIMEOUT
       THEN Saving("flush") ELSE UNCHANGED <<pc, task>>
    /\ UNCHANGED <<ok, ram, file, card, held>>

----------------------------------------------------------------------------
(* The surroundings.                                                       *)

PowerGone ==
    /\ pc' = "off"
    /\ task' = "none" /\ ok' = FALSE /\ ram' = Default /\ data' = NoFile
    /\ held' = FALSE
    /\ reader' = [active |-> FALSE, dirty |-> FALSE, age |-> 0]
    /\ UNCHANGED <<cfg, tmp, card>>

PowerLoss == pc \notin {"off", "standby"} /\ PowerGone

\* The end of purrgo_system_power_off: unmount, last screen, standby.
EnterStandby == pc = "standby" /\ PowerGone

\* The card is mounted again by the main loop's poll or at the next start only.
CardChanges ==
    /\ \/ card = "out" /\ pc \in {"idle", "off"} /\ card' \in {"good", "bad"}
       \/ card = "good" /\ card' = "bad"
       \/ card = "bad" /\ card' = "good"
       \/ /\ card # "out" /\ card' = "out"
          /\ pc = "rename" /\ task # "recover" => "rename" \in Faults
    /\ UNCHANGED <<pc, task, ok, ram, file, reader, held>>

Step ==
    \/ PowerOn \/ EnterStandby \/ Check \/ Load
    \/ OpenTmp \/ WriteTmp \/ SyncTmp \/ CloseTmp \/ Unlink \/ Rename

UserActs ==
    \/ \E s \in Settings : Menu(s) \/ RememberPosition(s)
    \/ EnterReader \/ LeaveReader \/ PowerOff

Next == Step \/ Tick \/ UserActs \/ PowerLoss \/ CardChanges

Spec == Init /\ [][Next]_vars

\* The loop goes on and the clock with it.
FairSpec == Spec /\ WF_vars(Step) /\ WF_vars(Tick)

----------------------------------------------------------------------------
(* Properties.                                                             *)

\* Types; and the file being written is open exactly between open and close, so no
\* path of a save leaks one of the file layer's slots.
TypeOK ==
    /\ pc \in {"off", "check", "load", "idle", "standby",
               "open", "write", "sync", "close", "unlink", "rename"}
    /\ task \in {"none", "boot", "recover", "menu", "flush", "power off"}
    /\ ok \in BOOLEAN /\ held \in BOOLEAN
    /\ ram \in Values
    /\ cfg \in Text \cup {NoFile} /\ tmp \in Text \cup {NoFile}
    /\ data \in Text \cup {NoFile}
    /\ data # NoFile <=> pc \in {"write", "sync", "close"}
    /\ card \in {"good", "bad", "out"}
    /\ reader \in [active : BOOLEAN, dirty : BOOLEAN, age : 0..SAVE_TIMEOUT]

\* What a boot that reaches the card would load now.
Up == pc \notin {"off", "check", "load"} /\ task # "recover"

Stored ==
    IF cfg # NoFile THEN Parsed(cfg)
    ELSE IF EndsInNewline(tmp) THEN Parsed(tmp) ELSE Default

\* The comment at purrgo_config_save: the file is replaced atomically.  Whenever the
\* power goes, in a save or in a recovery, and whatever fails of making the temporary
\* file, the next boot finds the settings of before or those of the save, never a
\* mixture, and never the defaults once the device has had its settings on the card.
\* With the other faults (an error of the unlink or the rename, a failed search, a short
\* read, a write cut at the end of a line) it does not hold.
Cell == INSTANCE SettingsCell WITH
            up <- Up, reach <- card # "out", held <- Up /\ held,
            ram <- IF Up THEN ram ELSE Default, stored <- Stored

AtomicSettings == Cell!Spec

\* The comment at purrgo_config_save again: a power failure or a card error in the middle
\* of writing leaves the old settings untouched.  So what a boot would find changes only
\* into the settings in use, while the device has had its own on the card.
OldSettingsSurvive == [][Up /\ Up' /\ held => Stored' \in {Stored, ram}]_vars

\* The reader forgets that a position is unsaved only when the card has it, or when
\* the power goes.
SavedMeansStored ==
    [][reader.dirty /\ ~ reader'.dirty /\ pc' \notin {"off", "check"}
          => Stored' = ram]_vars

\* A position is saved in the end, after any failures and also when the reader was
\* left, if the card works, nobody interferes and the power stays.
Calm == <>[](card = "good") /\ <>[][~ (UserActs \/ PowerLoss)]_vars

PositionSaved == Calm => <>[](~ reader.dirty)
=============================================================================
