---------------------------- MODULE ConfigProofs ----------------------------
(***************************************************************************)
(* Config implements SettingsCell: the configuration file is one atomic    *)
(* cell, for every set of settings and every set of the faults that the    *)
(* code is made for.                                                       *)
(*                                                                         *)
(* The five other faults (SafeFaults excludes them) each break it.  An     *)
(* unlink that fails with the file gone and a rename that fails leave the  *)
(* only copy of the settings in the temporary file while the device        *)
(* believes that it holds them, a write cut at the end of a line leaves    *)
(* there what a recovery takes for whole, and a failed search or a short   *)
(* read hides what is on the card.                                         *)
(* Types, and that a position counts as saved only when the card has it,   *)
(* hold with all of them: the second part, under WInv.                     *)
(***************************************************************************)
EXTENDS Config, TLAPS

SafeFaults == Faults \cap {"lookup", "writeCut", "unlink", "rename", "read"} = {}

Whole(v) == [val |-> v, size |-> "whole"]

\* Every text on the card is one that a save has begun: never cut at a line, and in
\* PURRGO.CFG always whole.
Texts ==
    /\ ram \in Settings
    /\ cfg \in {NoFile} \cup [val : Settings, size : {"whole"}]
    /\ tmp \in {NoFile} \cup [val : Settings, size : {"empty", "torn", "whole"}]
    /\ data \in {NoFile} \cup [val : Settings, size : {"empty", "torn", "cut", "whole"}]
    /\ data # NoFile /\ data.size = "cut" => card = "out"

\* What a save has done so far.
SaveProgress ==
    /\ data # NoFile => pc \in {"write", "sync", "close"} /\ data.val = ram
    /\ pc = "write" => data # NoFile
    /\ pc = "sync" => data = Whole(ram)
    /\ pc = "close" => data # NoFile /\ (ok => data = Whole(ram))
    /\ pc = "unlink" /\ task # "recover" => tmp = Whole(ram)
    /\ pc = "rename" => cfg = NoFile
    /\ pc = "rename" /\ task # "recover" => tmp = Whole(ram) /\ card # "out"

\* What a recovery has found, and what is left to load when it is over.
BootProgress ==
    /\ task = "recover" =>
          /\ pc \in {"unlink", "rename"} /\ cfg = NoFile
          /\ EndsInNewline(tmp)
    /\ pc = "load" /\ cfg = NoFile /\ card # "out" => ~ EndsInNewline(tmp)
    /\ ~ Up => ~ held /\ ram = Default

\* A device that holds its settings has them in PURRGO.CFG, except between the
\* unlink and the rename of a save.
Held == held /\ pc # "rename" => cfg # NoFile

IInv == Texts /\ SaveProgress /\ BootProgress /\ Held

----------------------------------------------------------------------------
(* The card and its texts.                                                 *)

\* The excluded faults only happen when the card is out.
LEMMA FailsWhenOut ==
    ASSUME SafeFaults
    PROVE  \A f \in {"lookup", "writeCut", "unlink", "rename", "read"} :
              (MayFail(f) <=> ~ Works) /\ f \notin Faults
BY DEF SafeFaults, MayFail, Works

\* A text is not the mark of a missing file.
LEMMA TextIsAFile ==
    ASSUME NEW v \in Settings, NEW z \in {"empty", "torn", "cut", "whole"}
    PROVE  [val |-> v, size |-> z] # NoFile
BY ConfigAssumption DEF Text, Values

\* What a boot makes of the texts that are there.
LEMMA ParsedTexts ==
    ASSUME NEW f
    PROVE  /\ f.size = "whole" => Parsed(f) = f.val
           /\ f.size = "empty" => Parsed(f) = Default
           /\ f # NoFile /\ f.size \in {"empty", "torn"} => ~ EndsInNewline(f)
           /\ f # NoFile /\ f.size = "whole" => EndsInNewline(f)
BY DEF Parsed, EndsInNewline

----------------------------------------------------------------------------
(* The invariant.                                                          *)

LEMMA InitInv ==
    ASSUME Init
    PROVE  IInv
BY ConfigAssumption DEF Init, IInv, Texts, SaveProgress, BootProgress, Held, Up

LEMMA OpenTmpKeepsInv ==
    ASSUME IInv, OpenTmp
    PROVE  IInv'
<1>1. CASE pc' = "write"
  <2>1. data' = [val |-> ram, size |-> "empty"] /\ data' # NoFile
    BY <1>1, TextIsAFile DEF OpenTmp, Return, IInv, Texts
  <2> QED
    BY <1>1, <2>1 DEF OpenTmp, Return, IInv, Texts, SaveProgress, BootProgress, Held, Up
<1>2. CASE pc' # "write"
  <2>1. ram \in Settings /\ tmp' \in {tmp, [val |-> ram, size |-> "empty"]}
    BY DEF OpenTmp, IInv, Texts
  <2>2. tmp' \in {NoFile} \cup [val : Settings, size : {"empty", "torn", "whole"}]
    BY <2>1 DEF IInv, Texts
  <2>3. /\ pc' \in {"idle", "standby"} /\ task' = "none" /\ pc = "open"
        /\ UNCHANGED <<data, ram, cfg, card>> /\ (held' <=> held)
    BY <1>2 DEF OpenTmp, Return
  <2>4. data = NoFile /\ task # "recover"
    BY <2>3 DEF IInv, SaveProgress, BootProgress
  <2>5. Texts'
    BY <2>2, <2>3, <2>4 DEF IInv, Texts
  <2>6. SaveProgress' /\ BootProgress' /\ Held'
    BY <2>3, <2>4 DEF IInv, SaveProgress, BootProgress, Held, Up
  <2> QED
    BY <2>5, <2>6 DEF IInv
<1> QED
  BY <1>1, <1>2

\* What is set of a record of the two fields.
LEMMA TextWithSize ==
    ASSUME NEW S, NEW Z, NEW d \in [val : S, size : Z], NEW z, NEW t,
           t = [d EXCEPT !.size = z]
    PROVE  t = [val |-> d.val, size |-> z]
OBVIOUS

LEMMA WriteTmpKeepsInv ==
    ASSUME IInv, SafeFaults, WriteTmp
    PROVE  IInv'
<1>1. /\ data # NoFile /\ data.val = ram /\ ram \in Settings
      /\ data \in [val : Settings, size : {"empty", "torn", "cut", "whole"}]
  BY DEF IInv, SaveProgress, WriteTmp, Texts
<1>2. \E z \in {"empty", "torn", "cut", "whole"} :
         /\ data' = [val |-> ram, size |-> z]
         /\ z = "cut" => card = "out"
         /\ \/ pc' = "sync" /\ z = "whole"
            \/ pc' = "close" /\ ~ ok'
  <2>1. CASE data' = [data EXCEPT !.size = "whole"] /\ pc' = "sync"
    <3>1. data' = [val |-> ram, size |-> "whole"]
      BY <1>1, <2>1, TextWithSize
    <3> QED
      BY <2>1, <3>1
  <2>2. CASE /\ data' \in [val : {ram}, size : {"empty", "torn"}]
             /\ pc' = "close" /\ ~ ok'
    BY <2>2
  <2>3. CASE /\ data' = [data EXCEPT !.size = "cut"] /\ pc' = "close" /\ ~ ok'
             /\ MayFail("writeCut")
    <3>1. data' = [val |-> ram, size |-> "cut"]
      BY <1>1, <2>3, TextWithSize
    <3> QED
      BY <2>3, <3>1, FailsWhenOut DEF Works
  <2> QED
    BY <2>1, <2>2, <2>3 DEF WriteTmp
<1>3. data' # NoFile
  BY <1>1, <1>2, TextIsAFile
<1> QED
  BY <1>1, <1>2, <1>3 DEF WriteTmp, IInv, Texts, SaveProgress, BootProgress, Held, Up, Whole

LEMMA SyncTmpKeepsInv ==
    ASSUME IInv, SyncTmp
    PROVE  IInv'
<1>1. data = Whole(ram) /\ ram \in Settings /\ task # "recover"
  BY DEF SyncTmp, IInv, Texts, SaveProgress, BootProgress
<1>2. tmp' \in {NoFile} \cup [val : Settings, size : {"empty", "torn", "whole"}]
  BY <1>1 DEF SyncTmp, IInv, Texts, Whole
<1>3. Texts'
  BY <1>2 DEF SyncTmp, IInv, Texts
<1>4. SaveProgress'
  BY <1>1, TextIsAFile DEF SyncTmp, IInv, SaveProgress, Whole
<1> QED
  BY <1>1, <1>3, <1>4 DEF SyncTmp, IInv, BootProgress, Held, Up

LEMMA CloseTmpKeepsInv ==
    ASSUME IInv, CloseTmp
    PROVE  IInv'
<1>1. CASE pc' = "unlink"
  BY <1>1 DEF CloseTmp, Return, Works, IInv, Texts, SaveProgress, BootProgress, Held, Up, Whole
<1>2. CASE pc' # "unlink"
  BY <1>2 DEF CloseTmp, Return, Works, IInv, Texts, SaveProgress, BootProgress, Held, Up, Whole
<1> QED
  BY <1>1, <1>2

LEMMA UnlinkKeepsInv ==
    ASSUME IInv, SafeFaults, Unlink
    PROVE  IInv'
<1>1. CASE pc' = "rename"
  BY <1>1 DEF Unlink, IInv, Texts, SaveProgress, BootProgress, Held, Up, Whole, Works,
       Replaced, Return, EndsInNewline
<1>2. CASE pc' # "rename"
  <2>1. /\ Replaced(FALSE) /\ UNCHANGED <<ok, ram, cfg, tmp, data, card>>
        /\ pc = "unlink" /\ card = "out"
    BY <1>2, FailsWhenOut DEF Unlink, Works
  <2>2. CASE task = "recover"
    BY <2>1, <2>2 DEF Replaced, IInv, Texts, SaveProgress, BootProgress, Held, Up
  <2>3. CASE task # "recover"
    BY <2>1, <2>3 DEF Replaced, Return, IInv, Texts, SaveProgress, BootProgress, Held, Up
  <2> QED
    BY <2>2, <2>3
<1> QED
  BY <1>1, <1>2

LEMMA RenameKeepsInv ==
    ASSUME IInv, SafeFaults, Rename
    PROVE  IInv'
<1>1. CASE ~ Works
  <2>1. pc = "rename" /\ task = "recover" /\ ~ held
    BY <1>1 DEF Rename, Works, IInv, SaveProgress, BootProgress, Up
  <2> QED
    BY <1>1, <2>1 DEF Rename, Replaced, Works, IInv, Texts, SaveProgress, BootProgress, Held, Up
<1>2. CASE Works
  <2>1. cfg' = tmp /\ tmp' = NoFile /\ Replaced(TRUE) /\ UNCHANGED <<ok, ram, data, card>>
    BY <1>2, FailsWhenOut DEF Rename
  <2>2. tmp # NoFile /\ tmp \in [val : Settings, size : {"whole"}]
    <3>1. CASE task = "recover"
      BY <3>1 DEF IInv, Texts, BootProgress, EndsInNewline
    <3>2. CASE task # "recover"
      BY <3>2, TextIsAFile DEF Rename, IInv, Texts, SaveProgress, Whole
    <3> QED
      BY <3>1, <3>2
  <2>3. CASE task = "recover"
    BY <2>1, <2>2, <2>3 DEF Replaced, Rename, IInv, Texts, SaveProgress, BootProgress, Held, Up
  <2>4. CASE task # "recover"
    BY <2>1, <2>2, <2>4 DEF Replaced, Return, Rename, IInv, Texts, SaveProgress, BootProgress,
         Held, Up
  <2> QED
    BY <2>3, <2>4
<1> QED
  BY <1>1, <1>2

LEMMA PowerOnKeepsInv ==
    ASSUME IInv, PowerOn
    PROVE  IInv'
BY ConfigAssumption DEF PowerOn, file, IInv, Texts, SaveProgress, BootProgress, Held, Up

LEMMA PowerGoneKeepsInv ==
    ASSUME IInv, PowerGone
    PROVE  IInv'
BY ConfigAssumption DEF PowerGone, IInv, Texts, SaveProgress, BootProgress, Held, Up

LEMMA CheckKeepsInv ==
    ASSUME IInv, SafeFaults, Check
    PROVE  IInv'
BY FailsWhenOut DEF Check, file, Works, IInv, Texts, SaveProgress, BootProgress, Held, Up

\* A boot that finds the file takes what a save has put there.
LEMMA LoadReads ==
    ASSUME IInv, SafeFaults, Load, pc' = "idle"
    PROVE  /\ cfg # NoFile /\ cfg \in [val : Settings, size : {"whole"}]
           /\ ram' = cfg.val /\ ram' \in Settings /\ held' = TRUE /\ task' = "none"
           /\ UNCHANGED <<cfg, tmp, data, card>>
<1>1. cfg # NoFile /\ ram' = Parsed(cfg) /\ UNCHANGED <<cfg, tmp, data, card>>
      /\ held' = TRUE /\ task' = "none"
  BY FailsWhenOut DEF Load, Saving, file, Works
<1>2. cfg \in [val : Settings, size : {"whole"}]
  BY <1>1 DEF IInv, Texts
<1> QED
  BY <1>1, <1>2, ParsedTexts

LEMMA LoadKeepsInv ==
    ASSUME IInv, SafeFaults, Load
    PROVE  IInv'
<1>1. CASE pc' = "idle"
  BY <1>1, LoadReads DEF Load, IInv, Texts, SaveProgress, BootProgress, Held, Up
<1>2. CASE pc' # "idle"
  BY <1>2 DEF Load, Saving, file, IInv, Texts, SaveProgress, BootProgress, Held, Up
<1> QED
  BY <1>1, <1>2

\* The steps of the main loop touch no file.
Loop ==
    \/ \E s \in Settings : Menu(s) \/ RememberPosition(s)
    \/ PowerOff \/ EnterReader \/ LeaveReader \/ Tick

LEMMA LoopSteps ==
    ASSUME Loop
    PROVE  /\ pc = "idle" /\ ram' \in Settings \cup {ram}
           /\ \/ pc' = "idle" /\ task' = task
              \/ pc' = "open" /\ task' \in {"menu", "power off", "flush"}
           /\ UNCHANGED <<cfg, tmp, data, card, held>>
BY DEF Loop, Menu, RememberPosition, PowerOff, EnterReader, LeaveReader, Tick, Saving, file

LEMMA LoopKeepsInv ==
    ASSUME IInv, Loop
    PROVE  IInv'
<1>1. task # "recover" /\ Up /\ Up' /\ data = NoFile /\ task' # "recover"
  BY LoopSteps DEF IInv, SaveProgress, BootProgress, Up
<1>2. Texts' /\ SaveProgress'
  BY <1>1, LoopSteps DEF IInv, Texts, SaveProgress
<1>3. pc' # "load" /\ pc # "rename" /\ pc' # "rename"
  BY LoopSteps
<1>4. BootProgress'
  BY <1>1, <1>3 DEF BootProgress
<1>5. Held'
  BY <1>3, LoopSteps DEF IInv, Held
<1> QED
  BY <1>2, <1>4, <1>5 DEF IInv
LEMMA CardChangesKeepsInv ==
    ASSUME IInv, SafeFaults, CardChanges
    PROVE  IInv'
BY FailsWhenOut DEF CardChanges, file, IInv, Texts, SaveProgress, BootProgress, Held, Up, Whole

LEMMA StutterKeepsInv ==
    ASSUME IInv, UNCHANGED vars
    PROVE  IInv'
BY DEF vars, IInv, Texts, SaveProgress, BootProgress, Held, Up, Whole, EndsInNewline

LEMMA Invariance ==
    ASSUME SafeFaults
    PROVE  Spec => []IInv
<1>1. IInv /\ [Next]_vars => IInv'
  BY OpenTmpKeepsInv, WriteTmpKeepsInv, SyncTmpKeepsInv, CloseTmpKeepsInv, UnlinkKeepsInv,
     RenameKeepsInv, PowerOnKeepsInv, PowerGoneKeepsInv, CheckKeepsInv, LoadKeepsInv,
     LoopKeepsInv, CardChangesKeepsInv, StutterKeepsInv
     DEF Next, Step, UserActs, Loop, PowerLoss, EnterStandby
<1> QED
  BY <1>1, InitInv, PTL DEF Spec

----------------------------------------------------------------------------
(* The steps, seen as steps of the cell.  A boot of the cell is the step   *)
(* that ends purrgo_config_load, its power loss is that of the device; the *)
(* instant of a save is the step after which the next boot finds it.       *)

CellStep == [Cell!Next]_(Cell!cell)

\* A step of the device that is seen neither in its own settings nor in what the
\* card has.
LEMMA Unseen ==
    ASSUME Up' <=> Up, (card' # "out") <=> (card # "out"),
           Up => ram' = ram /\ (held' <=> held), Stored' = Stored
    PROVE  CellStep
BY DEF CellStep, Cell!cell


\* During a save PURRGO.CFG is untouched until the unlink, so while it is there the
\* next boot finds it, whatever happens to the temporary file.
LEMMA StoredInFile ==
    ASSUME cfg # NoFile, cfg' = cfg
    PROVE  Stored' = Stored
BY DEF Stored, Parsed

\* A save that is over leaves the device running.
LEMMA Returns ==
    ASSUME NEW r \in BOOLEAN, Return(r)
    PROVE  Up' /\ (held' <=> held \/ r)
BY DEF Return, Up

LEMMA OpenTmpIsCellStep ==
    ASSUME IInv, OpenTmp
    PROVE  CellStep
<1>1. Up /\ Up' /\ UNCHANGED <<ram, cfg, card>> /\ (held' <=> held)
  <2>1. Up /\ task # "recover" /\ UNCHANGED <<ram, cfg, card>>
    BY DEF OpenTmp, Up, IInv, BootProgress
  <2>2. CASE pc' = "write" /\ UNCHANGED <<task, held>>
    BY <2>1, <2>2 DEF Up
  <2>3. CASE Return(FALSE)
    BY <2>1, <2>3, Returns
  <2> QED
    BY <2>2, <2>3 DEF OpenTmp
<1>2. CASE cfg # NoFile \/ tmp' = tmp
  <2>1. Stored' = Stored
    BY <1>1, <1>2, StoredInFile DEF Stored
  <2> QED
    BY <1>1, <2>1, Unseen
<1>3. CASE cfg = NoFile /\ tmp' # tmp
  <2>1. ~ held
    BY <1>3 DEF OpenTmp, IInv, Held
  <2>2. tmp' = [val |-> ram, size |-> "empty"]
    BY <1>3 DEF OpenTmp
  <2>3. ~ EndsInNewline(tmp')
    BY <2>2 DEF EndsInNewline
  <2>4. Stored' = Default
    BY <1>1, <1>3, <2>3 DEF Stored, EndsInNewline
  <2> QED
    BY <1>1, <2>1, <2>4 DEF CellStep, Cell!Next, Cell!Lose
<1> QED
  BY <1>2, <1>3

LEMMA WriteTmpIsCellStep ==
    ASSUME IInv, WriteTmp
    PROVE  CellStep
<1>1. Up /\ Up' /\ UNCHANGED <<ram, cfg, tmp, card, held>>
  BY DEF WriteTmp, Up, IInv, BootProgress
<1>2. Stored' = Stored
  BY <1>1 DEF Stored
<1> QED
  BY <1>1, <1>2, Unseen

\* The temporary file is the one that is written: when PURRGO.CFG is missing, this
\* is the instant of the save.
LEMMA TmpWrittenIsSave ==
    ASSUME Texts, Up, Up', UNCHANGED <<ram, cfg, card>>, held' <=> held,
           cfg = NoFile, tmp' = Whole(ram)
    PROVE  CellStep
<1>1. Stored' = ram
  BY TextIsAFile, ParsedTexts DEF Texts, Stored, Whole, EndsInNewline, Parsed
<1> QED
  BY <1>1 DEF CellStep, Cell!Next, Cell!Save

LEMMA SyncTmpIsCellStep ==
    ASSUME IInv, SyncTmp
    PROVE  CellStep
<1>1. Up /\ Up' /\ UNCHANGED <<ram, cfg, card, held>> /\ data = Whole(ram) /\ Texts
  BY DEF SyncTmp, Up, IInv, BootProgress, SaveProgress
<1>2. CASE cfg # NoFile \/ tmp' = tmp
  <2>1. Stored' = Stored
    BY <1>1, <1>2, StoredInFile DEF Stored
  <2> QED
    BY <1>1, <2>1, Unseen
<1>3. CASE cfg = NoFile /\ tmp' # tmp
  <2>1. tmp' = Whole(ram)
    BY <1>1, <1>3 DEF SyncTmp
  <2> QED
    BY <1>1, <1>3, <2>1, TmpWrittenIsSave
<1> QED
  BY <1>2, <1>3

LEMMA CloseTmpIsCellStep ==
    ASSUME IInv, CloseTmp
    PROVE  CellStep
<1>1. /\ Up /\ Up' /\ UNCHANGED <<ram, cfg, card>> /\ (held' <=> held)
      /\ Texts /\ data # NoFile /\ data.val = ram /\ pc = "close"
  <2>1. /\ Up /\ task # "recover" /\ UNCHANGED <<ram, cfg, card>> /\ pc = "close"
        /\ Texts /\ data # NoFile /\ data.val = ram
    BY DEF CloseTmp, Up, IInv, BootProgress, SaveProgress
  <2>2. CASE pc' = "unlink" /\ UNCHANGED <<task, held>>
    BY <2>1, <2>2 DEF Up
  <2>3. CASE Return(FALSE)
    BY <2>1, <2>3, Returns
  <2> QED
    BY <2>1, <2>2, <2>3 DEF CloseTmp
<1>2. CASE cfg # NoFile \/ tmp' = tmp
  <2>1. Stored' = Stored
    BY <1>1, <1>2, StoredInFile DEF Stored
  <2> QED
    BY <1>1, <2>1, Unseen
<1>3. CASE cfg = NoFile /\ tmp' # tmp
  <2>1. tmp' = data /\ card # "out"
    BY <1>3 DEF CloseTmp, Works
  <2>2. data.size # "cut" /\ data \in [val : Settings, size : {"empty", "torn", "cut", "whole"}]
    BY <1>1, <2>1 DEF Texts
  <2>3. CASE data.size = "whole"
    <3>1. data = Whole(ram)
      BY <1>1, <2>2, <2>3 DEF Whole
    <3> QED
      BY <1>1, <1>3, <2>1, <3>1, TmpWrittenIsSave
  <2>4. CASE data.size # "whole"
    <3>1. ~ EndsInNewline(tmp')
      BY <2>1, <2>2, <2>4 DEF EndsInNewline
    <3>2. Stored' = Default
      BY <1>1, <1>3, <3>1 DEF Stored, EndsInNewline
    <3>3. ~ held
      BY <1>1, <1>3 DEF IInv, Held
    <3> QED
      BY <1>1, <3>2, <3>3 DEF CellStep, Cell!Next, Cell!Lose
  <2> QED
    BY <2>3, <2>4
<1> QED
  BY <1>2, <1>3

LEMMA UnlinkIsCellStep ==
    ASSUME IInv, SafeFaults, Unlink
    PROVE  CellStep
<1>1. pc = "unlink" /\ UNCHANGED <<ram, tmp, card>>
  BY DEF Unlink
<1>2. CASE task = "recover"
  <2>1. ~ Up /\ cfg = NoFile
    BY <1>2 DEF Up, IInv, BootProgress
  <2>2. cfg' = NoFile
    BY <2>1 DEF Unlink
  <2>3. ~ Up'
    BY <1>2 DEF Unlink, Replaced, Up
  <2>4. Stored' = Stored
    BY <1>1, <2>1, <2>2 DEF Stored, EndsInNewline, Parsed
  <2> QED
    BY <1>1, <2>1, <2>3, <2>4, Unseen
<1>3. CASE task # "recover" /\ pc' = "rename"
  <2>1. Up /\ Up' /\ (held' <=> held)
    BY <1>1, <1>3 DEF Unlink, Replaced, Return, Up
  <2>2. cfg' = NoFile
    BY <1>3 DEF Unlink, Replaced, Return
  <2>3. tmp' = Whole(ram) /\ Texts
    BY <1>1, <1>3 DEF IInv, SaveProgress
  <2>4. Stored' = ram
    BY <2>2, <2>3, TextIsAFile, ParsedTexts DEF Texts, Stored, Whole, EndsInNewline, Parsed
  <2> QED
    BY <1>1, <2>1, <2>4 DEF CellStep, Cell!Next, Cell!Save
<1>4. CASE task # "recover" /\ pc' # "rename"
  <2>1. Return(FALSE) /\ UNCHANGED cfg /\ Up
    BY <1>1, <1>4, FailsWhenOut DEF Unlink, Replaced, Up, Works
  <2>2. Stored' = Stored
    BY <1>1, <2>1 DEF Stored
  <2> QED
    BY <1>1, <2>1, <2>2, Returns, Unseen
<1> QED
  BY <1>2, <1>3, <1>4

LEMMA RenameIsCellStep ==
    ASSUME IInv, SafeFaults, Rename
    PROVE  CellStep
<1>1. pc = "rename" /\ UNCHANGED <<ram, card>> /\ cfg = NoFile
  BY DEF Rename, IInv, SaveProgress
<1>2. CASE task = "recover"
  <2>1. ~ Up /\ EndsInNewline(tmp)
    BY <1>2 DEF Up, IInv, BootProgress
  <2>2. ~ Up'
    BY <1>2 DEF Rename, Replaced, Up
  <2>3. Stored' = Stored
    <3>1. CASE cfg' = tmp
      BY <1>1, <2>1, <3>1 DEF Stored, EndsInNewline, Parsed
    <3>2. CASE UNCHANGED <<cfg, tmp>>
      BY <3>2 DEF Stored
    <3> QED
      BY <3>1, <3>2 DEF Rename
  <2> QED
    BY <1>1, <2>1, <2>2, <2>3, Unseen
<1>3. CASE task # "recover"
  <2>1. Up /\ tmp = Whole(ram) /\ tmp # NoFile /\ Works /\ Texts
    BY <1>1, <1>3, TextIsAFile DEF Up, IInv, SaveProgress, Works, Texts, Whole
  <2>2. cfg' = Whole(ram) /\ Return(TRUE)
    BY <1>3, <2>1, FailsWhenOut DEF Rename, Replaced
  <2>3. Stored = ram /\ Stored' = ram
    BY <1>1, <2>1, <2>2, ParsedTexts DEF Stored, Whole, EndsInNewline, Parsed
  <2> QED
    BY <1>1, <2>1, <2>2, <2>3, Returns DEF CellStep, Cell!Next, Cell!Confirm
<1> QED
  BY <1>2, <1>3

\* The steps of the boot before the settings are loaded.
LEMMA BootIsUnseen ==
    ASSUME IInv, PowerOn \/ Check
    PROVE  CellStep
<1>1. ~ Up /\ ~ Up' /\ UNCHANGED <<cfg, tmp, card>>
  BY DEF PowerOn, Check, file, Up
<1>2. Stored' = Stored
  BY <1>1 DEF Stored
<1> QED
  BY <1>1, <1>2, Unseen

LEMMA LoadIsCellStep ==
    ASSUME IInv, SafeFaults, Load
    PROVE  CellStep
<1>1. pc = "load" /\ ~ Up /\ ~ held /\ ram = Default
  BY DEF Load, Up, IInv, BootProgress
<1>2. CASE pc' = "idle"
  <2>1. Up'
    BY <1>2, LoadReads DEF Up
  <2>2. ram' = Stored /\ Stored' = Stored
    BY <1>2, LoadReads, ParsedTexts, StoredInFile DEF Stored
  <2> QED
    BY <1>1, <1>2, <2>1, <2>2, LoadReads DEF CellStep, Cell!Next, Cell!Boot
<1>3. CASE pc' # "idle"
  <2>1. /\ cfg = NoFile \/ card = "out"
        /\ UNCHANGED <<ram, held, cfg, tmp, card>>
        /\ pc' = "open" /\ task' = "boot"
    BY <1>3, FailsWhenOut DEF Load, Saving, file, Works
  <2>2. Up' /\ Stored' = Stored
    BY <2>1 DEF Up, Stored
  <2>3. card = "out" \/ Stored = Default
    BY <1>1, <2>1 DEF IInv, BootProgress, Stored
  <2> QED
    BY <1>1, <2>1, <2>2, <2>3 DEF CellStep, Cell!Next, Cell!Boot
<1> QED
  BY <1>2, <1>3

LEMMA LoopIsCellStep ==
    ASSUME IInv, Loop
    PROVE  CellStep
<1>1. Up /\ Up' /\ ram' \in Settings /\ UNCHANGED <<cfg, tmp, card, held>>
  BY LoopSteps DEF Up, IInv, BootProgress, Texts
<1>2. Stored' = Stored
  BY <1>1 DEF Stored
<1> QED
  BY <1>1, <1>2 DEF CellStep, Cell!Next, Cell!Change

LEMMA PowerGoneIsCellStep ==
    ASSUME PowerGone
    PROVE  CellStep
<1>1. ~ Up' /\ UNCHANGED <<cfg, tmp, card>>
  BY DEF PowerGone, Up
<1>2. Stored' = Stored
  BY <1>1 DEF Stored
<1>3. CASE Up
  BY <1>1, <1>2, <1>3 DEF CellStep, Cell!Next, Cell!PowerLoss
<1>4. CASE ~ Up
  BY <1>1, <1>2, <1>4, Unseen
<1> QED
  BY <1>3, <1>4

LEMMA CardChangesIsCellStep ==
    ASSUME CardChanges
    PROVE  CellStep
<1>1. (Up' <=> Up) /\ UNCHANGED <<ram, held, cfg, tmp>>
  BY DEF CardChanges, file, Up
<1>2. Stored' = Stored
  BY <1>1 DEF Stored
<1>3. CASE (card' # "out") <=> (card # "out")
  BY <1>1, <1>2, <1>3, Unseen
<1>4. CASE (card' # "out") <=> ~ (card # "out")
  BY <1>1, <1>2, <1>4 DEF CellStep, Cell!Next, Cell!Card
<1> QED
  BY <1>3, <1>4

----------------------------------------------------------------------------
(* The refinement.                                                         *)

LEMMA InitIsCellInit ==
    ASSUME Init
    PROVE  Cell!Init
<1>1. ~ Up /\ tmp = NoFile /\ cfg \in {NoFile} \cup [val : Settings, size : {"whole"}]
  BY DEF Init, Up
<1>2. Stored \in Settings
  BY <1>1, ConfigAssumption, ParsedTexts DEF Stored, EndsInNewline
<1> QED
  BY <1>1, <1>2 DEF Cell!Init

LEMMA NextIsCellStep ==
    ASSUME IInv, SafeFaults, [Next]_vars
    PROVE  CellStep
<1>1. CASE UNCHANGED vars
  <2>1. (Up' <=> Up) /\ UNCHANGED <<ram, held, card>> /\ Stored' = Stored
    BY <1>1 DEF vars, Up, Stored
  <2> QED
    BY <2>1, Unseen
<1>2. CASE Next
  BY <1>2, OpenTmpIsCellStep, WriteTmpIsCellStep, SyncTmpIsCellStep, CloseTmpIsCellStep,
     UnlinkIsCellStep, RenameIsCellStep, BootIsUnseen, LoadIsCellStep, LoopIsCellStep,
     PowerGoneIsCellStep, CardChangesIsCellStep
     DEF Next, Step, UserActs, Loop, PowerLoss, EnterStandby
<1> QED
  BY <1>1, <1>2

\* The comment at purrgo_config_save ("atomically replaces the target"): whenever the
\* power goes, or the temporary file does not open or fails in its writes, its sync or its
\* close, or the card is pulled before the old file is removed, the next boot finds the
\* settings of before or those of the save, and a device that has had its settings on the
\* card never comes up with the defaults.  An error of the removal or of the renaming is
\* not among these: the next save may then lose both (OldSettingsSurvive).
THEOREM ConfigIsAtomic ==
    ASSUME SafeFaults
    PROVE  Spec => AtomicSettings
<1>1. IInv /\ [Next]_vars => [Cell!Next]_(Cell!cell)
  BY NextIsCellStep DEF CellStep
<1>2. Init => Cell!Init
  BY InitIsCellInit
<1>3. Spec => []IInv
  BY Invariance
<1> QED
  BY <1>1, <1>2, <1>3, PTL DEF AtomicSettings, Cell!Spec, Spec

\* The comment at purrgo_config_save ("a power failure or a card error in the middle of
\* writing leaves the old settings untouched"): while the device has had its settings on
\* the card, what a boot would find only changes into the settings in use, as long as the
\* old file is removed and the new one renamed without an error.  The run failed_rename
\* shows that this is needed.
THEOREM ConfigKeepsOldSettings ==
    ASSUME SafeFaults
    PROVE  Spec => OldSettingsSurvive
<1>1. IInv /\ [Next]_vars => [Up /\ Up' /\ held => Stored' \in {Stored, ram}]_vars
  <2> SUFFICES ASSUME IInv, [Next]_vars, Up, Up', held
               PROVE  Stored' \in {Stored, ram}
    OBVIOUS
  <2>1. CellStep
    BY NextIsCellStep
  <2> QED
    BY <2>1 DEF CellStep, Cell!cell, Cell!Next, Cell!Boot, Cell!PowerLoss, Cell!Change,
       Cell!Save, Cell!Confirm, Cell!Lose, Cell!Card
<1>2. Spec => []IInv
  BY Invariance
<1> QED
  BY <1>1, <1>2, PTL DEF OldSettingsSurvive, Spec

----------------------------------------------------------------------------
(* What holds whatever the card does, with every fault: the types, which   *)
(* say that no path of a save leaves the temporary file open, and what the *)
(* reader may forget.  The invariant follows the text through a save: the  *)
(* file that is renamed is the one that was written and closed without an  *)
(* error, so it holds the settings in use.                                 *)

WriteProgress ==
    /\ data # NoFile => data.val = ram
    /\ pc = "sync" => data = Whole(ram)
    /\ pc = "close" /\ ok => data = Whole(ram)
    /\ pc \in {"unlink", "rename"} /\ task # "recover" => tmp = Whole(ram)
    /\ task = "recover" => pc \in {"unlink", "rename"}

WInv == TypeOK /\ WriteProgress

\* A text with the settings in use is a text.
LEMMA TextOf ==
    ASSUME NEW v \in Values, NEW z \in {"empty", "torn", "cut", "whole"}
    PROVE  [val |-> v, size |-> z] \in Text /\ [val |-> v, size |-> z] # NoFile
BY ConfigAssumption DEF Text

LEMMA ParsedIsValue ==
    ASSUME NEW f \in Text
    PROVE  Parsed(f) \in Values
BY ConfigAssumption DEF Parsed, Text, Values

ReaderType == [active : BOOLEAN, dirty : BOOLEAN, age : 0..SAVE_TIMEOUT]

LEMMA FreshReader ==
    [active |-> FALSE, dirty |-> FALSE, age |-> 0] \in ReaderType
<1>1. FALSE \in BOOLEAN /\ 0 \in 0..SAVE_TIMEOUT
  BY ConfigAssumption
<1> QED
  BY <1>1 DEF ReaderType

\* The fields that a step of the reader sets.
LEMMA ReaderFields ==
    ASSUME NEW R \in ReaderType, NEW b \in BOOLEAN, NEW n \in 0..SAVE_TIMEOUT
    PROVE  /\ [R EXCEPT !.dirty = b] \in ReaderType /\ [R EXCEPT !.dirty = b].dirty = b
           /\ [R EXCEPT !.active = b] \in ReaderType
           /\ [R EXCEPT !.active = b].dirty = R.dirty
           /\ [R EXCEPT !.age = n] \in ReaderType /\ [R EXCEPT !.age = n].dirty = R.dirty
           /\ [R EXCEPT !.dirty = b, !.age = n] \in ReaderType
           /\ [R EXCEPT !.dirty = b, !.age = n].dirty = b
BY DEF ReaderType

\* The reader takes the result of its save, and forgets only after a good one.
LEMMA FlushedReader ==
    ASSUME reader \in ReaderType, NEW r \in BOOLEAN
    PROVE  /\ Flushed(r) \in ReaderType
           /\ ~ r => Flushed(r).dirty = reader.dirty
<1>1. FALSE \in BOOLEAN /\ 0 \in 0..SAVE_TIMEOUT
  BY ConfigAssumption
<1> DEFINE q == [reader EXCEPT !.dirty = FALSE]
           p == [reader EXCEPT !.age = 0]
<1>2. q \in ReaderType /\ p \in ReaderType /\ p.dirty = reader.dirty
  BY <1>1, ReaderFields
<1>3. Flushed(r) = IF r THEN q ELSE p
  BY DEF Flushed
<1> HIDE DEF q, p
<1> QED
  BY <1>2, <1>3

LEMMA AgedReader ==
    ASSUME reader \in ReaderType
    PROVE  Aged \in ReaderType /\ Aged.dirty = reader.dirty
<1> DEFINE n == IF reader.age < SAVE_TIMEOUT THEN reader.age + 1 ELSE reader.age
<1>1. n \in 0..SAVE_TIMEOUT
  BY ConfigAssumption DEF ReaderType
<1>2. Aged = [reader EXCEPT !.age = n]
  BY DEF Aged
<1> HIDE DEF n
<1> QED
  BY <1>1, <1>2, ReaderFields

\* Where a save that is over leaves the types.
LEMMA ReturnsTyped ==
    ASSUME TypeOK, NEW r \in BOOLEAN, Return(r)
    PROVE  /\ pc' \in {"idle", "standby"} /\ task' = "none" /\ held' \in BOOLEAN
           /\ reader' \in ReaderType
           /\ ~ r => reader'.dirty = reader.dirty
           /\ task # "flush" => reader' = reader
<1>1. reader \in ReaderType /\ held \in BOOLEAN
  BY DEF TypeOK, ReaderType
<1> QED
  BY <1>1, FlushedReader DEF Return

LEMMA InitWInv ==
    ASSUME Init
    PROVE  WInv
<1>1. cfg \in Text \cup {NoFile} /\ ram \in Values
  BY ConfigAssumption DEF Init, Text, Values
<1>2. reader \in ReaderType
  BY FreshReader DEF Init
<1> QED
  BY <1>1, <1>2 DEF Init, WInv, TypeOK, WriteProgress, ReaderType

LEMMA OpenTmpKeepsWInv ==
    ASSUME WInv, OpenTmp
    PROVE  WInv' /\ reader'.dirty = reader.dirty
<1>1. CASE pc' = "write"
  <2>1. data' = [val |-> ram, size |-> "empty"] /\ tmp' \in {tmp, data'} /\ ok'
        /\ UNCHANGED <<cfg, task, reader, held, ram, card>>
    BY <1>1 DEF OpenTmp, Return
  <2>2. data' \in Text /\ data' # NoFile /\ data'.val = ram
    BY <2>1, TextOf DEF WInv, TypeOK
  <2> QED
    BY <1>1, <2>1, <2>2 DEF OpenTmp, WInv, TypeOK, WriteProgress
<1>2. CASE pc' # "write"
  <2>1. Return(FALSE) /\ UNCHANGED <<cfg, data, ok, ram, card>> /\ pc = "open"
    BY <1>2 DEF OpenTmp
  <2>2. /\ pc' \in {"idle", "standby"} /\ task' = "none" /\ held' \in BOOLEAN
        /\ reader' \in ReaderType /\ reader'.dirty = reader.dirty
    BY <2>1, ReturnsTyped DEF WInv
  <2>3. tmp' \in Text \cup {NoFile}
    BY TextOf DEF OpenTmp, WInv, TypeOK
  <2> QED
    BY <2>1, <2>2, <2>3 DEF WInv, TypeOK, WriteProgress, ReaderType
<1> QED
  BY <1>1, <1>2

LEMMA WriteTmpKeepsWInv ==
    ASSUME WInv, WriteTmp
    PROVE  WInv' /\ reader' = reader
<1>1. /\ data \in [val : Values, size : {"empty", "torn", "cut", "whole"}]
      /\ data.val = ram /\ ram \in Values /\ task # "recover"
  BY DEF WInv, TypeOK, WriteTmp, WriteProgress, Text
<1>2. \E z \in {"empty", "torn", "cut", "whole"} :
         /\ data' = [val |-> ram, size |-> z]
         /\ \/ pc' = "sync" /\ ok' = TRUE /\ z = "whole"
            \/ pc' = "close" /\ ok' = FALSE
  <2>1. CASE data' = [data EXCEPT !.size = "whole"] /\ pc' = "sync" /\ ok' = TRUE
    <3>1. data' = [val |-> ram, size |-> "whole"]
      BY <1>1, <2>1, TextWithSize
    <3> QED
      BY <2>1, <3>1
  <2>2. CASE /\ data' \in [val : {ram}, size : {"empty", "torn"}]
             /\ pc' = "close" /\ ok' = FALSE
    BY <2>2
  <2>3. CASE data' = [data EXCEPT !.size = "cut"] /\ pc' = "close" /\ ok' = FALSE
    <3>1. data' = [val |-> ram, size |-> "cut"]
      BY <1>1, <2>3, TextWithSize
    <3> QED
      BY <2>3, <3>1
  <2> QED
    BY <2>1, <2>2, <2>3 DEF WriteTmp
<1>3. data' \in Text /\ data' # NoFile /\ data'.val = ram
  <2>1. PICK z \in {"empty", "torn", "cut", "whole"} : data' = [val |-> ram, size |-> z]
    BY <1>2
  <2>2. data'.val = ram
    BY <2>1
  <2>3. data' \in Text /\ data' # NoFile
    BY <1>1, <2>1, TextOf
  <2> QED
    BY <2>2, <2>3
<1>4. pc' = "sync" => data' = Whole(ram)
  BY <1>2 DEF Whole
<1>5. ok' \in BOOLEAN /\ pc' \in {"sync", "close"} /\ (pc' = "close" => ~ ok')
  BY <1>2
<1> QED
  BY <1>1, <1>3, <1>4, <1>5, ZenonT(40) DEF WriteTmp, WInv, TypeOK, WriteProgress

LEMMA SyncTmpKeepsWInv ==
    ASSUME WInv, SyncTmp
    PROVE  WInv' /\ reader' = reader
<1>1. /\ data \in Text /\ data # NoFile /\ data = Whole(ram) /\ task # "recover"
  BY DEF WInv, TypeOK, SyncTmp, WriteProgress
<1>2. tmp' \in Text \cup {NoFile} /\ ok' \in BOOLEAN
  BY <1>1 DEF SyncTmp, WInv, TypeOK
<1>3. Whole(ram)' = Whole(ram)
  BY DEF SyncTmp, Whole
<1> QED
  BY <1>1, <1>2, <1>3 DEF SyncTmp, WInv, TypeOK, WriteProgress

LEMMA CloseTmpKeepsWInv ==
    ASSUME WInv, CloseTmp
    PROVE  WInv' /\ reader'.dirty = reader.dirty
<1>1. /\ data \in Text /\ data # NoFile /\ task # "recover" /\ pc = "close"
      /\ data' = NoFile /\ UNCHANGED <<ram, cfg, card>>
      /\ ok \in BOOLEAN /\ tmp \in Text \cup {NoFile}
      /\ ok => data = Whole(ram)
  BY DEF WInv, TypeOK, CloseTmp, WriteProgress
<1>2. /\ tmp' \in Text \cup {NoFile} /\ ok' \in BOOLEAN
      /\ ok' => tmp' = Whole(ram)
  <2>1. CASE Works /\ tmp' = data /\ ok' = ok
    BY <1>1, <2>1
  <2>2. CASE tmp' \in {tmp, data} /\ ok' = FALSE
    BY <1>1, <2>2
  <2> QED
    BY <2>1, <2>2 DEF CloseTmp
<1>3. Whole(ram)' = Whole(ram)
  BY <1>1 DEF Whole
<1>4. CASE ok'
  BY <1>1, <1>2, <1>3, <1>4 DEF CloseTmp, WInv, TypeOK, WriteProgress
<1>5. CASE ~ ok'
  <2>1. /\ pc' \in {"idle", "standby"} /\ task' = "none" /\ held' \in BOOLEAN
        /\ reader' \in ReaderType /\ reader'.dirty = reader.dirty
    BY <1>5, ReturnsTyped DEF WInv, CloseTmp
  <2> QED
    BY <1>1, <1>2, <2>1 DEF WInv, TypeOK, WriteProgress, ReaderType
<1> QED
  BY <1>4, <1>5

\* The two steps of purrgo_fs_replace, as far as they are about the same things.
LEMMA ReplacedTyped ==
    ASSUME TypeOK, NEW r \in BOOLEAN, Replaced(r)
    PROVE  /\ pc' \in {"load", "idle", "standby"} /\ task' \in {"boot", "none"}
           /\ held' \in BOOLEAN /\ reader' \in ReaderType
           /\ ~ r \/ task = "recover" => reader'.dirty = reader.dirty
<1>1. CASE task = "recover"
  BY <1>1 DEF Replaced, TypeOK, ReaderType
<1>2. CASE task # "recover"
  BY <1>2, ReturnsTyped DEF Replaced
<1> QED
  BY <1>1, <1>2

LEMMA UnlinkKeepsWInv ==
    ASSUME WInv, Unlink
    PROVE  WInv' /\ reader'.dirty = reader.dirty
<1>1. CASE pc' = "rename" /\ cfg' = NoFile /\ UNCHANGED <<task, reader, held>>
  BY <1>1 DEF Unlink, WInv, TypeOK, WriteProgress, Whole
<1>2. CASE Replaced(FALSE) /\ cfg' \in {cfg, NoFile}
  <2>1. /\ pc' \in {"load", "idle", "standby"} /\ task' \in {"boot", "none"}
        /\ held' \in BOOLEAN /\ reader' \in ReaderType /\ reader'.dirty = reader.dirty
    BY <1>2, ReplacedTyped DEF WInv
  <2> QED
    BY <1>2, <2>1 DEF Unlink, WInv, TypeOK, WriteProgress, ReaderType
<1> QED
  BY <1>1, <1>2 DEF Unlink

\* The rename is the only step after which the reader forgets, and then the next boot
\* finds the settings in use.
LEMMA RenameKeepsWInv ==
    ASSUME WInv, Rename
    PROVE  WInv' /\ (reader'.dirty # reader.dirty => Stored' = ram)
<1>1. PICK r \in BOOLEAN :
         /\ Replaced(r)
         /\ \/ cfg' = tmp /\ tmp' = NoFile
            \/ ~ r /\ UNCHANGED <<cfg, tmp>>
  <2>1. TRUE \in BOOLEAN /\ FALSE \in BOOLEAN
    OBVIOUS
  <2> QED
    BY <2>1 DEF Rename
<1>2. /\ pc' \in {"load", "idle", "standby"} /\ task' \in {"boot", "none"}
      /\ held' \in BOOLEAN /\ reader' \in ReaderType
      /\ ~ r \/ task = "recover" => reader'.dirty = reader.dirty
  BY <1>1, ReplacedTyped DEF WInv
<1>3. cfg' \in Text \cup {NoFile} /\ tmp' \in Text \cup {NoFile}
  BY <1>1 DEF WInv, TypeOK
<1>4. WInv'
  BY <1>2, <1>3 DEF Rename, WInv, TypeOK, WriteProgress, ReaderType
<1>5. ASSUME r, task # "recover"
      PROVE  Stored' = ram
  <2>1. cfg' = Whole(ram) /\ cfg' # NoFile
    BY <1>1, <1>5, TextOf DEF Rename, WInv, TypeOK, WriteProgress, Whole
  <2>2. Stored' = Parsed(cfg)'
    BY <2>1 DEF Stored
  <2> QED
    BY <2>1, <2>2 DEF Parsed, Whole
<1> QED
  BY <1>2, <1>4, <1>5

LEMMA BootKeepsWInv ==
    ASSUME WInv, PowerOn \/ PowerGone
    PROVE  WInv' /\ pc' \in {"off", "check"}
<1>1. ram' \in Values /\ reader' \in ReaderType
  BY ConfigAssumption, FreshReader DEF PowerOn, PowerGone, Values
<1>2. ok' \in BOOLEAN /\ held' \in BOOLEAN
  BY DEF PowerOn, PowerGone, WInv, TypeOK
<1> QED
  BY <1>1, <1>2 DEF PowerOn, PowerGone, file, WInv, TypeOK, WriteProgress, ReaderType

LEMMA CheckKeepsWInv ==
    ASSUME WInv, Check
    PROVE  WInv' /\ reader' = reader
<1>1. /\ UNCHANGED <<ok, ram, cfg, tmp, data, card, reader, held>> /\ pc = "check"
      /\ \/ pc' = "unlink" /\ task' = "recover"
         \/ pc' = "load" /\ task' = task
  BY DEF Check, file
<1> QED
  BY <1>1, ZenonT(40) DEF WInv, TypeOK, WriteProgress

LEMMA LoadKeepsWInv ==
    ASSUME WInv, Load
    PROVE  WInv' /\ reader' = reader
<1>1. CASE pc' = "idle"
  <2>1. cfg \in Text /\ ram' \in {Parsed(cfg), Mixed, Default}
    BY <1>1 DEF Load, Saving, WInv, TypeOK
  <2>2. ram' \in Values
    BY <2>1, ParsedIsValue, ConfigAssumption DEF Values
  <2> QED
    BY <1>1, <2>2 DEF Load, Saving, file, WInv, TypeOK, WriteProgress
<1>2. CASE pc' # "idle"
  BY <1>2 DEF Load, Saving, file, WInv, TypeOK, WriteProgress
<1> QED
  BY <1>1, <1>2

LEMMA LoopKeepsWInv ==
    ASSUME WInv, Loop
    PROVE  WInv' /\ (reader.dirty => reader'.dirty)
<1>1. reader \in ReaderType /\ ok \in BOOLEAN /\ UNCHANGED ok
  BY DEF WInv, TypeOK, ReaderType, Loop, Menu, RememberPosition, PowerOff, EnterReader,
     LeaveReader, Tick
<1>2. TRUE \in BOOLEAN /\ FALSE \in BOOLEAN /\ 0 \in 0..SAVE_TIMEOUT
  BY ConfigAssumption
<1>3. reader' \in ReaderType /\ (reader.dirty => reader'.dirty)
  <2> DEFINE dirtied == [reader EXCEPT !.dirty = TRUE, !.age = 0]
             entered == [reader EXCEPT !.active = TRUE]
             left == [reader EXCEPT !.active = FALSE]
  <2>1. /\ dirtied \in ReaderType /\ dirtied.dirty
        /\ entered \in ReaderType /\ entered.dirty = reader.dirty
        /\ left \in ReaderType /\ left.dirty = reader.dirty
    BY <1>1, <1>2, ReaderFields
  <2>2. reader' \in {reader, dirtied, entered, left, Aged}
    BY DEF Loop, Menu, RememberPosition, PowerOff, EnterReader, LeaveReader, Tick
  <2>3. Aged \in ReaderType /\ Aged.dirty = reader.dirty
    BY <1>1, AgedReader
  <2> HIDE DEF dirtied, entered, left
  <2> QED
    BY <1>1, <2>1, <2>2, <2>3
<1>4. /\ pc = "idle" /\ ram' \in Values
      /\ \/ pc' = "idle" /\ task' = task
         \/ pc' = "open" /\ task' \in {"menu", "power off", "flush"}
      /\ UNCHANGED <<cfg, tmp, data, held>>
  BY LoopSteps DEF WInv, TypeOK, Values
<1>5. UNCHANGED card
  BY DEF Loop, Menu, RememberPosition, PowerOff, EnterReader, LeaveReader, Tick
<1>6. data = NoFile /\ task # "recover" /\ pc' # "sync" /\ pc' # "close"
      /\ pc' \notin {"write", "sync", "close", "unlink", "rename"} /\ task' # "recover"
  BY <1>4 DEF WInv, TypeOK, WriteProgress
<1>7. TypeOK'
  BY <1>1, <1>3, <1>4, <1>5, <1>6 DEF WInv, TypeOK, ReaderType
<1>8. WriteProgress'
  BY <1>4, <1>6 DEF WriteProgress
<1> QED
  BY <1>3, <1>7, <1>8 DEF WInv

\* A step that is only the card's, or nobody's.
LEMMA CardStepKeepsWInv ==
    ASSUME WInv, UNCHANGED <<pc, task, ok, ram, cfg, tmp, data, reader, held>>,
           card' \in {"good", "bad", "out"}
    PROVE  WInv'
<1>1. /\ (pc \in {"off", "check", "load", "idle", "standby",
                  "open", "write", "sync", "close", "unlink", "rename"})'
      /\ (task \in {"none", "boot", "recover", "menu", "flush", "power off"})'
  BY DEF WInv, TypeOK
<1>2. (ok \in BOOLEAN /\ held \in BOOLEAN)' /\ (reader \in ReaderType)'
  BY DEF WInv, TypeOK, ReaderType
<1>3. (data # NoFile <=> pc \in {"write", "sync", "close"})'
  BY DEF WInv, TypeOK
<1>4. (ram \in Values /\ cfg \in Text \cup {NoFile} /\ tmp \in Text \cup {NoFile}
       /\ data \in Text \cup {NoFile})'
  BY DEF WInv, TypeOK
<1>5. TypeOK'
  BY <1>1, <1>2, <1>3, <1>4 DEF TypeOK, ReaderType
<1>6. WriteProgress'
  BY DEF WInv, WriteProgress, Whole
<1> QED
  BY <1>5, <1>6 DEF WInv

LEMMA CardChangesKeepsWInv ==
    ASSUME WInv, CardChanges
    PROVE  WInv' /\ reader' = reader
<1>1. card' \in {"good", "bad", "out"}
      /\ UNCHANGED <<pc, task, ok, ram, cfg, tmp, data, reader, held>>
  BY DEF CardChanges, file
<1> QED
  BY <1>1, CardStepKeepsWInv

\* Every step keeps the invariant, and makes the reader forget only when the card has
\* the position or the power goes.
LEMMA StepKeepsWInv ==
    ASSUME WInv, [Next]_vars
    PROVE  /\ WInv'
           /\ reader.dirty /\ ~ reader'.dirty /\ pc' \notin {"off", "check"}
                 => Stored' = ram
<1>1. CASE UNCHANGED vars
  <2>1. UNCHANGED <<pc, task, ok, ram, cfg, tmp, data, card, reader, held>>
    BY <1>1 DEF vars
  <2>2. card' \in {"good", "bad", "out"}
    BY <2>1 DEF WInv, TypeOK
  <2> QED
    BY <2>1, <2>2, CardStepKeepsWInv
<1>2. CASE Rename
  BY <1>2, RenameKeepsWInv DEF WInv, TypeOK
<1>3. CASE PowerOn \/ PowerLoss \/ EnterStandby
  BY <1>3, BootKeepsWInv DEF PowerLoss, EnterStandby
<1>4. CASE OpenTmp \/ WriteTmp \/ SyncTmp \/ CloseTmp \/ Unlink
  BY <1>4, OpenTmpKeepsWInv, WriteTmpKeepsWInv, SyncTmpKeepsWInv, CloseTmpKeepsWInv,
     UnlinkKeepsWInv
<1>5. CASE Check \/ Load \/ Loop \/ CardChanges
  BY <1>5, CheckKeepsWInv, LoadKeepsWInv, LoopKeepsWInv, CardChangesKeepsWInv
<1> QED
  BY <1>1, <1>2, <1>3, <1>4, <1>5 DEF Next, Step, UserActs, Loop

\* Types; the temporary file is open exactly between its open and its close, so that no
\* path of a save, failing in any way and at any call, keeps one of the file layer's slots.
THEOREM ConfigTypes == Spec => []TypeOK
<1>1. WInv /\ [Next]_vars => WInv'
  BY StepKeepsWInv
<1>2. WInv => TypeOK
  BY DEF WInv
<1> QED
  BY <1>1, <1>2, InitWInv, PTL DEF Spec

\* purrgo_book_reader_flush: the reader forgets that a position is unsaved only when the
\* card has it or the power goes, whatever the card does and with every fault.
THEOREM ConfigRemembersUnsaved == Spec => SavedMeansStored
<1>1. WInv /\ [Next]_vars => WInv'
  BY StepKeepsWInv
<1>2. WInv /\ [Next]_vars
         => [reader.dirty /\ ~ reader'.dirty /\ pc' \notin {"off", "check"}
                => Stored' = ram]_vars
  BY StepKeepsWInv
<1> QED
  BY <1>1, <1>2, InitWInv, PTL DEF SavedMeansStored, Spec
=============================================================================
