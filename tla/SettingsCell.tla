---------------------------- MODULE SettingsCell ----------------------------
(***************************************************************************)
(* What the configuration file promises: one cell that a save replaces at  *)
(* one instant and that a boot reads back, whenever the power goes.        *)
(*                                                                         *)
(* The promise has a limit.  A device that was started without reading the *)
(* card (it was out, or has no settings yet) holds the defaults, and its   *)
(* first save may fail in a way that leaves the card without settings.     *)
(* held says that this is over: the settings of this boot were read from   *)
(* the card or saved to it.                                                *)
(***************************************************************************)
CONSTANTS Settings, Default

VARIABLES up,      (* the device runs, its settings are loaded             *)
          reach,   (* the card can be reached                              *)
          held,    (* the settings in use were on the card since the start *)
          ram,     (* the settings in use, Default while it is not up      *)
          stored   (* what a boot that reaches the card would find         *)

cell == <<up, reach, held, ram, stored>>

Init ==
    /\ up = FALSE /\ held = FALSE /\ ram = Default
    /\ reach \in BOOLEAN
    /\ stored \in Settings

\* A boot takes what is stored.  The defaults are for a card that is out of reach
\* or that has nothing better.
Boot ==
    /\ ~ up /\ up' = TRUE
    /\ \/ ram' = stored /\ held' = TRUE
       \/ (~ reach \/ stored = Default) /\ ram' = Default /\ held' = FALSE
    /\ UNCHANGED <<reach, stored>>

PowerLoss ==
    /\ up /\ up' = FALSE /\ held' = FALSE /\ ram' = Default
    /\ UNCHANGED <<reach, stored>>

Change ==
    /\ up /\ ram' \in Settings
    /\ UNCHANGED <<up, reach, held, stored>>

\* The instant of a save; the device may learn later that it has worked.
Save ==
    /\ up /\ stored' = ram
    /\ UNCHANGED <<up, reach, held, ram>>

Confirm ==
    /\ up /\ stored = ram /\ held' = TRUE
    /\ UNCHANGED <<up, reach, ram, stored>>

Lose ==
    /\ up /\ ~ held /\ stored' = Default
    /\ UNCHANGED <<up, reach, held, ram>>

Card ==
    /\ reach' = ~ reach
    /\ UNCHANGED <<up, held, ram, stored>>

Next == Boot \/ PowerLoss \/ Change \/ Save \/ Confirm \/ Lose \/ Card

Spec == Init /\ [][Next]_cell
=============================================================================
