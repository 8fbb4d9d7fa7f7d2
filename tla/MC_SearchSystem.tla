--------------------------- MODULE MC_SearchSystem --------------------------
(***************************************************************************)
(* SearchSystem for TLC.  States are told apart by what steps and          *)
(* properties read: not by the signals of the last step and the status,    *)
(* which are only written, nor by histories about sources and progress.    *)
(***************************************************************************)
EXTENDS SearchSystem

Seen == <<control, pc, client, timer, searching, at100, graceOver, wanted, strayed,
          round, socket, daemon, shown, swallowed, panel, toUi>>

=============================================================================
