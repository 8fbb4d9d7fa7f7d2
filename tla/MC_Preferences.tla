---------------------------- MODULE MC_Preferences --------------------------
(***************************************************************************)
(* Preferences for TLC: two settings at a time in the layouts that matter, *)
(* with ints of three bits.  1 suits every widget; 5 is negative as an int *)
(* and beyond every range, so a spin box shows 0 and the combo box nothing.*)
(***************************************************************************)
EXTENDS Preferences

MCLayouts == {[a |-> "spin", b |-> "exact"], [a |-> "unsent", b |-> "fixed"],
              [a |-> "combo", b |-> "fixed"]}

=============================================================================
