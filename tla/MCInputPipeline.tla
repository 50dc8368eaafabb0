--------------------------- MODULE MCInputPipeline ---------------------------
(***************************************************************************)
(* InputPipeline for TLC: walks on which the window, the budget and a file *)
(* as large as the budget hold back the walker.                            *)
(***************************************************************************)
EXTENDS InputPipeline

Small == [size |-> 1, allowed |-> FALSE]
Empty == [size |-> 0, allowed |-> FALSE]
Medium == [size |-> 3, allowed |-> TRUE]
Huge == [size |-> 6, allowed |-> TRUE]
TooLarge == [size |-> 6, allowed |-> FALSE]

MCWalks ==
  {<<Small, Small, Small, Small, Small>>,
   <<Small, Medium, Medium, TooLarge, Small>>,
   <<Huge, Empty, TooLarge, Huge, Small>>}
=============================================================================
