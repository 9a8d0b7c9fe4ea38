---------------------------- MODULE MCShadowStack ----------------------------
(***************************************************************************)
(* ShadowStack with a function that needs no frame, one of 16 and one of   *)
(* 32 bytes (the unit is 16 bytes: every frame size is a multiple of it).  *)
(* MaxDepth activations of the largest frame fit in StackSize, so only     *)
(* what trapped calls leave behind can exhaust the stack.                  *)
(***************************************************************************)
EXTENDS ShadowStack

MCFrame == [leaf |-> 0, small |-> 1, big |-> 2]
=============================================================================
