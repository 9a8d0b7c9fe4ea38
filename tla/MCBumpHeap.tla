----------------------------- MODULE MCBumpHeap -----------------------------
(***************************************************************************)
(* BumpHeap at a small scale: 16 addresses, every 4-bit argument of malloc *)
(* and at most MaxLive blocks that the program has yet to free.  Each      *)
(* property of blocks is about two at a time.                              *)
(***************************************************************************)
EXTENDS BumpHeap, FiniteSets

CONSTANT MaxLive

FewLive == Cardinality(live) <= MaxLive
=============================================================================
