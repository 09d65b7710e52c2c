------------------------------ MODULE MCMainLoop ------------------------------
(***************************************************************************)
(* Instances of MainLoop for TLC.                                          *)
(***************************************************************************)
EXTENDS MainLoop, TLC

(* Two values under one key and one under another. *)
ThreePairs == {<<1, 1>>, <<1, 2>>, <<2, 1>>}

(* One pair per key. *)
TwoPairs == {<<1, 1>>, <<2, 1>>}

(* The loop issues find_all_async only. *)
NoRanges == {}

FrameSymmetry == Permutations(Frames)
===============================================================================
