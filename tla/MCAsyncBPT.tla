------------------------------ MODULE MCAsyncBPT ------------------------------
(***************************************************************************)
(* Instances of AsyncBPT for TLC.                                          *)
(***************************************************************************)
EXTENDS AsyncBPT, TLC

(* Two values under one key and one under another: a lookup reads two      *)
(* leaves, and the order of the loop crosses a key boundary.               *)
ThreePairs == {<<1, 1>>, <<1, 2>>, <<2, 1>>}

(* One pair per key. *)
TwoPairs == {<<1, 1>>, <<2, 1>>}

(* A range lookup that covers neither key completely. *)
CrossRange == { << <<1, 2>>, <<2, 2>> >> }
NoRanges == {}

FrameSymmetry == Permutations(Frames)
===============================================================================
