------------------------------ MODULE MCUmmuApi ------------------------------
(***************************************************************************)
(* UmmuApi with two or three threads, two tids and objects that malloc     *)
(* hands out again.                                                        *)
(***************************************************************************)
EXTENDS UmmuApi, TLC

mcSymmetry == Permutations(Threads) \cup Permutations(Objs)
==============================================================================
