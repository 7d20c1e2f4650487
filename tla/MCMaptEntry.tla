----------------------------- MODULE MCMaptEntry -----------------------------
(***************************************************************************)
(* MaptEntry on four addresses with invalidations rounded to two of them:  *)
(* ranges inside, across and filling a rounded range, aligned to it or     *)
(* not.  Base 1 with size 4 exceeds the address space.                     *)
(***************************************************************************)
EXTENDS MaptEntry

mcBase == {0, 1}
mcSize == {0, 1, 3, 4}
==============================================================================
