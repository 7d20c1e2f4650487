------------------------------ MODULE MCSegMng -------------------------------
(***************************************************************************)
(* SegMng on a small address space: three pages of two addresses, bases    *)
(* aligned and unaligned, sizes from 0 to a page and a half (base 4        *)
(* and size 3 exceed the space).  Attributes are only compared: symmetric. *)
(***************************************************************************)
EXTENDS SegMng, TLC

mcBase == {0, 1, 2, 4}
mcSize == 0..3
mcSym == Permutations(Attr)
==============================================================================
