----------------------------- MODULE MCMaptTable -----------------------------
(***************************************************************************)
(* Small tables for MaptTable.  Layout: three levels of two nodes over     *)
(* eight pages, with segments that start and end on either side of every   *)
(* node boundary and take and give back level blocks of both mapt blocks.  *)
(* Token: three nodes per level, so that a segment has head, middle and    *)
(* tail nodes, pages of two addresses and segments that end in the middle  *)
(* of a page.                                                              *)
(***************************************************************************)
EXTENDS MaptTable

mcAny == {TRUE, FALSE}
mcYes == {TRUE}

layoutBase == {0, 1, 3, 6}
layoutSize == {1, 2, 3, 4}

leakBase == {0, 1, 2, 3, 4, 6}
leakSize == {1, 2, 4}

tokenBase == {0, 16, 30}
tokenSize == {2, 13}
==============================================================================
