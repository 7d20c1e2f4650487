---------------------------- MODULE MCInvalidation ----------------------------
(***************************************************************************)
(* Invalidation with two UMMUs and queues of one or two calls.             *)
(***************************************************************************)
EXTENDS Invalidation

mcKcmd == {TRUE, FALSE}
mcUser == {FALSE}
===============================================================================
