----------------------------- MODULE MCUmmuQueue -----------------------------
(***************************************************************************)
(* UmmuQueue with rings of a few entries, so that they wrap, fill up and   *)
(* keep completions of calls that gave up.                                 *)
(***************************************************************************)
EXTENDS UmmuQueue
==============================================================================
