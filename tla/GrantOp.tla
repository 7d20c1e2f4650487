------------------------------- MODULE GrantOp -------------------------------
(***************************************************************************)
(* The operations a request can become and the number of token slots       *)
(* (ummu_mapt.h), shared by the segment manager and the table.             *)
(***************************************************************************)

UMMU_MAX_TOKEN_NUM == 2

\* enum ummu_grant_op_type
UMMU_GRANT        == "grant"
UMMU_ADD_TOKEN    == "add_token"
UMMU_REMOVE_TOKEN == "remove_token"
UMMU_UNGRANT      == "ungrant"
UMMU_OP_END       == "op_end"
==============================================================================
