------------------------------- MODULE SegMng --------------------------------
(***************************************************************************)
(* The segment manager of one tid in table mode (ummu_seg_mng.c) and the   *)
(* part of ummu_grant() and ummu_ungrant_data() (ummu_mapt.c) that decides *)
(* an operation from it and records the result.  Every call runs under the *)
(* tid's mapt_mutex, so each is one step.  A call that fails (a bad        *)
(* argument, a refused check, a table operation or an allocation that      *)
(* fails) leaves the segments alone and is a stuttering step here;         *)
(* MaptTable models those failures in detail and implements this module.   *)
(*                                                                         *)
(* A permission and an e_bit are always tested and stored together: the    *)
(* pair is one attribute.  Addresses do not wrap in the model.  In the     *)
(* code only an ungrant can pass a base + size that wraps, and a wrapped   *)
(* right end is below the left end, which no stored segment has.           *)
(***************************************************************************)
EXTENDS SegTree, GrantOp

CONSTANTS
    MaxAddr,    \* 2^MAX_ADDRESS_BITS - 1, the last address
    Page,       \* 1 << VPAGE_SHIFT: table-mode bases are multiples of it
    Base, Size, \* the base addresses and sizes callers pass
    Attr,       \* the valid (permission, e_bit) pairs
    BadAttr,    \* stands for an invalid permission or e_bit
    Token,      \* token values
    ZeroToken,  \* the value 0 of a zeroed token slot
    NoToken,    \* seg_attr->token == NULL
    GrantToken  \* the tokens callers grant with

ASSUME AddrAssumption  == MaxAddr \in Nat /\ Page \in Nat \ {0}
ASSUME InputAssumption == /\ Base \subseteq Nat /\ Size \subseteq Nat
                          /\ GrantToken \subseteq Token \cup {NoToken}
ASSUME AttrAssumption  == BadAttr \notin Attr
ASSUME TokenAssumption == ZeroToken \in Token /\ NoToken \notin Token

VARIABLE segs   \* table_ctx->granted_addr_mng: the set of segment records

\* struct ummu_seg_info and the Range it is keyed by.
SegInfo == [left : Nat, right : Nat, attr : Attr, token_check : {0, 1},
            token_count : 0..UMMU_MAX_TOKEN_NUM, tok0 : Token, tok1 : Token]

\* The token of a request is the one ummu_get_token stores: the caller's value
\* or, when the caller asks for one, a random value, here any value.
GrantReq   == [base : Base, size : Size, attr : Attr \cup {BadAttr},
               token : GrantToken]
UngrantReq == [base : Base, size : Size, bytoken : {0, 1}, tokenval : Token]

-----------------------------------------------------------------------------
(* Argument checks.                                                        *)

CheckDataIgnoresAlignment(r) ==
    r.size # 0 /\ r.base + r.size - 1 <= MaxAddr /\ r.attr \in Attr
ummu_check_data(r) ==
    /\ r.size # 0
    /\ r.base <= MaxAddr /\ r.size - 1 <= MaxAddr /\ r.base + r.size - 1 <= MaxAddr
    /\ r.base % Page = 0
    /\ r.attr \in Attr

\* struct ummu_data_info of a grant.  A NULL token leaves tokenval unset; it
\* is read only when token_check = 1.
ummu_perm_data_preproc(r) ==
    [base |-> r.base, size |-> r.size, attr |-> r.attr,
     token_check |-> IF r.token = NoToken THEN 0 ELSE 1,
     tokenval |-> IF r.token = NoToken THEN ZeroToken ELSE r.token]

ummu_ungrant_data_check(u) == u.size # 0 /\ u.base % Page = 0

-----------------------------------------------------------------------------
(* The decision: which operation a request is.                             *)

ummu_table_param_check(seg, d) ==
    IF /\ seg.token_check = 1 /\ d.token_check = 1
       /\ seg.attr = d.attr /\ seg.token_count = 1
    THEN UMMU_ADD_TOKEN ELSE UMMU_OP_END

ummu_grant_check(table, d) ==
    LET find == ummu_find_seg(d.base, d.size - 1, table)
    IN  CASE find.comp = RANGE_MATCH ->
                 ummu_table_param_check(CHOOSE e \in find.data : TRUE, d)
          [] find.comp = RANGE_NOT_EXIST -> UMMU_GRANT
          [] OTHER -> UMMU_OP_END

ummu_ungrant_param_check(seg, u) ==
    CASE u.bytoken = 0 -> UMMU_UNGRANT
      [] /\ u.bytoken # 0 /\ seg.token_check # 0
         /\ u.tokenval \in {seg.tok0, seg.tok1} /\ seg.token_count = 1 ->
             UMMU_UNGRANT
      [] /\ u.bytoken # 0 /\ seg.token_check # 0
         /\ u.tokenval \in {seg.tok0, seg.tok1}
         /\ seg.token_count = UMMU_MAX_TOKEN_NUM -> UMMU_REMOVE_TOKEN
      [] OTHER -> UMMU_OP_END

ummu_ungrant_check(table, u) ==
    LET find == ummu_find_seg(u.base, u.size - 1, table)
    IN  IF find.comp = RANGE_MATCH
        THEN ummu_ungrant_param_check(CHOOSE e \in find.data : TRUE, u)
        ELSE UMMU_OP_END

-----------------------------------------------------------------------------
(* The record of the result: ummu_update_info.                             *)

ummu_insert_new_addr(table, d) ==
    LET tok == IF d.token_check = 1 THEN d.tokenval ELSE ZeroToken
    IN  ummu_insert_seg([left |-> d.base, right |-> d.base + (d.size - 1),
                         attr |-> d.attr, token_check |-> d.token_check,
                         token_count |-> d.token_check,
                         tok0 |-> tok, tok1 |-> tok], table)

DeleteAddrOffByOne(table, d) == ummu_delete_seg(d.base, d.size, table)
ummu_delete_addr(table, d) == ummu_delete_seg(d.base, d.size - 1, table)

RemoveKeepsSlot(tokenval, seg) == [seg EXCEPT !.token_count = 1]
ummu_remove_tokenval(tokenval, seg) ==
    [seg EXCEPT !.tok0 = IF seg.tok0 = tokenval THEN seg.tok1 ELSE @,
                !.tok1 = IF seg.tok0 # tokenval /\ seg.tok1 = tokenval
                         THEN seg.tok0 ELSE @,
                !.token_count = 1]

AddTokenval(tokenval, seg) ==
    [seg EXCEPT !.tok1 = tokenval, !.token_count = UMMU_MAX_TOKEN_NUM]

ummu_token_update(table, d, op) ==
    LET find == ummu_find_seg(d.base, d.size - 1, table).data
        Upd(seg) == IF op = UMMU_REMOVE_TOKEN
                    THEN ummu_remove_tokenval(d.tokenval, seg)
                    ELSE AddTokenval(d.tokenval, seg)
    IN  IF find = {} THEN [ret |-> "einval", table |-> table]
        ELSE [ret |-> "ok",
              table |-> (table \ find) \cup {Upd(seg) : seg \in find}]

ummu_update_info(op, table, d) ==
    CASE op = UMMU_GRANT -> ummu_insert_new_addr(table, d)
      [] op \in {UMMU_ADD_TOKEN, UMMU_REMOVE_TOKEN} -> ummu_token_update(table, d, op)
      [] op = UMMU_UNGRANT -> ummu_delete_addr(table, d)

-----------------------------------------------------------------------------
Init == segs = {}

ummu_grant(r) ==
    LET d == ummu_perm_data_preproc(r)
        op == ummu_grant_check(segs, d)
    IN  /\ ummu_check_data(r)
        /\ op # UMMU_OP_END
        /\ segs' = ummu_update_info(op, segs, d).table

ummu_ungrant(u) ==
    LET op == ummu_ungrant_check(segs, u)
    IN  /\ ummu_ungrant_data_check(u)
        /\ op # UMMU_OP_END
        /\ segs' = ummu_update_info(op, segs, u).table

\* ummu_destroy_seg_mng; a tid allocated later starts with no segment again.
ummu_free_tid == segs' = {}

Next == \/ \E r \in GrantReq : ummu_grant(r)
        \/ \E u \in UngrantReq : ummu_ungrant(u)
        \/ ummu_free_tid

Spec == Init /\ [][Next]_segs

-----------------------------------------------------------------------------
(* What must hold.                                                         *)

\* Every recorded segment is a segment record that starts on a page, is not
\* empty and lies in the address space.
TypeOK ==
    /\ segs \subseteq SegInfo
    /\ \A s \in segs : /\ s.left <= s.right /\ s.right <= MaxAddr
                       /\ s.left % Page = 0

\* Two recorded segments never share an address, whatever sequence of grants
\* and ungrants the check of ummu_grant_check and the ordering ModCmp let
\* through (restriction 3 of Design.md: no overlapping segments).
NoOverlap ==
    \A s, t \in segs : s # t => s.right < t.left \/ t.right < s.left

\* Two recorded segments never share a page, even when a segment ends in the
\* middle of one: the last level of the table has one node per page, and
\* ummu_table_fill_node_by_level has no level below it to split that node.
NoSharedPage ==
    \A s, t \in segs : s # t =>
        \A k \in 0..(MaxAddr \div Page) :
            ~ /\ s.left < (k + 1) * Page /\ k * Page <= s.right
              /\ t.left < (k + 1) * Page /\ k * Page <= t.right

\* The two token slots agree with the count the next check reads: no token is
\* counted on a segment granted without one, and a segment with one token
\* holds it in both slots, so that no removed or never granted value is left
\* where ummu_ungrant_param_check and the device compare both slots.
TokenSlots ==
    \A s \in segs :
        /\ s.token_check = 0 => s.token_count = 0
        /\ s.token_check = 1 => s.token_count \in {1, UMMU_MAX_TOKEN_NUM}
        /\ s.token_count < UMMU_MAX_TOKEN_NUM => s.tok0 = s.tok1

\* What the check decided, the update made after the table was changed can
\* always do: a GRANT is never refused by ummu_insert_seg, and an UNGRANT
\* finds, with its wider key, exactly the segment that was matched.
UpdateFollowsCheck ==
    /\ \A r \in GrantReq :
         LET d == ummu_perm_data_preproc(r)
             op == ummu_grant_check(segs, d)
         IN  ummu_check_data(r) /\ op # UMMU_OP_END =>
                 ummu_update_info(op, segs, d).ret = "ok"
    /\ \A u \in UngrantReq :
         LET op == ummu_ungrant_check(segs, u)
             upd == ummu_update_info(op, segs, u)
         IN  ummu_ungrant_data_check(u) /\ op # UMMU_OP_END =>
                 /\ upd.ret = "ok"
                 /\ op = UMMU_UNGRANT =>
                      upd.table = {s \in segs : ~(/\ s.left = u.base
                                                  /\ s.right = u.base + (u.size - 1))}

\* The segments of a table that do not lie inside [base, base + size - 1].
Outside(table, base, size) ==
    {s \in table : s.left < base \/ s.right > base + (size - 1)}

\* A grant or an ungrant changes nothing outside the range it was given: an
\* ungrant never takes away a larger or a neighbouring segment, and a second
\* grant never re-labels one (restriction 2 of Design.md: whole segments).
StaysInRange ==
    [][/\ \A r \in GrantReq :
            Outside(segs, r.base, r.size)' # Outside(segs, r.base, r.size)
            => ~ummu_grant(r)
       /\ \A u \in UngrantReq :
            Outside(segs, u.base, u.size)' # Outside(segs, u.base, u.size)
            => ~ummu_ungrant(u)]_segs

\* Ungranting by a token that is one of two different ones removes that token
\* from both slots and keeps the other one authorised.
TokenRevoked ==
    [][\A u \in UngrantReq : \A s \in segs :
         /\ u.bytoken = 1 /\ s.token_check = 1 /\ s.tok0 # s.tok1
         /\ s.left = u.base /\ s.right = u.base + (u.size - 1)
         /\ ummu_ungrant(u)
         => \E t \in segs' : /\ t.left = s.left /\ t.right = s.right
                             /\ t.attr = s.attr /\ t.token_check = 1
                             /\ {t.tok0, t.tok1} = {s.tok0, s.tok1} \ {u.tokenval}]_segs
==============================================================================
