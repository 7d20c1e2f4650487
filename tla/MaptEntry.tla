------------------------------ MODULE MaptEntry ------------------------------
(***************************************************************************)
(* A tid in entry mode (ummu_mapt.c, ummu_seg_mng.c): its single           *)
(* permission entry, a buffer shared with the device that is both the      *)
(* record of what is granted and what the device checks.  There is no      *)
(* segment table, so every decision is read back from the entry.           *)
(*                                                                         *)
(* Each call holds the tid's mapt_mutex and is one step; the device reads  *)
(* the entry between calls and may keep what it read in its PLB until an   *)
(* invalidation covers it.  Requests, argument checks and the meaning of   *)
(* the operations are those of SegMng with no alignment (Page = 1).        *)
(***************************************************************************)
EXTENDS Naturals

CONSTANTS
    MaxAddr, Base, Size, Attr, BadAttr, Token, ZeroToken, NoToken, GrantToken, \* see SegMng
    Align       \* GET_LEVEL_RANGE_MASK(MAX_LEVEL_INDEX - 1) + 1

ASSUME EntryAddrAssumption  == MaxAddr \in Nat /\ Align \in Nat \ {0}
ASSUME EntryInputAssumption == /\ Base \subseteq Nat /\ Size \subseteq Nat
                               /\ GrantToken \subseteq Token \cup {NoToken}
ASSUME EntryAttrAssumption  == BadAttr \notin Attr
ASSUME EntryTokenAssumption == ZeroToken \in Token /\ NoToken \notin Token

VARIABLES
    node,   \* block_base.entry_block
    live,   \* the tid is in mapt_map
    plb     \* what the device may have cached of the entry

vars == <<node, live, plb>>

\* What an entry grants, as a segment record of SegMng; the token fields mean
\* nothing while token_check is 0.
SegOf(n) ==
    [left |-> n.base, right |-> n.limit, attr |-> n.attr,
     token_check |-> n.token_check, token_count |-> n.nonce,
     tok0 |-> IF n.token_check = 1 THEN n.tok0 ELSE ZeroToken,
     tok1 |-> IF n.token_check = 1 THEN n.tok1 ELSE ZeroToken]

Segments == IF live /\ node.valid = 1 THEN {SegOf(node)} ELSE {}

Seg == INSTANCE SegMng WITH Page <- 1, segs <- Segments

\* struct ummu_mapt_entry_node.
EntryNode == [valid : {0, 1}, base : 0 .. MaxAddr, limit : 0 .. MaxAddr,
              attr : Attr \cup {BadAttr}, token_check : {0, 1},
              nonce : 0 .. Seg!UMMU_MAX_TOKEN_NUM, tok0 : Token, tok1 : Token]
ZeroEntry == [valid |-> 0, base |-> 0, limit |-> 0, attr |-> BadAttr,
              token_check |-> 0, nonce |-> 0, tok0 |-> ZeroToken, tok1 |-> ZeroToken]

-----------------------------------------------------------------------------
(* The decision.                                                           *)

EntryCheckIgnoresLimit(n, d) ==
    CASE n.valid = 0 -> Seg!UMMU_GRANT
      [] /\ n.valid # 0 /\ n.base = d.base
         /\ n.token_check = 1 /\ d.token_check = 1
         /\ n.attr = d.attr /\ n.nonce = 1 -> Seg!UMMU_ADD_TOKEN
      [] OTHER -> Seg!UMMU_OP_END
EntryCheckOverwrites(n, d) ==
    CASE n.valid = 0 \/ n.base # d.base -> Seg!UMMU_GRANT
      [] /\ n.valid # 0
         /\ n.base = d.base /\ n.limit = d.base + (d.size - 1)
         /\ n.token_check = 1 /\ d.token_check = 1
         /\ n.attr = d.attr /\ n.nonce = 1 -> Seg!UMMU_ADD_TOKEN
      [] OTHER -> Seg!UMMU_OP_END
ummu_entry_param_check(n, d) ==
    CASE n.valid = 0 -> Seg!UMMU_GRANT
      [] /\ n.valid # 0
         /\ n.base = d.base /\ n.limit = d.base + (d.size - 1)
         /\ n.token_check = 1 /\ d.token_check = 1
         /\ n.attr = d.attr /\ n.nonce = 1 -> Seg!UMMU_ADD_TOKEN
      [] OTHER -> Seg!UMMU_OP_END

EntryMatch(n, u) ==
    n.valid = 1 /\ n.base = u.base /\ n.limit = u.base + (u.size - 1)
TokenMatch(n, u) ==
    n.token_check = 1 /\ u.tokenval \in {n.tok0, n.tok1}

ummu_entry_ungrant_param_check(n, u) ==
    CASE EntryMatch(n, u) /\ u.bytoken = 0 -> Seg!UMMU_UNGRANT
      [] EntryMatch(n, u) /\ u.bytoken # 0 /\ TokenMatch(n, u) /\ n.nonce = 1 ->
             Seg!UMMU_UNGRANT
      [] /\ EntryMatch(n, u) /\ u.bytoken # 0 /\ TokenMatch(n, u)
         /\ n.nonce = Seg!UMMU_MAX_TOKEN_NUM -> Seg!UMMU_REMOVE_TOKEN
      [] OTHER -> Seg!UMMU_OP_END

-----------------------------------------------------------------------------
(* The operations on the entry.  nonce is not written by a grant without a *)
(* token: it relies on the zeroed entry an ungrant leaves.                 *)

FillNonceOnly(n, d) ==
    [valid |-> 1, base |-> d.base, limit |-> d.base + (d.size - 1), attr |-> d.attr,
     token_check |-> d.token_check, nonce |-> IF d.token_check = 1 THEN 1 ELSE n.nonce,
     tok0 |-> IF d.token_check = 1 THEN d.tokenval ELSE n.tok0, tok1 |-> n.tok1]
ummu_entry_fill_node(n, d) ==
    [valid |-> 1, base |-> d.base, limit |-> d.base + (d.size - 1), attr |-> d.attr,
     token_check |-> d.token_check, nonce |-> IF d.token_check = 1 THEN 1 ELSE n.nonce,
     tok0 |-> IF d.token_check = 1 THEN d.tokenval ELSE n.tok0,
     tok1 |-> IF d.token_check = 1 THEN d.tokenval ELSE n.tok1]

ummu_add_token(n, d) ==
    IF n.valid = 1 /\ n.nonce = 1
    THEN [ret |-> "ok", node |-> [n EXCEPT !.tok1 = d.tokenval,
                                           !.nonce = Seg!UMMU_MAX_TOKEN_NUM]]
    ELSE [ret |-> "error", node |-> n]

ummu_remove_token(n, d) ==
    CASE n.tok0 = d.tokenval ->
           [ret |-> "ok", node |-> [n EXCEPT !.tok0 = n.tok1, !.nonce = 1]]
      [] n.tok0 # d.tokenval /\ n.tok1 = d.tokenval ->
           [ret |-> "ok", node |-> [n EXCEPT !.tok1 = n.tok0, !.nonce = 1]]
      [] OTHER -> [ret |-> "error", node |-> n]

ummu_entry_op(n, d, op) ==
    CASE op = Seg!UMMU_GRANT -> [ret |-> "ok", node |-> ummu_entry_fill_node(n, d)]
      [] op = Seg!UMMU_ADD_TOKEN -> ummu_add_token(n, d)
      [] op = Seg!UMMU_REMOVE_TOKEN -> ummu_remove_token(n, d)
      [] op = Seg!UMMU_UNGRANT -> [ret |-> "ok", node |-> ZeroEntry]

-----------------------------------------------------------------------------
(* The device.                                                             *)

\* What the PLB keeps of a valid entry.
Cached(n) == [base |-> n.base, limit |-> n.limit, attr |-> n.attr,
              token_check |-> n.token_check,
              tokens |-> IF n.token_check = 1 THEN {n.tok0, n.tok1} ELSE {}]

\* The PLB after an invalidation of the addresses from base to base + size - 1
\* (the command's power of two only makes the range larger).
ummu_plbi_va_cmd(base, size) ==
    {e \in plb : e.limit < base \/ base + (size - 1) < e.base}

\* The range of an ungrant is rounded out to Align.
PlbiNotRounded(u) == ummu_plbi_va_cmd(u.base - (u.base % Align), u.size)
UngrantPlbi(u) ==
    LET size == u.size + (u.base % Align)
    IN  ummu_plbi_va_cmd(u.base - (u.base % Align),
                         ((size + (Align - 1)) \div Align) * Align)

device_lookup ==
    /\ live /\ node.valid = 1
    /\ plb' = plb \cup {Cached(node)}
    /\ UNCHANGED <<node, live>>

-----------------------------------------------------------------------------
(* The calls.                                                              *)

\* Only valid and nonce are written; the rest of the buffer is as it came.
ummu_mapt_entry_init == {n \in EntryNode : n.valid = 0 /\ n.nonce = 0}

Init == node \in ummu_mapt_entry_init /\ live = TRUE /\ plb = {}

ummu_allocate_tid ==
    /\ ~live
    /\ node' \in ummu_mapt_entry_init
    /\ live' = TRUE
    /\ UNCHANGED plb

ummu_grant(r) ==
    LET d  == Seg!ummu_perm_data_preproc(r)
        op == ummu_entry_param_check(node, d)
        x  == ummu_entry_op(node, d, op)
    IN  /\ live /\ Seg!ummu_check_data(r)
        /\ op # Seg!UMMU_OP_END
        /\ node' = x.node
        /\ plb' = IF op = Seg!UMMU_ADD_TOKEN \/ x.ret # "ok"
                  THEN ummu_plbi_va_cmd(r.base, r.size) ELSE plb
        /\ UNCHANGED live

ummu_ungrant(u) ==
    LET op == ummu_entry_ungrant_param_check(node, u)
    IN  /\ live /\ Seg!ummu_ungrant_data_check(u)
        /\ op # Seg!UMMU_OP_END
        /\ node' = ummu_entry_op(node, u, op).node
        /\ plb' = IF op = Seg!UMMU_UNGRANT THEN UngrantPlbi(u)
                  ELSE ummu_plbi_va_cmd(u.base, u.size)
        /\ UNCHANGED live

\* The entry is unmapped as it is; destroying the queue invalidates the PLB.
ummu_free_tid == live /\ live' = FALSE /\ plb' = {} /\ UNCHANGED node

Next == \/ \E r \in Seg!GrantReq : ummu_grant(r)
        \/ \E u \in Seg!UngrantReq : ummu_ungrant(u)
        \/ ummu_free_tid
        \/ ummu_allocate_tid
        \/ device_lookup

Spec == Init /\ [][Next]_vars

-----------------------------------------------------------------------------
(* What must hold.                                                         *)

\* The entry is an entry node and, once granted, a non-empty range with a
\* valid permission.
TypeOK ==
    /\ node \in EntryNode /\ live \in BOOLEAN
    /\ node.valid = 1 => node.base <= node.limit /\ node.attr \in Attr

\* The nonce agrees with the token slots although a grant without a token
\* never writes it: it counts the tokens the slots hold, is 0 for an entry
\* granted without a token and for an unused one, and one token fills both.
NonceCountsTokens ==
    /\ node.valid = 0 \/ node.token_check = 0 => node.nonce = 0
    /\ node.valid = 1 /\ node.token_check = 1 => node.nonce \in {1, 2}
    /\ node.valid = 1 /\ node.nonce = 1 => node.tok0 = node.tok1

\* The device never acts on a cached entry that differs from the one in
\* memory: each call that changes the tokens or takes the entry away
\* invalidates a range that covers what may be cached.
PlbCoherent ==
    plb \subseteq IF live /\ node.valid = 1 THEN {Cached(node)} ELSE {}

\* Reading only the entry, the two checks decide each request as the segment
\* table would: every ungrant alike, and a grant alike too, except that a
\* second segment, which the entry has no room for, is refused.
DecidesAsSegMng ==
    live =>
    /\ \A r \in Seg!GrantReq :
         LET d    == Seg!ummu_perm_data_preproc(r)
             mine == ummu_entry_param_check(node, d)
             seg  == Seg!ummu_grant_check(Segments, d)
         IN  Seg!ummu_check_data(r) =>
                 \/ mine = seg
                 \/ node.valid = 1 /\ seg = Seg!UMMU_GRANT /\ mine = Seg!UMMU_OP_END
    /\ \A u \in Seg!UngrantReq :
         Seg!ummu_ungrant_data_check(u) =>
             ummu_entry_ungrant_param_check(node, u) = Seg!ummu_ungrant_check(Segments, u)

\* Entry mode keeps the promises of the segment manager for a single segment:
\* with no record but the entry itself, every call does what SegMng does.
Refines == Seg!Spec
==============================================================================
