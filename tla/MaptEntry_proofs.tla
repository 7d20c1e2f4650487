-------------------------- MODULE MaptEntry_proofs ---------------------------
(***************************************************************************)
(* Proofs about MaptEntry: its inductive invariant, and that entry mode    *)
(* implements the segment manager for a single segment.                    *)
(***************************************************************************)
EXTENDS MaptEntry, Integers, TLAPS

EInv == TypeOK /\ NonceCountsTokens /\ PlbCoherent

-----------------------------------------------------------------------------
(* Requests and invalidation ranges.                                       *)

\* A grant that passed ummu_check_data has a range inside the address space,
\* a valid attribute and a token value.
LEMMA CheckedGrant ==
    ASSUME NEW r \in Seg!GrantReq, Seg!ummu_check_data(r)
    PROVE  LET d == Seg!ummu_perm_data_preproc(r)
           IN  /\ d.base = r.base /\ d.size = r.size
               /\ d.base \in Nat /\ d.size \in Nat /\ d.size - 1 \in Nat
               /\ d.base \in 0 .. MaxAddr /\ d.base + (d.size - 1) \in 0 .. MaxAddr
               /\ d.base <= d.base + (d.size - 1)
               /\ d.attr \in Attr /\ d.token_check \in {0, 1} /\ d.tokenval \in Token
<1>1. /\ r.base \in Nat /\ r.size \in Nat
      /\ r.token \in Token \cup {NoToken}
  BY EntryInputAssumption DEF Seg!GrantReq
<1> QED
  BY <1>1, EntryAddrAssumption, EntryTokenAssumption
  DEF Seg!ummu_check_data, Seg!ummu_perm_data_preproc

\* An ungrant that passed its check has a non-empty range and a token value.
LEMMA CheckedUngrant ==
    ASSUME NEW u \in Seg!UngrantReq, Seg!ummu_ungrant_data_check(u)
    PROVE  /\ u.base \in Nat /\ u.size \in Nat /\ u.size # 0 /\ u.size - 1 \in Nat
           /\ u.tokenval \in Token
<1>1. u.base \in Nat /\ u.size \in Nat /\ u.tokenval \in Token
  BY EntryInputAssumption DEF Seg!UngrantReq
<1> QED BY <1>1 DEF Seg!ummu_ungrant_data_check

\* Rounding a range out to multiples of p still covers it.
LEMMA RoundingCovers ==
    ASSUME NEW b \in Nat, NEW n \in Nat, n # 0, NEW p \in Nat \ {0}
    PROVE  LET size == n + (b % p)
               end == (b - (b % p)) + ((((size + (p - 1)) \div p) * p) - 1)
           IN  b - (b % p) <= b /\ b + (n - 1) <= end
<1>1. \A a \in Nat : /\ a = ((a \div p) * p) + (a % p) /\ a \div p \in Nat
                     /\ a % p \in Nat /\ a % p <= p - 1
  OBVIOUS
<1>2. b % p \in Nat /\ b % p <= b
  <2>1. b = ((b \div p) * p) + (b % p) /\ b \div p \in Nat /\ b % p \in Nat
    BY <1>1
  <2>2. (b \div p) * p \in Nat
    BY <2>1
  <2> QED BY <2>1, <2>2
<1> DEFINE m == b % p
           x == (n + m) + (p - 1)
           y == (x \div p) * p
<1>3. x \in Nat
  BY <1>2
<1>4. x \div p \in Nat /\ x % p \in Nat /\ x % p <= p - 1 /\ x = y + (x % p)
  BY <1>1, <1>3
<1>5. y \in Nat
  BY <1>4
<1>6. y >= n + m
  <2> HIDE DEF y
  <2>1. \A q \in Nat : x = y + q /\ q <= p - 1 => y >= n + m
    BY <1>2, <1>3, <1>5
  <2> QED BY <1>4, <2>1
<1> HIDE DEF y, x
<1>7. (b - m) + (y - 1) >= b + (n - 1) /\ b - m <= b
  <2> HIDE DEF m
  <2> QED BY <1>2, <1>5, <1>6 DEF m
<1> QED BY <1>7 DEF y, x

-----------------------------------------------------------------------------
(* The operations on the entry.                                            *)

\* What a grant writes into an unused entry.
LEMMA FillNode ==
    ASSUME NEW n \in EntryNode, n.nonce = 0, NEW d,
           d.base \in 0 .. MaxAddr, d.base + (d.size - 1) \in 0 .. MaxAddr,
           d.attr \in Attr, d.token_check \in {0, 1}, d.tokenval \in Token
    PROVE  LET new == ummu_entry_fill_node(n, d)
           IN  /\ new \in EntryNode /\ new.valid = 1
               /\ new.base = d.base /\ new.limit = d.base + (d.size - 1)
               /\ new.attr = d.attr /\ new.token_check = d.token_check
               /\ new.nonce = d.token_check
               /\ d.token_check = 1 => new.tok0 = d.tokenval /\ new.tok1 = d.tokenval
  BY DEF EntryNode, ummu_entry_fill_node, Seg!UMMU_MAX_TOKEN_NUM

TokenSet(n, a, b, c) == [n EXCEPT !.tok0 = a, !.tok1 = b, !.nonce = c]

\* Writing the token slots and the nonce leaves the rest of an entry alone.
LEMMA SetTokens ==
    ASSUME NEW n \in EntryNode, NEW a \in Token, NEW b \in Token,
           NEW c \in 0 .. Seg!UMMU_MAX_TOKEN_NUM
    PROVE  LET new == TokenSet(n, a, b, c)
           IN  /\ new \in EntryNode /\ new.valid = n.valid /\ new.base = n.base
               /\ new.limit = n.limit /\ new.attr = n.attr
               /\ new.token_check = n.token_check
               /\ new.tok0 = a /\ new.tok1 = b /\ new.nonce = c
  BY DEF EntryNode, TokenSet

\* A second token goes to slot 1 of an entry that holds one.
LEMMA AddToken ==
    ASSUME NEW n \in EntryNode, n.valid = 1, n.nonce = 1, NEW d
    PROVE  ummu_add_token(n, d) = [ret |-> "ok", node |->
               TokenSet(n, n.tok0, d.tokenval, Seg!UMMU_MAX_TOKEN_NUM)]
  BY DEF EntryNode, TokenSet, ummu_add_token

\* The token that is not removed fills both slots.
LEMMA RemoveToken ==
    ASSUME NEW n \in EntryNode, NEW d, d.tokenval \in {n.tok0, n.tok1}
    PROVE  LET k == IF n.tok0 = d.tokenval THEN n.tok1 ELSE n.tok0
           IN  ummu_remove_token(n, d) = [ret |-> "ok", node |-> TokenSet(n, k, k, 1)]
<1>1. CASE n.tok0 = d.tokenval
  BY <1>1 DEF EntryNode, TokenSet, ummu_remove_token
<1>2. CASE n.tok0 # d.tokenval
  BY <1>2 DEF EntryNode, TokenSet, ummu_remove_token
<1> QED BY <1>1, <1>2

\* ummu_entry_op dispatches on the operation.
LEMMA EntryOpCases ==
    ASSUME NEW n, NEW d, NEW op
    PROVE  /\ op = Seg!UMMU_GRANT => ummu_entry_op(n, d, op) =
                  [ret |-> "ok", node |-> ummu_entry_fill_node(n, d)]
           /\ op = Seg!UMMU_ADD_TOKEN => ummu_entry_op(n, d, op) = ummu_add_token(n, d)
           /\ op = Seg!UMMU_REMOVE_TOKEN =>
                  ummu_entry_op(n, d, op) = ummu_remove_token(n, d)
           /\ op = Seg!UMMU_UNGRANT =>
                  ummu_entry_op(n, d, op) = [ret |-> "ok", node |-> ZeroEntry]
  BY DEF ummu_entry_op, Seg!UMMU_GRANT, Seg!UMMU_ADD_TOKEN, Seg!UMMU_REMOVE_TOKEN,
         Seg!UMMU_UNGRANT

\* A grant is decided as GRANT on an unused entry, or as ADD_TOKEN on an entry
\* with the same range and attribute that holds one token.
LEMMA GrantDecision ==
    ASSUME NEW n, NEW d, ummu_entry_param_check(n, d) # Seg!UMMU_OP_END
    PROVE  \/ ummu_entry_param_check(n, d) = Seg!UMMU_GRANT /\ n.valid = 0
           \/ /\ ummu_entry_param_check(n, d) = Seg!UMMU_ADD_TOKEN
              /\ n.valid # 0 /\ n.base = d.base /\ n.limit = d.base + (d.size - 1)
              /\ n.token_check = 1 /\ d.token_check = 1
              /\ n.attr = d.attr /\ n.nonce = 1
  BY DEF ummu_entry_param_check

\* An ungrant is decided only on a used entry with the same range.
LEMMA UngrantDecision ==
    ASSUME NEW n, NEW u, ummu_entry_ungrant_param_check(n, u) # Seg!UMMU_OP_END
    PROVE  /\ n.valid = 1 /\ n.base = u.base /\ n.limit = u.base + (u.size - 1)
           /\ \/ /\ ummu_entry_ungrant_param_check(n, u) = Seg!UMMU_UNGRANT
                 /\ \/ u.bytoken = 0
                    \/ u.bytoken # 0 /\ TokenMatch(n, u) /\ n.nonce = 1
              \/ /\ ummu_entry_ungrant_param_check(n, u) = Seg!UMMU_REMOVE_TOKEN
                 /\ u.bytoken # 0 /\ TokenMatch(n, u)
                 /\ n.nonce = Seg!UMMU_MAX_TOKEN_NUM
  BY DEF ummu_entry_ungrant_param_check, EntryMatch

\* An invalidation of a range that meets the cached entry empties the PLB.
LEMMA PlbiEmpties ==
    ASSUME EInv, node.valid = 1, live, NEW base \in Int, NEW size \in Int,
           base <= node.limit, node.base <= base + (size - 1)
    PROVE  ummu_plbi_va_cmd(base, size) = {}
<1>1. plb \subseteq {Cached(node)} /\ node.base \in Nat /\ node.limit \in Nat
  BY EntryAddrAssumption DEF EInv, PlbCoherent, TypeOK, EntryNode
<1>2. Cached(node).base = node.base /\ Cached(node).limit = node.limit
  BY DEF Cached
<1> QED BY <1>1, <1>2 DEF ummu_plbi_va_cmd

-----------------------------------------------------------------------------
(* The inductive invariant.                                                *)

\* A grant preserves the invariant.  On an unused entry the PLB is empty, so
\* that GRANT needs no invalidation; ADD_TOKEN invalidates the entry's range.
LEMMA GrantKeeps ==
    ASSUME EInv, NEW r \in Seg!GrantReq, ummu_grant(r)
    PROVE  EInv'
<1> DEFINE d == Seg!ummu_perm_data_preproc(r)
           op == ummu_entry_param_check(node, d)
           x == ummu_entry_op(node, d, op)
<1>1. /\ live /\ Seg!ummu_check_data(r) /\ op # Seg!UMMU_OP_END
      /\ node' = x.node /\ live' = live
      /\ plb' = IF op = Seg!UMMU_ADD_TOKEN \/ x.ret # "ok"
                THEN ummu_plbi_va_cmd(r.base, r.size) ELSE plb
  BY DEF ummu_grant
<1>2. /\ d.base = r.base /\ d.size = r.size
      /\ d.base \in Nat /\ d.size \in Nat /\ d.size - 1 \in Nat
      /\ d.base \in 0 .. MaxAddr /\ d.base + (d.size - 1) \in 0 .. MaxAddr
      /\ d.base <= d.base + (d.size - 1)
      /\ d.attr \in Attr /\ d.token_check \in {0, 1} /\ d.tokenval \in Token
  BY <1>1, CheckedGrant
<1>3. node \in EntryNode
  BY DEF EInv, TypeOK
<1> HIDE DEF d
<1>4. CASE op = Seg!UMMU_GRANT /\ node.valid = 0
  <2>1. node.nonce = 0 /\ plb = {}
    BY <1>4 DEF EInv, NonceCountsTokens, PlbCoherent
  <2>2. x = [ret |-> "ok", node |-> ummu_entry_fill_node(node, d)]
    BY <1>4, EntryOpCases
  <2>3. /\ node' = ummu_entry_fill_node(node, d)
        /\ plb' = {}
    BY <1>1, <1>4, <2>1, <2>2 DEF Seg!UMMU_GRANT, Seg!UMMU_ADD_TOKEN
  <2>4. /\ node' \in EntryNode /\ node'.valid = 1
        /\ node'.base = d.base /\ node'.limit = d.base + (d.size - 1)
        /\ node'.attr = d.attr /\ node'.token_check = d.token_check
        /\ node'.nonce = d.token_check
        /\ d.token_check = 1 => node'.tok0 = d.tokenval /\ node'.tok1 = d.tokenval
    BY <1>2, <1>3, <2>1, <2>3, FillNode
  <2>5. TypeOK'
    BY <1>1, <1>2, <2>4 DEF EInv, TypeOK
  <2>6. NonceCountsTokens'
    BY <1>2, <2>4 DEF NonceCountsTokens
  <2>7. PlbCoherent'
    BY <2>3 DEF PlbCoherent
  <2> QED BY <2>5, <2>6, <2>7 DEF EInv
<1>5. CASE /\ op = Seg!UMMU_ADD_TOKEN
           /\ node.valid # 0 /\ node.base = d.base /\ node.limit = d.base + (d.size - 1)
           /\ node.token_check = 1 /\ node.attr = d.attr /\ node.nonce = 1
  <2>1. node.valid = 1 /\ node.tok0 \in Token
    BY <1>3, <1>5 DEF EntryNode
  <2>2. node' = TokenSet(node, node.tok0, d.tokenval, Seg!UMMU_MAX_TOKEN_NUM)
    BY <1>1, <1>3, <1>5, <2>1, EntryOpCases, AddToken
  <2>3. plb' = {}
    <3>1. ummu_plbi_va_cmd(r.base, r.size) = {}
      BY <1>1, <1>2, <1>5, <2>1, PlbiEmpties
    <3> QED BY <1>1, <1>5, <3>1
  <2>4. Seg!UMMU_MAX_TOKEN_NUM \in 0 .. Seg!UMMU_MAX_TOKEN_NUM
    BY DEF Seg!UMMU_MAX_TOKEN_NUM
  <2>5. /\ node' \in EntryNode /\ node'.valid = 1 /\ node'.base = node.base
        /\ node'.limit = node.limit /\ node'.attr = node.attr
        /\ node'.token_check = 1 /\ node'.nonce = Seg!UMMU_MAX_TOKEN_NUM
    BY <1>2, <1>3, <1>5, <2>1, <2>2, <2>4, SetTokens
  <2>6. TypeOK'
    BY <1>1, <2>1, <2>5 DEF EInv, TypeOK
  <2>7. NonceCountsTokens'
    BY <2>5 DEF NonceCountsTokens, Seg!UMMU_MAX_TOKEN_NUM
  <2>8. PlbCoherent'
    BY <2>3 DEF PlbCoherent
  <2> QED BY <2>6, <2>7, <2>8 DEF EInv
<1> QED BY <1>1, <1>4, <1>5, GrantDecision

\* An ungrant preserves the invariant: its rounded range covers the entry.
LEMMA UngrantKeeps ==
    ASSUME EInv, NEW u \in Seg!UngrantReq, ummu_ungrant(u)
    PROVE  EInv'
<1> DEFINE op == ummu_entry_ungrant_param_check(node, u)
<1>1. /\ live /\ Seg!ummu_ungrant_data_check(u) /\ op # Seg!UMMU_OP_END
      /\ node' = ummu_entry_op(node, u, op).node /\ live' = live
      /\ plb' = IF op = Seg!UMMU_UNGRANT THEN UngrantPlbi(u)
                ELSE ummu_plbi_va_cmd(u.base, u.size)
  BY DEF ummu_ungrant
<1>2. /\ u.base \in Nat /\ u.size \in Nat /\ u.size # 0 /\ u.size - 1 \in Nat
      /\ u.tokenval \in Token
  BY <1>1, CheckedUngrant
<1>3. /\ node \in EntryNode /\ node.valid = 1
      /\ node.base = u.base /\ node.limit = u.base + (u.size - 1)
  BY <1>1, UngrantDecision DEF EInv, TypeOK
<1>4. CASE op = Seg!UMMU_UNGRANT
  <2>1. node' = ZeroEntry
    BY <1>1, <1>4, EntryOpCases
  <2>2. plb' = {}
    <3> DEFINE base == u.base - (u.base % Align)
               size == ((((u.size + (u.base % Align)) + (Align - 1)) \div Align) * Align)
    <3>1. base <= u.base /\ u.base + (u.size - 1) <= base + (size - 1)
      BY <1>2, EntryAddrAssumption, RoundingCovers
    <3>2. base \in Int /\ size \in Int
      BY <1>2, EntryAddrAssumption
    <3>3. UngrantPlbi(u) = ummu_plbi_va_cmd(base, size)
      BY DEF UngrantPlbi
    <3> HIDE DEF base, size
    <3>4. base <= node.limit /\ node.base <= base + (size - 1)
      BY <1>2, <1>3, <3>1, <3>2
    <3>5. ummu_plbi_va_cmd(base, size) = {}
      BY <1>1, <1>3, <3>2, <3>4, PlbiEmpties
    <3> QED BY <1>1, <1>4, <3>3, <3>5
  <2>3. ZeroEntry \in EntryNode /\ ZeroEntry.valid = 0 /\ ZeroEntry.nonce = 0
    BY EntryAddrAssumption, EntryTokenAssumption
    DEF ZeroEntry, EntryNode, Seg!UMMU_MAX_TOKEN_NUM
  <2> QED BY <1>1, <2>1, <2>2, <2>3 DEF EInv, TypeOK, NonceCountsTokens, PlbCoherent
<1>5. CASE /\ op = Seg!UMMU_REMOVE_TOKEN /\ TokenMatch(node, u)
  <2>1. node.token_check = 1 /\ u.tokenval \in {node.tok0, node.tok1}
    BY <1>5 DEF TokenMatch
  <2> DEFINE k == IF node.tok0 = u.tokenval THEN node.tok1 ELSE node.tok0
  <2>2. k \in Token /\ 1 \in 0 .. Seg!UMMU_MAX_TOKEN_NUM
    BY <1>3 DEF EntryNode, Seg!UMMU_MAX_TOKEN_NUM
  <2>3. node' = TokenSet(node, k, k, 1)
    BY <1>1, <1>3, <1>5, <2>1, EntryOpCases, RemoveToken
  <2>4. plb' = {}
    <3>1. ummu_plbi_va_cmd(u.base, u.size) = {}
      BY <1>1, <1>2, <1>3, PlbiEmpties
    <3> QED BY <1>1, <1>5, <3>1 DEF Seg!UMMU_REMOVE_TOKEN, Seg!UMMU_UNGRANT
  <2> HIDE DEF k
  <2>5. /\ node' \in EntryNode /\ node'.valid = 1 /\ node'.base = node.base
        /\ node'.limit = node.limit /\ node'.attr = node.attr
        /\ node'.token_check = 1 /\ node'.nonce = 1 /\ node'.tok0 = node'.tok1
    BY <1>3, <2>1, <2>2, <2>3, SetTokens
  <2>6. TypeOK'
    BY <1>1, <1>3, <2>5 DEF EInv, TypeOK
  <2>7. NonceCountsTokens'
    BY <2>5 DEF NonceCountsTokens
  <2>8. PlbCoherent'
    BY <2>4 DEF PlbCoherent
  <2> QED BY <2>6, <2>7, <2>8 DEF EInv
<1> QED BY <1>1, <1>4, <1>5, UngrantDecision

\* The inductive invariant holds in every reachable state.
THEOREM EInvInvariant == Spec => []EInv
<1>1. Init => EInv
  BY DEF Init, ummu_mapt_entry_init, EInv, TypeOK, NonceCountsTokens, PlbCoherent
<1>2. EInv /\ [Next]_vars => EInv'
  <2> SUFFICES ASSUME EInv, [Next]_vars PROVE EInv'
    OBVIOUS
  <2>1. CASE \E r \in Seg!GrantReq : ummu_grant(r)
    BY <2>1, GrantKeeps
  <2>2. CASE \E u \in Seg!UngrantReq : ummu_ungrant(u)
    BY <2>2, UngrantKeeps
  <2>3. CASE ummu_free_tid
    BY <2>3 DEF ummu_free_tid, EInv, TypeOK, NonceCountsTokens, PlbCoherent
  <2>4. CASE ummu_allocate_tid
    BY <2>4 DEF ummu_allocate_tid, ummu_mapt_entry_init, EInv, TypeOK,
                NonceCountsTokens, PlbCoherent
  <2>5. CASE device_lookup
    BY <2>5 DEF device_lookup, EInv, TypeOK, NonceCountsTokens, PlbCoherent
  <2>6. CASE UNCHANGED vars
    BY <2>6 DEF vars, EInv, TypeOK, NonceCountsTokens, PlbCoherent, Cached
  <2> QED BY <2>1, <2>2, <2>3, <2>4, <2>5, <2>6 DEF Next
<1> QED BY <1>1, <1>2, PTL DEF Spec

\* The entry always is an entry node, and a non-empty range in the address
\* space with a valid permission once it is granted.
THEOREM EntryTypeCorrect == Spec => []TypeOK
  BY EInvInvariant, PTL DEF EInv

\* The nonce always counts the tokens of the entry, although a grant without a
\* token relies on what the last ungrant left in it.
THEOREM NonceCorrect == Spec => []NonceCountsTokens
  BY EInvInvariant, PTL DEF EInv

\* The device never keeps an entry that differs from the one in memory, for
\* every rounding of the invalidated range.
THEOREM PlbAlwaysCoherent == Spec => []PlbCoherent
  BY EInvInvariant, PTL DEF EInv

-----------------------------------------------------------------------------
(* Entry mode implements the segment manager.                              *)

\* In an empty range table nothing is found and nothing blocks an insertion.
LEMMA EmptyTable ==
    ASSUME NEW left, NEW size, NEW data
    PROVE  /\ Seg!ummu_find_seg(left, size, {}).comp = Seg!RANGE_NOT_EXIST
           /\ Seg!ummu_insert_seg(data, {}) = [ret |-> "ok", table |-> {data}]
<1>1. \A k : Seg!MapFind({}, k) = {} /\ Seg!InsertBlocker({}, k) = {}
  BY DEF Seg!MapFind, Seg!LowerBound, Seg!InsertBlocker
<1> QED BY <1>1 DEF Seg!ummu_find_seg, Seg!ummu_insert_seg

\* In a table of one segment a key that starts with it finds it.
LEMMA SingleTable ==
    ASSUME NEW s, s.left \in Nat, s.right \in Nat, s.left <= s.right, NEW n \in Nat
    PROVE  Seg!MapFind({s}, Seg!MkRange(s.left, n)) = {s}
<1> DEFINE k == Seg!MkRange(s.left, n)
<1>1. k.left = s.left /\ k.right = s.left + n
  BY DEF Seg!MkRange
<1>2. ~Seg!ModCmp(s, k) /\ ~Seg!ModCmp(k, s)
  BY <1>1 DEF Seg!ModCmp
<1>3. Seg!LowerBound({s}, k) = {s}
  BY <1>2 DEF Seg!LowerBound
<1> QED BY <1>2, <1>3 DEF Seg!MapFind

\* A request for exactly the range of the only segment matches it, and
\* deleting that range empties the table.
LEMMA SingleMatch ==
    ASSUME NEW s, NEW size \in Nat, s.left \in Nat, s.right = s.left + size
    PROVE  /\ Seg!ummu_find_seg(s.left, size, {s}) =
                  [data |-> {s}, comp |-> Seg!RANGE_MATCH]
           /\ Seg!ummu_delete_seg(s.left, size, {s}) = [ret |-> "ok", table |-> {}]
<1>1. /\ Seg!MapFind({s}, Seg!MkRange(s.left, size)) = {s}
      /\ Seg!MapFind({s}, Seg!MkRange(s.left, s.left + size)) = {s}
  <2>1. s.right \in Nat /\ s.left <= s.right /\ s.left + size \in Nat
    OBVIOUS
  <2> QED BY <2>1, SingleTable
<1>2. Seg!Exactly({s}, s.left, size) = {s}
  BY DEF Seg!Exactly
<1> QED BY <1>1, <1>2 DEF Seg!ummu_find_seg, Seg!ummu_delete_seg

\* The segment record of an entry has the entry's fields.
LEMMA SegOfFields ==
    ASSUME NEW n
    PROVE  /\ SegOf(n).left = n.base /\ SegOf(n).right = n.limit
           /\ SegOf(n).attr = n.attr /\ SegOf(n).token_check = n.token_check
           /\ SegOf(n).token_count = n.nonce
           /\ n.token_check = 1 => SegOf(n).tok0 = n.tok0 /\ SegOf(n).tok1 = n.tok1
  BY DEF SegOf

\* A granted entry stands for a well-formed segment record.
LEMMA SegOfType ==
    ASSUME NEW n \in EntryNode, n.attr \in Attr
    PROVE  SegOf(n) \in Seg!SegInfo
  BY EntryAddrAssumption, EntryTokenAssumption DEF EntryNode, SegOf, Seg!SegInfo

\* t differs from s in its tokens only.
SameSegment(s, t) ==
    /\ t.left = s.left /\ t.right = s.right /\ t.attr = s.attr
    /\ t.token_check = s.token_check

\* The record SegMng has after adding a token, known by its fields.
LEMMA AddTokenvalIs ==
    ASSUME NEW s \in Seg!SegInfo, NEW t \in Seg!SegInfo, NEW k, SameSegment(s, t),
           t.token_count = Seg!UMMU_MAX_TOKEN_NUM, t.tok0 = s.tok0, t.tok1 = k
    PROVE  t = Seg!AddTokenval(k, s)
  BY DEF SameSegment, Seg!SegInfo, Seg!AddTokenval

\* The record SegMng has after removing a token, known by its fields.
LEMMA RemoveTokenvalIs ==
    ASSUME NEW s \in Seg!SegInfo, NEW t \in Seg!SegInfo, NEW k \in {s.tok0, s.tok1},
           SameSegment(s, t), t.token_count = 1, t.tok0 = t.tok1,
           t.tok0 = IF s.tok0 = k THEN s.tok1 ELSE s.tok0
    PROVE  t = Seg!ummu_remove_tokenval(k, s)
<1>1. CASE s.tok0 = k
  BY <1>1 DEF SameSegment, Seg!SegInfo, Seg!ummu_remove_tokenval
<1>2. CASE s.tok0 # k
  BY <1>2 DEF SameSegment, Seg!SegInfo, Seg!ummu_remove_tokenval
<1> QED BY <1>1, <1>2

\* ummu_update_info dispatches on the operation.
LEMMA UpdateInfoCases ==
    ASSUME NEW op, NEW table, NEW d
    PROVE  /\ op = Seg!UMMU_GRANT => Seg!ummu_update_info(op, table, d) =
                  Seg!ummu_insert_new_addr(table, d)
           /\ op \in {Seg!UMMU_ADD_TOKEN, Seg!UMMU_REMOVE_TOKEN} =>
                  Seg!ummu_update_info(op, table, d) = Seg!ummu_token_update(table, d, op)
           /\ op = Seg!UMMU_UNGRANT => Seg!ummu_update_info(op, table, d) =
                  Seg!ummu_delete_addr(table, d)
  BY DEF Seg!ummu_update_info, Seg!UMMU_GRANT, Seg!UMMU_ADD_TOKEN,
         Seg!UMMU_REMOVE_TOKEN, Seg!UMMU_UNGRANT

\* A grant in entry mode is a grant of the segment manager.
LEMMA GrantRefines ==
    ASSUME EInv, NEW r \in Seg!GrantReq, ummu_grant(r)
    PROVE  Seg!ummu_grant(r)
<1> DEFINE d == Seg!ummu_perm_data_preproc(r)
           op == ummu_entry_param_check(node, d)
<1>1. /\ live /\ Seg!ummu_check_data(r) /\ op # Seg!UMMU_OP_END
      /\ node' = ummu_entry_op(node, d, op).node /\ live' = live
  BY DEF ummu_grant
<1>2. /\ d.base \in Nat /\ d.size - 1 \in Nat
      /\ d.base \in 0 .. MaxAddr /\ d.base + (d.size - 1) \in 0 .. MaxAddr
      /\ d.attr \in Attr /\ d.token_check \in {0, 1} /\ d.tokenval \in Token
  BY <1>1, CheckedGrant
<1>3. node \in EntryNode
  BY DEF EInv, TypeOK
<1> HIDE DEF d
<1>4. SUFFICES /\ Seg!ummu_grant_check(Segments, d) = op
               /\ Segments' = Seg!ummu_update_info(op, Segments, d).table
  <2>1. op # Seg!UMMU_OP_END /\ Seg!ummu_check_data(r)
    BY <1>1
  <2> HIDE DEF op
  <2> QED BY <1>4, <2>1 DEF d, Seg!ummu_grant
<1>5. CASE op = Seg!UMMU_GRANT /\ node.valid = 0
  <2> DEFINE tok == IF d.token_check = 1 THEN d.tokenval ELSE ZeroToken
             new == [left |-> d.base, right |-> d.base + (d.size - 1),
                     attr |-> d.attr, token_check |-> d.token_check,
                     token_count |-> d.token_check, tok0 |-> tok, tok1 |-> tok]
  <2>1. Segments = {} /\ node.nonce = 0
    BY <1>5 DEF Segments, EInv, NonceCountsTokens
  <2>2. Seg!ummu_grant_check({}, d) = Seg!UMMU_GRANT
    BY EmptyTable DEF Seg!ummu_grant_check, Seg!RANGE_NOT_EXIST, Seg!RANGE_MATCH
  <2>3. Seg!ummu_update_info(Seg!UMMU_GRANT, {}, d).table = {new}
    <3>1. Seg!ummu_insert_new_addr({}, d) = Seg!ummu_insert_seg(new, {})
      BY DEF Seg!ummu_insert_new_addr
    <3> HIDE DEF new
    <3>2. Seg!ummu_insert_seg(new, {}) = [ret |-> "ok", table |-> {new}]
      BY EmptyTable
    <3>3. Seg!ummu_update_info(Seg!UMMU_GRANT, {}, d) = Seg!ummu_insert_new_addr({}, d)
      BY UpdateInfoCases
    <3> QED BY <3>1, <3>2, <3>3
  <2>4. node' = ummu_entry_fill_node(node, d)
    BY <1>1, <1>5, EntryOpCases
  <2>5. /\ node'.valid = 1
        /\ node'.base = d.base /\ node'.limit = d.base + (d.size - 1)
        /\ node'.attr = d.attr /\ node'.token_check = d.token_check
        /\ node'.nonce = d.token_check
        /\ d.token_check = 1 => node'.tok0 = d.tokenval /\ node'.tok1 = d.tokenval
    BY <1>2, <1>3, <2>1, <2>4, FillNode
  <2>6. SegOf(node') = new
    BY <2>5 DEF SegOf
  <2>7. Segments' = {SegOf(node')}
    BY <1>1, <2>5 DEF Segments
  <2> QED BY <1>5, <2>1, <2>2, <2>3, <2>6, <2>7
<1>6. CASE /\ op = Seg!UMMU_ADD_TOKEN
           /\ node.valid # 0 /\ node.base = d.base /\ node.limit = d.base + (d.size - 1)
           /\ node.token_check = 1 /\ d.token_check = 1
           /\ node.attr = d.attr /\ node.nonce = 1
  <2> DEFINE s == SegOf(node)
  <2>1. Segments = {s} /\ node.valid = 1 /\ node.tok0 \in Token
    BY <1>1, <1>3, <1>6 DEF Segments, EntryNode
  <2>2. /\ s.left = d.base /\ s.right = d.base + (d.size - 1) /\ s.attr = d.attr
        /\ s.token_check = 1 /\ s.token_count = 1
        /\ s.tok0 = node.tok0 /\ s.tok1 = node.tok1
    BY <1>6, SegOfFields
  <2>3. Seg!ummu_find_seg(d.base, d.size - 1, {s}) =
            [data |-> {s}, comp |-> Seg!RANGE_MATCH]
    <3> HIDE DEF s
    <3> QED BY <1>2, <2>2, SingleMatch
  <2>4. Seg!ummu_grant_check({s}, d) = Seg!UMMU_ADD_TOKEN
    <3> HIDE DEF s
    <3>1. Seg!ummu_grant_check({s}, d) = Seg!ummu_table_param_check(s, d)
      BY <2>3 DEF Seg!ummu_grant_check, Seg!RANGE_MATCH, Seg!RANGE_NOT_EXIST
    <3> QED BY <1>6, <2>2, <3>1 DEF Seg!ummu_table_param_check
  <2>5. Seg!ummu_update_info(Seg!UMMU_ADD_TOKEN, {s}, d).table =
            {Seg!AddTokenval(d.tokenval, s)}
    <3> HIDE DEF s
    <3>1. Seg!ummu_update_info(Seg!UMMU_ADD_TOKEN, {s}, d) =
              Seg!ummu_token_update({s}, d, Seg!UMMU_ADD_TOKEN)
      BY UpdateInfoCases
    <3>2. Seg!ummu_token_update({s}, d, Seg!UMMU_ADD_TOKEN).table =
              {Seg!AddTokenval(d.tokenval, s)}
      BY <2>3 DEF Seg!ummu_token_update, Seg!UMMU_ADD_TOKEN, Seg!UMMU_REMOVE_TOKEN
    <3> QED BY <3>1, <3>2
  <2>6. node' = TokenSet(node, node.tok0, d.tokenval, Seg!UMMU_MAX_TOKEN_NUM)
    BY <1>1, <1>3, <1>6, <2>1, EntryOpCases, AddToken
  <2>7. Seg!UMMU_MAX_TOKEN_NUM \in 0 .. Seg!UMMU_MAX_TOKEN_NUM
    BY DEF Seg!UMMU_MAX_TOKEN_NUM
  <2>8. /\ node' \in EntryNode /\ node'.valid = 1 /\ node'.base = node.base
        /\ node'.limit = node.limit /\ node'.attr = node.attr
        /\ node'.token_check = node.token_check /\ node'.tok0 = node.tok0
        /\ node'.tok1 = d.tokenval /\ node'.nonce = Seg!UMMU_MAX_TOKEN_NUM
    BY <1>2, <1>3, <2>1, <2>6, <2>7, SetTokens
  <2>9. SegOf(node') = Seg!AddTokenval(d.tokenval, s)
    <3> DEFINE t == SegOf(node')
    <3>1. s \in Seg!SegInfo /\ t \in Seg!SegInfo
      BY <1>2, <1>3, <1>6, <2>8, SegOfType
    <3>2. /\ t.left = node'.base /\ t.right = node'.limit /\ t.attr = node'.attr
          /\ t.token_check = node'.token_check /\ t.token_count = node'.nonce
          /\ t.tok0 = node'.tok0 /\ t.tok1 = node'.tok1
      BY <1>6, <2>8, SegOfFields
    <3> HIDE DEF s, t
    <3>3. /\ SameSegment(s, t) /\ t.token_count = Seg!UMMU_MAX_TOKEN_NUM
          /\ t.tok0 = s.tok0 /\ t.tok1 = d.tokenval
      BY <1>6, <2>2, <2>8, <3>2 DEF SameSegment
    <3>4. t = Seg!AddTokenval(d.tokenval, s)
      BY <3>1, <3>3, AddTokenvalIs
    <3> QED BY <3>4 DEF t
  <2>10. Segments' = {SegOf(node')}
    BY <1>1, <2>8 DEF Segments
  <2> QED BY <1>6, <2>1, <2>4, <2>5, <2>9, <2>10
<1> QED BY <1>1, <1>5, <1>6, GrantDecision

\* An ungrant in entry mode is an ungrant of the segment manager.
LEMMA UngrantRefines ==
    ASSUME EInv, NEW u \in Seg!UngrantReq, ummu_ungrant(u)
    PROVE  Seg!ummu_ungrant(u)
<1> DEFINE op == ummu_entry_ungrant_param_check(node, u)
           s == SegOf(node)
<1>1. /\ live /\ Seg!ummu_ungrant_data_check(u) /\ op # Seg!UMMU_OP_END
      /\ node' = ummu_entry_op(node, u, op).node /\ live' = live
  BY DEF ummu_ungrant
<1>2. /\ u.base \in Nat /\ u.size - 1 \in Nat /\ u.tokenval \in Token
  BY <1>1, CheckedUngrant
<1>3. /\ node \in EntryNode /\ node.valid = 1
      /\ node.base = u.base /\ node.limit = u.base + (u.size - 1)
  BY <1>1, UngrantDecision DEF EInv, TypeOK
<1>4. Segments = {s}
  BY <1>1, <1>3 DEF Segments
<1>5. /\ s.left = u.base /\ s.right = u.base + (u.size - 1)
      /\ s.token_check = node.token_check /\ s.token_count = node.nonce
      /\ node.token_check = 1 => s.tok0 = node.tok0 /\ s.tok1 = node.tok1
  BY <1>3, SegOfFields
<1>6. /\ Seg!ummu_find_seg(u.base, u.size - 1, {s}) =
             [data |-> {s}, comp |-> Seg!RANGE_MATCH]
      /\ Seg!ummu_delete_seg(u.base, u.size - 1, {s}) = [ret |-> "ok", table |-> {}]
  <2> HIDE DEF s
  <2> QED BY <1>2, <1>5, SingleMatch
<1>7. Seg!ummu_ungrant_check({s}, u) = Seg!ummu_ungrant_param_check(s, u)
  <2> HIDE DEF s
  <2> QED BY <1>6 DEF Seg!ummu_ungrant_check
<1>8. SUFFICES /\ Seg!ummu_ungrant_param_check(s, u) = op
               /\ Segments' = Seg!ummu_update_info(op, {s}, u).table
  <2>1. op # Seg!UMMU_OP_END /\ Seg!ummu_ungrant_data_check(u)
    BY <1>1
  <2> HIDE DEF op, s
  <2> QED BY <1>4, <1>7, <1>8, <2>1 DEF Seg!ummu_ungrant
<1>9. CASE /\ op = Seg!UMMU_UNGRANT
           /\ \/ u.bytoken = 0
              \/ u.bytoken # 0 /\ TokenMatch(node, u) /\ node.nonce = 1
  <2>1. Segments' = {}
    BY <1>1, <1>9, EntryOpCases DEF Segments, ZeroEntry
  <2> HIDE DEF s
  <2>2. Seg!ummu_ungrant_param_check(s, u) = Seg!UMMU_UNGRANT
    <3>1. Seg!UMMU_MAX_TOKEN_NUM # 1
      BY DEF Seg!UMMU_MAX_TOKEN_NUM
    <3> QED BY <1>5, <1>9, <3>1 DEF Seg!ummu_ungrant_param_check, TokenMatch
  <2>3. Seg!ummu_update_info(Seg!UMMU_UNGRANT, {s}, u) = Seg!ummu_delete_addr({s}, u)
    BY UpdateInfoCases
  <2>4. Seg!ummu_delete_addr({s}, u).table = {}
    BY <1>6 DEF Seg!ummu_delete_addr
  <2> QED BY <1>9, <2>1, <2>2, <2>3, <2>4
<1>10. CASE /\ op = Seg!UMMU_REMOVE_TOKEN
            /\ u.bytoken # 0 /\ TokenMatch(node, u)
            /\ node.nonce = Seg!UMMU_MAX_TOKEN_NUM
  <2> DEFINE k == IF node.tok0 = u.tokenval THEN node.tok1 ELSE node.tok0
  <2>1. /\ node.token_check = 1 /\ u.tokenval \in {node.tok0, node.tok1}
        /\ k \in Token /\ 1 \in 0 .. Seg!UMMU_MAX_TOKEN_NUM
    BY <1>3, <1>10 DEF TokenMatch, EntryNode, Seg!UMMU_MAX_TOKEN_NUM
  <2>2. Seg!ummu_ungrant_param_check(s, u) = Seg!UMMU_REMOVE_TOKEN
    <3> HIDE DEF s
    <3>1. Seg!UMMU_MAX_TOKEN_NUM # 1
      BY DEF Seg!UMMU_MAX_TOKEN_NUM
    <3> QED BY <1>5, <1>10, <2>1, <3>1 DEF Seg!ummu_ungrant_param_check
  <2>3. Seg!ummu_update_info(Seg!UMMU_REMOVE_TOKEN, {s}, u).table =
            {Seg!ummu_remove_tokenval(u.tokenval, s)}
    <3> HIDE DEF s
    <3>1. Seg!ummu_update_info(Seg!UMMU_REMOVE_TOKEN, {s}, u) =
              Seg!ummu_token_update({s}, u, Seg!UMMU_REMOVE_TOKEN)
      BY UpdateInfoCases
    <3>2. Seg!ummu_token_update({s}, u, Seg!UMMU_REMOVE_TOKEN).table =
              {Seg!ummu_remove_tokenval(u.tokenval, s)}
      BY <1>6 DEF Seg!ummu_token_update
    <3> QED BY <3>1, <3>2
  <2>4. node' = TokenSet(node, k, k, 1)
    BY <1>1, <1>3, <1>10, <2>1, EntryOpCases, RemoveToken
  <2>5. /\ node' \in EntryNode /\ node'.valid = 1 /\ node'.base = node.base
        /\ node'.limit = node.limit /\ node'.attr = node.attr
        /\ node'.token_check = node.token_check
        /\ node'.tok0 = k /\ node'.tok1 = k /\ node'.nonce = 1
    <3> HIDE DEF k
    <3> QED BY <1>3, <2>1, <2>4, SetTokens
  <2>6. SegOf(node') = Seg!ummu_remove_tokenval(u.tokenval, s)
    <3> DEFINE t == SegOf(node')
    <3>1. s \in Seg!SegInfo /\ t \in Seg!SegInfo
      <4>1. node.attr \in Attr
        BY <1>3 DEF EInv, TypeOK
      <4> QED BY <1>3, <2>5, <4>1, SegOfType
    <3>2. /\ t.left = node'.base /\ t.right = node'.limit /\ t.attr = node'.attr
          /\ t.token_check = node'.token_check /\ t.token_count = node'.nonce
          /\ t.tok0 = node'.tok0 /\ t.tok1 = node'.tok1
      BY <2>1, <2>5, SegOfFields
    <3>3. s.left = node.base /\ s.right = node.limit /\ s.attr = node.attr
      BY SegOfFields
    <3> HIDE DEF s, t
    <3>4. SameSegment(s, t)
      BY <1>5, <2>5, <3>2, <3>3 DEF SameSegment
    <3>5. /\ u.tokenval \in {s.tok0, s.tok1} /\ t.token_count = 1 /\ t.tok0 = t.tok1
          /\ t.tok0 = IF s.tok0 = u.tokenval THEN s.tok1 ELSE s.tok0
      BY <1>5, <2>1, <2>5, <3>2
    <3>6. t = Seg!ummu_remove_tokenval(u.tokenval, s)
      BY <3>1, <3>4, <3>5, RemoveTokenvalIs
    <3> QED BY <3>6 DEF t
  <2>7. Segments' = {SegOf(node')}
    BY <1>1, <2>5 DEF Segments
  <2> QED BY <1>10, <2>2, <2>3, <2>6, <2>7
<1> QED BY <1>1, <1>9, <1>10, UngrantDecision

\* Entry mode implements the segment manager: every reachable step is a step
\* of SegMng on the segment the entry stands for, or leaves it alone.
THEOREM EntryImplementsSegMng == Spec => Refines
<1>1. Init => Seg!Init
  BY DEF Init, ummu_mapt_entry_init, Seg!Init, Segments
<1>2. EInv /\ [Next]_vars => [Seg!Next]_Segments
  <2> SUFFICES ASSUME EInv, [Next]_vars PROVE Seg!Next \/ Segments' = Segments
    OBVIOUS
  <2>1. CASE \E r \in Seg!GrantReq : ummu_grant(r)
    BY <2>1, GrantRefines DEF Seg!Next
  <2>2. CASE \E u \in Seg!UngrantReq : ummu_ungrant(u)
    BY <2>2, UngrantRefines DEF Seg!Next
  <2>3. CASE ummu_free_tid
    BY <2>3 DEF ummu_free_tid, Seg!Next, Seg!ummu_free_tid, Segments
  <2>4. CASE ummu_allocate_tid
    BY <2>4 DEF ummu_allocate_tid, ummu_mapt_entry_init, Segments
  <2>5. CASE device_lookup
    BY <2>5 DEF device_lookup, Segments, SegOf
  <2>6. CASE UNCHANGED vars
    BY <2>6 DEF vars, Segments, SegOf
  <2> QED BY <2>1, <2>2, <2>3, <2>4, <2>5, <2>6 DEF Next
<1> QED BY <1>1, <1>2, EInvInvariant, PTL DEF Spec, Refines, Seg!Spec

-----------------------------------------------------------------------------
(* The checks decide as the segment table would.                           *)

\* A search in a table of one segment matches exactly the segment's own range.
LEMMA SingleFind ==
    ASSUME NEW s, s.left \in Nat, s.right \in Nat, s.left <= s.right,
           NEW left \in Nat, NEW size \in Nat
    PROVE  LET find == Seg!ummu_find_seg(left, size, {s})
           IN  /\ s.left = left /\ s.right = left + size =>
                      find = [data |-> {s}, comp |-> Seg!RANGE_MATCH]
               /\ ~(s.left = left /\ s.right = left + size) =>
                      find.comp \in {Seg!RANGE_NOT_EXIST, Seg!RANGE_OVERLAP}
<1>1. s.left = left /\ s.right = left + size =>
          Seg!ummu_find_seg(left, size, {s}) = [data |-> {s}, comp |-> Seg!RANGE_MATCH]
  BY SingleMatch
<1>2. ASSUME ~(s.left = left /\ s.right = left + size)
      PROVE  Seg!ummu_find_seg(left, size, {s}).comp
                 \in {Seg!RANGE_NOT_EXIST, Seg!RANGE_OVERLAP}
  <2>1. \A found : found \subseteq {s} => Seg!Exactly(found, left, size) = {}
    BY <1>2 DEF Seg!Exactly
  <2>2. Seg!MapFind({s}, Seg!MkRange(left, size)) \subseteq {s}
    BY DEF Seg!MapFind, Seg!LowerBound
  <2> QED BY <2>1, <2>2 DEF Seg!ummu_find_seg
<1> QED BY <1>1, <1>2

\* The segment table of a granted entry and its range.
LEMMA GrantedEntry ==
    ASSUME EInv, live, node.valid = 1
    PROVE  /\ Segments = {SegOf(node)} /\ node \in EntryNode
           /\ SegOf(node).left \in Nat /\ SegOf(node).right \in Nat
           /\ SegOf(node).left <= SegOf(node).right
  BY SegOfFields, EntryAddrAssumption DEF EInv, TypeOK, EntryNode, Segments

\* A checked grant is decided alike, or is a second segment.
LEMMA GrantDecidedAlike ==
    ASSUME EInv, live, NEW r \in Seg!GrantReq, Seg!ummu_check_data(r)
    PROVE  LET d    == Seg!ummu_perm_data_preproc(r)
               mine == ummu_entry_param_check(node, d)
               seg  == Seg!ummu_grant_check(Segments, d)
           IN  \/ mine = seg
               \/ node.valid = 1 /\ seg = Seg!UMMU_GRANT /\ mine = Seg!UMMU_OP_END
<1> DEFINE d == Seg!ummu_perm_data_preproc(r)
           mine == ummu_entry_param_check(node, d)
           seg == Seg!ummu_grant_check(Segments, d)
           s == SegOf(node)
<1>1. d.base \in Nat /\ d.size - 1 \in Nat
  BY CheckedGrant
<1> HIDE DEF d
<1> SUFFICES \/ mine = seg
             \/ node.valid = 1 /\ seg = Seg!UMMU_GRANT /\ mine = Seg!UMMU_OP_END
  BY DEF d
<1>2. node.valid \in {0, 1}
  BY DEF EInv, TypeOK, EntryNode
<1>3. CASE node.valid = 0
  <2>1. Segments = {}
    BY <1>3 DEF Segments
  <2>2. seg = Seg!UMMU_GRANT
    BY <2>1, EmptyTable DEF Seg!ummu_grant_check, Seg!RANGE_NOT_EXIST, Seg!RANGE_MATCH
  <2>3. mine = Seg!UMMU_GRANT
    BY <1>3 DEF ummu_entry_param_check
  <2> QED BY <2>2, <2>3
<1>4. CASE /\ node.valid = 1
           /\ node.base = d.base /\ node.limit = d.base + (d.size - 1)
  <2>1. Seg!ummu_find_seg(d.base, d.size - 1, Segments) =
            [data |-> {s}, comp |-> Seg!RANGE_MATCH]
    BY <1>1, <1>4, GrantedEntry, SegOfFields, SingleFind
  <2>2. (CHOOSE e \in {s} : TRUE) = s
    OBVIOUS
  <2>3. seg = Seg!ummu_table_param_check(s, d)
    BY <2>1, <2>2 DEF Seg!ummu_grant_check, Seg!RANGE_MATCH, Seg!RANGE_NOT_EXIST
  <2>4. mine = IF /\ node.token_check = 1 /\ d.token_check = 1
                  /\ node.attr = d.attr /\ node.nonce = 1
               THEN Seg!UMMU_ADD_TOKEN ELSE Seg!UMMU_OP_END
    BY <1>4 DEF ummu_entry_param_check
  <2> QED BY <2>3, <2>4, SegOfFields DEF Seg!ummu_table_param_check
<1>5. CASE /\ node.valid = 1
           /\ ~(node.base = d.base /\ node.limit = d.base + (d.size - 1))
  <2>1. Seg!ummu_find_seg(d.base, d.size - 1, Segments).comp
            \in {Seg!RANGE_NOT_EXIST, Seg!RANGE_OVERLAP}
    BY <1>1, <1>5, GrantedEntry, SegOfFields, SingleFind
  <2>2. seg \in {Seg!UMMU_GRANT, Seg!UMMU_OP_END}
    BY <2>1 DEF Seg!ummu_grant_check, Seg!RANGE_NOT_EXIST, Seg!RANGE_MATCH,
                Seg!RANGE_OVERLAP
  <2>3. mine = Seg!UMMU_OP_END
    BY <1>5 DEF ummu_entry_param_check
  <2> QED BY <1>5, <2>2, <2>3
<1> QED BY <1>2, <1>3, <1>4, <1>5

\* A checked ungrant is decided alike.
LEMMA UngrantDecidedAlike ==
    ASSUME EInv, live, NEW u \in Seg!UngrantReq, Seg!ummu_ungrant_data_check(u)
    PROVE  ummu_entry_ungrant_param_check(node, u) = Seg!ummu_ungrant_check(Segments, u)
<1> DEFINE mine == ummu_entry_ungrant_param_check(node, u)
           seg == Seg!ummu_ungrant_check(Segments, u)
           s == SegOf(node)
<1>1. u.base \in Nat /\ u.size - 1 \in Nat
  BY CheckedUngrant
<1>2. node.valid \in {0, 1} /\ node.token_check \in {0, 1}
  BY DEF EInv, TypeOK, EntryNode
<1>3. CASE node.valid = 0
  <2>1. Segments = {}
    BY <1>3 DEF Segments
  <2>2. seg = Seg!UMMU_OP_END
    BY <2>1, EmptyTable DEF Seg!ummu_ungrant_check, Seg!RANGE_NOT_EXIST, Seg!RANGE_MATCH
  <2>3. mine = Seg!UMMU_OP_END
    BY <1>3 DEF ummu_entry_ungrant_param_check, EntryMatch
  <2> QED BY <2>2, <2>3
<1>4. CASE /\ node.valid = 1
           /\ node.base = u.base /\ node.limit = u.base + (u.size - 1)
  <2>1. Seg!ummu_find_seg(u.base, u.size - 1, Segments) =
            [data |-> {s}, comp |-> Seg!RANGE_MATCH]
    BY <1>1, <1>4, GrantedEntry, SegOfFields, SingleFind
  <2>2. (CHOOSE e \in {s} : TRUE) = s
    OBVIOUS
  <2>3. seg = Seg!ummu_ungrant_param_check(s, u)
    BY <2>1, <2>2 DEF Seg!ummu_ungrant_check
  <2>4. EntryMatch(node, u)
    BY <1>4 DEF EntryMatch
  <2>5. TokenMatch(node, u) <=> s.token_check # 0 /\ u.tokenval \in {s.tok0, s.tok1}
    BY <1>2, SegOfFields DEF TokenMatch
  <2>6. s.token_count = node.nonce
    BY SegOfFields
  <2> QED BY <2>3, <2>4, <2>5, <2>6
          DEF ummu_entry_ungrant_param_check, Seg!ummu_ungrant_param_check,
              Seg!UMMU_MAX_TOKEN_NUM
<1>5. CASE /\ node.valid = 1
           /\ ~(node.base = u.base /\ node.limit = u.base + (u.size - 1))
  <2>1. Seg!ummu_find_seg(u.base, u.size - 1, Segments).comp
            \in {Seg!RANGE_NOT_EXIST, Seg!RANGE_OVERLAP}
    BY <1>1, <1>5, GrantedEntry, SegOfFields, SingleFind
  <2>2. seg = Seg!UMMU_OP_END
    BY <2>1 DEF Seg!ummu_ungrant_check, Seg!RANGE_NOT_EXIST, Seg!RANGE_MATCH,
                Seg!RANGE_OVERLAP
  <2>3. mine = Seg!UMMU_OP_END
    BY <1>5 DEF ummu_entry_ungrant_param_check, EntryMatch
  <2> QED BY <2>2, <2>3
<1> QED BY <1>2, <1>3, <1>4, <1>5

\* In every reachable state the entry alone is enough to decide a request as
\* the segment table would.
THEOREM EntryDecidesAlike == Spec => []DecidesAsSegMng
<1>1. EInv => DecidesAsSegMng
  BY GrantDecidedAlike, UngrantDecidedAlike DEF DecidesAsSegMng
<1> QED BY <1>1, EInvInvariant, PTL
==============================================================================
