------------------------------ MODULE MaptTable ------------------------------
(***************************************************************************)
(* The multi-level permission table of one tid in table mode, as           *)
(* ummu_grant, ummu_ungrant and ummu_free_tid use it.  Each call holds the *)
(* tid's mapt_mutex from its check to its last update and is one step.     *)
(* The device reads the table between calls.                               *)
(***************************************************************************)
EXTENDS LevelBlock

CONSTANTS
    Expan,      \* which values of HW_CAP_EXPAN occur
    MemFaults,  \* whether mapping a buffer may fail
    RecFaults,  \* whether the calloc of a segment record may fail
    Base, Size, Attr, Token, NoToken, GrantToken  \* see SegMng

ASSUME FlagAssumption  == /\ {MemFaults, RecFaults} \subseteq BOOLEAN
                          /\ Expan \subseteq BOOLEAN /\ Expan # {}
ASSUME InputAssumption == /\ Base \subseteq Nat /\ Size \subseteq Nat
                          /\ GrantToken \subseteq Token \cup {NoToken}
ASSUME AttrAssumption  == BadAttr \notin Attr
ASSUME TokenAssumption == ZeroToken \in Token /\ NoToken \notin Token

VARIABLES
    node,    \* the nodes of the mapped blocks
    bitmap,  \* level_block_bitmap: the level block ids in use
    expan,   \* more than one mapt block is allowed
    block,   \* the mapped mapt blocks: level_cnt and level_entry_cnt
    segs,    \* granted_addr_mng
    live,    \* the tid is in mapt_map
    stale    \* addresses whose entry in the device's PLB may be out of date

vars == <<node, bitmap, expan, block, segs, live, stale>>

\* Here and below the instance is of the module with the theorems, so that
\* they can be cited; what the actions use is in SegMng and in TableLevel.
Seg == INSTANCE SegMng_proofs WITH MaxAddr <- LastAddr

-----------------------------------------------------------------------------
(* The four levels.  Beyond MAX_LEVEL_INDEX every function returns at once. *)

NoSwap(x, n) == x
NoFill(x, d, pre, lo, hi) == Fail(x)
NoClear(x, pre, lo, hi) == Fail(x)
NoUpdate(x, d, op, pre, lo, hi) == Fail(x)

Level3 == INSTANCE TableLevel_proofs WITH level <- 3,
    SwapBelow <- NoSwap, FillBelow <- NoFill, ClearBelow <- NoClear,
    UpdateBelow <- NoUpdate
Level2 == INSTANCE TableLevel_proofs WITH level <- 2,
    SwapBelow <- Level3!ummu_swap_next_level_node,
    FillBelow <- Level3!ummu_table_fill_node_by_level,
    ClearBelow <- Level3!ummu_table_clear_node_by_level,
    UpdateBelow <- Level3!ummu_table_update_token_by_level
Level1 == INSTANCE TableLevel_proofs WITH level <- 1,
    SwapBelow <- Level2!ummu_swap_next_level_node,
    FillBelow <- Level2!ummu_table_fill_node_by_level,
    ClearBelow <- Level2!ummu_table_clear_node_by_level,
    UpdateBelow <- Level2!ummu_table_update_token_by_level
Level0 == INSTANCE TableLevel_proofs WITH level <- 0,
    SwapBelow <- Level1!ummu_swap_next_level_node,
    FillBelow <- Level1!ummu_table_fill_node_by_level,
    ClearBelow <- Level1!ummu_table_clear_node_by_level,
    UpdateBelow <- Level1!ummu_table_update_token_by_level

NotUndone(fill, lo, hi) == fill
\* A grant that fails half way is undone by clearing its range.
Undone(fill, lo, hi) ==
    IF fill.ret = "ok" THEN fill
    ELSE Fail(Level0!ummu_table_clear_node_by_level([fill EXCEPT !.ret = "ok"], Root, lo, hi))

ummu_table_op(x, d, op) ==
    LET hi == d.base + d.size - 1
    IN  CASE op = UMMU_GRANT ->
               Undone(Level0!ummu_table_fill_node_by_level(x, d, Root, d.base, hi), d.base, hi)
          [] op \in {UMMU_ADD_TOKEN, UMMU_REMOVE_TOKEN} ->
               Level0!ummu_table_update_token_by_level(x, d, op, Root, d.base, hi)
          [] op = UMMU_UNGRANT ->
               Level0!ummu_table_clear_node_by_level(x, Root, d.base, hi)

-----------------------------------------------------------------------------
(* The device.                                                             *)

\* What a node, or a segment record, allows.
Access(m) == [attr |-> m.attr, token_check |-> m.token_check,
              tokens |-> IF m.token_check = 1 THEN {m.tok0, m.tok1} ELSE {}]

\* The device reads one node per level, from level block 0 on.
Walk == INSTANCE Iteration WITH Step <- MatchNode

\* The node the device matches for an address, with its level: none or one.
Match(nodes, addr) ==
    Walk!Iterate([id |-> 0, stop |-> FALSE, hit |-> {}],
                 [nodes |-> nodes, addr |-> addr], LastLevel + 1).hit

\* What the PLB keeps of a match: where it was found and what it allows.
Entry(match) == {[level |-> m[1], base |-> m[2].base, limit |-> m[2].limit,
                  access |-> Access(m[2])] : m \in match}

\* The PLB may hold a match for any address since the last invalidation that
\* covered the address.
Outdated(old, new) == old # {} /\ Entry(new) # Entry(old)
StaleAfter(nodes, plbi) ==
    {a \in (0 .. LastAddr) \ plbi :
        a \in stale \/ Outdated(Match(node, a), Match(nodes, a))}

-----------------------------------------------------------------------------
(* The calls.                                                              *)

\* The table as an operation starts with it: a zeroed root node on the stack.
Table(mem) == [node |-> With(node, {Root}, ZeroNode), bitmap |-> bitmap,
               block |-> block, expan |-> expan, mem |-> mem,
               lvl |-> LastLevel, ret |-> "ok"]

Stored(x, plbi) ==
    /\ node' = Without(x.node, {Root})
    /\ bitmap' = x.bitmap
    /\ block' = x.block
    /\ stale' = StaleAfter(x.node, plbi)

\* A pass of the loop that shifts temp to zero and counts the shifts.  covered
\* is 2 ^ idx: the addresses a PLBI_VA command with that range covers.
ShiftPass(y, c, k) ==
    IF y.temp = 0 THEN y ELSE [temp |-> y.temp \div 2, covered |-> 2 * y.covered]
Shift == INSTANCE Iteration WITH Step <- ShiftPass

\* size - 1 needs less than size shifts.
get_minist_log2size_range(size) ==
    Shift!Iterate([temp |-> IF size > 0 THEN size - 1 ELSE 0, covered |-> 1], {}, size).covered

ummu_plbi_va_cmd(base, size) == base .. base + get_minist_log2size_range(size) - 1

PlbiNotRounded(u, lvl) == ummu_plbi_va_cmd(u.base, u.size)
UngrantPlbi(u, lvl) ==
    LET s == Span(IF lvl # 0 THEN lvl - 1 ELSE 0)
        size == u.size + (u.base % s)
    IN  ummu_plbi_va_cmd(u.base - (u.base % s), ((size + s - 1) \div s) * s)

\* cap_expan: what the kernel reports of HW_CAP_EXPAN.
ummu_mapt_table_ctx_init(cap_expan) ==
    ummu_alloc_level_block([node |-> [n \in {Root} |-> ZeroNode],
        bitmap |-> NoBits(MAX_LEVEL_ID_SIZE), block |-> [b \in {} |-> 0],
        expan |-> cap_expan, mem |-> 1, lvl |-> LastLevel, ret |-> "ok"], Root, -1)

Init == \E cap_expan \in Expan :
            LET x == ummu_mapt_table_ctx_init(cap_expan)
            IN  /\ node = Without(x.node, {Root})
                /\ bitmap = x.bitmap /\ block = x.block /\ expan = x.expan
                /\ segs = {} /\ live = TRUE /\ stale = {}

ummu_allocate_tid ==
    /\ ~live
    /\ \E cap_expan \in Expan :
         LET x == ummu_mapt_table_ctx_init(cap_expan)
         IN  /\ node' = Without(x.node, {Root})
             /\ bitmap' = x.bitmap /\ block' = x.block /\ expan' = x.expan
    /\ live' = TRUE
    /\ UNCHANGED <<segs, stale>>

\* mem: the buffers the kernel maps before it refuses one.
MemChoices == IF MemFaults THEN 0 .. 2 ELSE {Blocks}

ummu_grant(r, mem, rec_fault) ==
    LET d  == Seg!ummu_perm_data_preproc(r)
        op == Seg!ummu_grant_check(segs, d)
        x  == ummu_table_op(Table(mem), d, op)
    IN  /\ live /\ Seg!ummu_check_data(r)
        /\ op # UMMU_OP_END
        /\ Stored(x, IF op = UMMU_ADD_TOKEN \/ x.ret # "ok"
                     THEN ummu_plbi_va_cmd(r.base, r.size) ELSE {})
        /\ segs' = IF x.ret = "ok" /\ ~(rec_fault /\ op = UMMU_GRANT)
                   THEN Seg!ummu_update_info(op, segs, d).table ELSE segs
        /\ UNCHANGED <<live, expan>>

ummu_ungrant(u) ==
    LET op == Seg!ummu_ungrant_check(segs, u)
        x  == ummu_table_op(Table(0), u, op)
    IN  /\ live /\ Seg!ummu_ungrant_data_check(u)
        /\ op # UMMU_OP_END
        /\ Stored(x, IF op = UMMU_UNGRANT THEN UngrantPlbi(u, x.lvl)
                     ELSE ummu_plbi_va_cmd(u.base, u.size))
        /\ segs' = IF x.ret = "ok" THEN Seg!ummu_update_info(op, segs, u).table
                   ELSE segs
        /\ UNCHANGED <<live, expan>>

\* ummu_mapt_table_ctx_uninit: the blocks are found through the bitmap bit of
\* their first level block; queue destruction invalidates everything.
ummu_free_tid ==
    LET ids   == FOR_EACH_SET_BIT(bitmap, MAX_LEVEL_ID_SIZE)
        freed == {BlockOf(id) : id \in {i \in ids : i % Per = 0}}
    IN  /\ live
        /\ block' = Without(block, freed)
        /\ node' = [n \in {m \in DOMAIN node : BlockOf(m[1]) \notin freed} |-> node[n]]
        /\ bitmap' = NoBits(MAX_LEVEL_ID_SIZE) /\ segs' = {}
        /\ live' = FALSE /\ stale' = {} /\ UNCHANGED expan

Next == \/ \E r \in Seg!GrantReq, mem \in MemChoices, fault \in {FALSE, RecFaults} :
               ummu_grant(r, mem, fault)
        \/ \E u \in Seg!UngrantReq : ummu_ungrant(u)
        \/ ummu_free_tid
        \/ ummu_allocate_tid

Spec == Init /\ [][Next]_vars

-----------------------------------------------------------------------------
(* What must hold.                                                         *)

Node == [valid : {0, 1}, type : {0, 1}, next : 0 .. MAX_LEVEL_ID_SIZE - 1,
         next_block : {0, 1}, base : 0 .. LastAddr, limit : 0 .. LastAddr,
         attr : Attr \cup {BadAttr}, token_check : {0, 1},
         nonce : 0 .. UMMU_MAX_TOKEN_NUM, tok0 : Token, tok1 : Token]

\* The nodes are those of the mapped blocks, every field is in range, and no
\* 16-bit entry counter has wrapped below zero or exceeds a level block.
TypeOK ==
    /\ DOMAIN block \subseteq 0 .. Blocks - 1
    /\ DOMAIN node = UNION {NodesOf(b) : b \in DOMAIN block}
    /\ \A n \in DOMAIN node : node[n] \in Node
    /\ \A b \in DOMAIN block :
         block[b] \in [level_cnt : 0 .. Per, entry_cnt : [0 .. Per - 1 -> 0 .. Fan]]
    /\ bitmap \in [DOMAIN NoBits(MAX_LEVEL_ID_SIZE) -> SUBSET BitsOfWord]
    /\ expan \in BOOLEAN
    /\ live \in BOOLEAN /\ stale \subseteq 0 .. LastAddr

\* The device grants exactly what the segment manager records, with the same
\* permission and the same tokens at every address, after any sequence of
\* calls, failed ones included: splitting a segment over nodes and levels,
\* pulling nodes up when an outer segment goes away, and undoing a grant that
\* ran out of memory half way lose, keep or mix up nothing.
DeviceMatchesSegments ==
    live => \A a \in 0 .. LastAddr :
        {Access(m[2]) : m \in Match(node, a)} =
            {Access(s) : s \in {t \in segs : t.left <= a /\ a <= t.right}}

\* Level blocks the root level reaches through valid nodes, root included.
Children(ids) == {node[n].next : n \in {m \in ids \X (0 .. Fan - 1) :
                                        node[m].valid = 1 /\ node[m].type = 0}}
Below(ids) == ids \cup Children(ids)
Reach(depth) == CASE depth = 0 -> {0}
                  [] depth = 1 -> Below({0})
                  [] depth = 2 -> Below(Below({0}))
                  [] depth = 3 -> Below(Below(Below({0})))
ValidIn(id) == {i \in 0 .. Fan - 1 : node[<<id, i>>].valid = 1}

Used == Ones(bitmap, MAX_LEVEL_ID_SIZE)

\* The allocator and the table agree: a level block is marked in the bitmap
\* exactly when the table reaches it, is reached once, and is not empty unless
\* it is the root; the entry and level counters that decide when to free are
\* the numbers of valid nodes and of marked level blocks, and a mapt block is
\* mapped exactly while it holds a level block.
LevelAccounting ==
    live =>
    /\ Used = Reach(LastLevel)
    /\ \A id \in Used :
         /\ block[BlockOf(id)].entry_cnt[id % Per] = Cardinality(ValidIn(id))
         /\ id # 0 => /\ ValidIn(id) # {}
                      /\ Cardinality({n \in Used \X (0 .. Fan - 1) :
                              /\ node[n].valid = 1 /\ node[n].type = 0
                              /\ node[n].next = id}) = 1
    /\ DOMAIN block = {BlockOf(id) : id \in Used}
    /\ \A b \in DOMAIN block :
         block[b].level_cnt = Cardinality({id \in Used : BlockOf(id) = b})

\* The device follows next_block: a node with a next level sets it exactly
\* when that level is in another block than the node itself.
NextBlockFlag ==
    live => \A id \in Used : \A i \in ValidIn(id) :
        node[<<id, i>>].next_block =
            IF node[<<id, i>>].type = 0 /\ BlockOf(node[<<id, i>>].next) # BlockOf(id)
            THEN 1 ELSE 0

\* A recorded segment can always be taken back: clearing it, or removing one
\* of its tokens, never meets one of the "Unexpected failed" errors, whatever
\* shape earlier calls left the table in.
UngrantSucceeds ==
    live => \A s \in segs :
        LET d(tok) == [base |-> s.left, size |-> s.right - s.left + 1, tokenval |-> tok]
        IN  /\ ummu_table_op(Table(0), d(s.tok0), UMMU_UNGRANT).ret = "ok"
            /\ s.token_count = UMMU_MAX_TOKEN_NUM =>
                 \A tok \in {s.tok0, s.tok1} :
                   ummu_table_op(Table(0), d(tok), UMMU_REMOVE_TOKEN).ret = "ok"
            /\ s.token_count = 1 =>
                 \A tok \in Token :
                   ummu_table_op(Table(0), d(tok), UMMU_ADD_TOKEN).ret = "ok"

\* Once a tid is freed no buffer of its table stays mapped.
AllBlocksReleased == ~live => DOMAIN block = {}

\* No call leaves an entry in the device's PLB that the table no longer
\* backs: every address whose matched node is changed, moved to another level
\* or removed lies in the range the same call invalidates, as it is rounded to
\* the parent level and to a power of two.
NoStalePlb == stale = {}

\* A call that fails leaves no trace: the level blocks in use, every valid node
\* in them and the mapped mapt blocks are those of before the call, at whatever
\* place of the walk the level blocks or the buffers ran out, although the
\* cleanup clears by range and pulls nodes up where it frees.
Tree == [id \in Used |-> [k \in ValidIn(id) |-> node[<<id, k>>]]]
FailedCallsUndone ==
    [][live /\ live' /\ segs' = segs => Tree' = Tree /\ DOMAIN block' = DOMAIN block]_vars

\* ummu_free_tid leaves mapped exactly the mapt blocks the device reaches
\* without their first level block; none after every segment was ungranted.
FreeUnmaps ==
    [][live /\ ~live' =>
        /\ DOMAIN block' = {b \in DOMAIN block : Per * b \notin Reach(LastLevel)}
        /\ segs = {} => DOMAIN block' = {}]_vars
==============================================================================
