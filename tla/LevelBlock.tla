----------------------------- MODULE LevelBlock ------------------------------
(***************************************************************************)
(* The level blocks of a permission table and their nodes: the allocator   *)
(* of ummu_level_block.c and the operations of ummu_mapt.c on one node.    *)
(*                                                                         *)
(* A node is addressed <<level block id, index>>; the id stands for the    *)
(* pair (next_lv_index, next_lv_offset) of the node that points to it.     *)
(* Root is the zeroed node on the stack of ummu_table_op, which points to  *)
(* level block 0.  The nodes of a block exist while its buffer is mapped,  *)
(* so an access to an unmapped buffer is an error TLC reports.             *)
(*                                                                         *)
(* An operation is a function of a record x that carries the table (node,  *)
(* bitmap, block, expan), the number of buffers the kernel will still map  *)
(* in this call (mem), the level for the invalidation (lvl) and the return *)
(* code (ret).                                                             *)
(***************************************************************************)
EXTENDS Integers, FiniteSets, FiniteSetsExt, Bitmap, GrantOp

CONSTANTS
    Fan,        \* MAX_MAPT_ENTRY_INDEX: nodes of a level block
    LastLevel,  \* MAX_LEVEL_INDEX
    Per,        \* PER_MAPT_LEVEL_BLOCK_CNT: level blocks of a mapt block
    Blocks,     \* INDEX_MAX_SIZE: entries of mapt_block_array
    Page, BadAttr, ZeroToken    \* see SegMng

ASSUME FanAssumption   == Fan \in Nat \ {0, 1} /\ LastLevel \in 0 .. 3
ASSUME BlockAssumption == Per \in Nat \ {0} /\ Blocks \in Nat \ {0}
ASSUME PageAssumption  == Page \in Nat \ {0}

\* GET_LEVEL_RANGE_MASK(level) + 1: what a node of the level covers.
Span(level) == CASE level = LastLevel     -> Page
                 [] level = LastLevel - 1 -> Fan * Page
                 [] level = LastLevel - 2 -> Fan * (Fan * Page)
                 [] level = LastLevel - 3 -> Fan * (Fan * (Fan * Page))
GET_LEVEL_BLOCK_INDEX(addr, level) == (addr \div Span(level)) % Fan
LastAddr == Fan * Span(0) - 1

\* A zeroed ummu_mapt_table_node; the permission 0 is no valid one.
ZeroNode == [valid |-> 0, type |-> 0, next |-> 0, next_block |-> 0,
             base |-> 0, limit |-> 0, attr |-> BadAttr, token_check |-> 0,
             nonce |-> 0, tok0 |-> ZeroToken, tok1 |-> ZeroToken]
Root == <<-1, 0>>
BlockOf(id) == id \div Per
MAX_LEVEL_ID_SIZE == Per * Blocks
NodesOf(b) == (Per * b .. Per * b + Per - 1) \X (0 .. Fan - 1)

Fail(x) == [x EXCEPT !.ret = "error"]

\* f, and v for the new arguments in S.
With(f, S, v) == [k \in DOMAIN f \cup S |-> IF k \in DOMAIN f THEN f[k] ELSE v]
Without(f, S) == [k \in DOMAIN f \ S |-> f[k]]

-----------------------------------------------------------------------------
(* ummu_level_block.c                                                      *)

\* Without HW_CAP_EXPAN only block 0 is allowed.
ummu_alloc_new_mapt_block(x, b) ==
    IF (b # 0 /\ ~x.expan) \/ x.mem = 0 THEN Fail(x)
    ELSE [x EXCEPT !.mem = @ - 1,
                   !.node = With(@, NodesOf(b), ZeroNode),
                   !.block = With(@, {b}, [level_cnt |-> 0,
                                           entry_cnt |-> [k \in 0 .. Per - 1 |-> 0]])]

\* next_block tells the device that the next level is not in the node's block.
FlagNewBlockOnly(new, pre_block, b) == IF new THEN 1 ELSE 0
NextBlock(new, pre_block, b) == IF new \/ pre_block # b THEN 1 ELSE 0

\* The first free level block id; its mapt block is mapped when it is not
\* there yet.
ummu_alloc_level_block(x, pre, pre_block) ==
    LET id  == find_first_zero_bit(x.bitmap, MAX_LEVEL_ID_SIZE)
        b   == BlockOf(id)
        new == b \notin DOMAIN x.block
        y   == [x EXCEPT !.node[pre].next_block = 0]
        z   == IF new THEN ummu_alloc_new_mapt_block(y, b) ELSE y
    IN  IF id >= MAX_LEVEL_ID_SIZE THEN Fail(x)
        ELSE IF z.ret # "ok" THEN z
        ELSE [z EXCEPT !.node[pre].next = id,
                       !.node[pre].next_block = NextBlock(new, pre_block, b),
                       !.bitmap = ummu_set_bit(id, z.bitmap),
                       !.block[b].level_cnt = @ + 1]

FreeKeepsBit(x, pre) ==
    LET b == BlockOf(x.node[pre].next)
    IN  IF x.node[pre].next = 0 THEN x
        ELSE [x EXCEPT !.block[b].level_cnt = @ - 1]

\* Level block 0, the root level, is never given back.
ummu_free_level_block(x, pre) ==
    LET id == x.node[pre].next
        b  == BlockOf(id)
        y  == IF id = 0 THEN x
              ELSE [x EXCEPT !.block[b].level_cnt = @ - 1, !.bitmap = ummu_clear_bit(id, @)]
    IN  IF y.block[b].level_cnt = 0 /\ Cardinality(DOMAIN y.block) > 1
        THEN [y EXCEPT !.block = Without(@, {b}), !.node = Without(@, NodesOf(b))]
        ELSE y

-----------------------------------------------------------------------------
(* Nodes.                                                                  *)

ummu_table_fill_node(n, base, limit, d) ==
    LET m == [n EXCEPT !.type = 1, !.attr = d.attr, !.base = base, !.limit = limit,
                       !.token_check = d.token_check, !.valid = 1]
    IN  IF d.token_check # 1 THEN m
        ELSE [m EXCEPT !.tok0 = d.tokenval, !.tok1 = d.tokenval, !.nonce = 1]

ummu_modify_entry_cnt(x, id, cnt) ==
    [x EXCEPT !.block[BlockOf(id)].entry_cnt[id % Per] = @ + cnt]

\* One entry of the level block id that pre points to is gone; an empty level
\* block is freed and pre becomes a leaf.
DropEntry(x, id, pre) ==
    LET y == ummu_modify_entry_cnt(x, id, -1)
    IN  IF y.block[BlockOf(id)].entry_cnt[id % Per] # 0 THEN y
        ELSE [ummu_free_level_block(y, pre)
                 EXCEPT !.node[pre].type = 1, !.node[pre].next_block = 0,
                        !.node[pre].next = 0]

SwapKeepsNonce(n, next, idx, level) ==
    [next EXCEPT !.base = @ + idx * Span(level + 1),
                 !.limit = @ + idx * Span(level + 1),
                 !.valid = n.valid, !.type = n.type, !.nonce = n.nonce,
                 !.next = n.next, !.next_block = n.next_block]
SwapAtOwnLevel(n, next, idx, level) ==
    [next EXCEPT !.base = @ + idx * Span(level), !.limit = @ + idx * Span(level),
                 !.valid = n.valid, !.type = n.type,
                 !.next = n.next, !.next_block = n.next_block]
ummu_swap_node_info(n, next, idx, level) ==
    [next EXCEPT !.base = @ + idx * Span(level + 1),
                 !.limit = @ + idx * Span(level + 1),
                 !.valid = n.valid, !.type = n.type,
                 !.next = n.next, !.next_block = n.next_block]

ummu_add_token(x, n, d) ==
    IF x.node[n].valid = 1 /\ x.node[n].nonce = 1
    THEN [x EXCEPT !.node[n].tok1 = d.tokenval, !.node[n].nonce = UMMU_MAX_TOKEN_NUM]
    ELSE Fail(x)

ummu_remove_token(x, n, d) ==
    LET m == x.node[n]
    IN  CASE m.tok0 = d.tokenval ->
               [x EXCEPT !.node[n].tok0 = m.tok1, !.node[n].nonce = 1]
          [] m.tok0 # d.tokenval /\ m.tok1 = d.tokenval ->
               [x EXCEPT !.node[n].tok1 = m.tok0, !.node[n].nonce = 1]
          [] OTHER -> Fail(x)

ummu_update_token(x, n, d, op) ==
    IF op = UMMU_ADD_TOKEN THEN ummu_add_token(x, n, d) ELSE ummu_remove_token(x, n, d)

-----------------------------------------------------------------------------
(* What the walks of ummu_mapt.c over the levels share.                    *)

\* A walk goes no deeper than the last level and needs the block of the level.
NoLevel(x, level, pre) ==
    level > LastLevel \/ BlockOf(x.node[pre].next) \notin DOMAIN x.block

\* What the loop over the nodes of a level reads: the level block pre points
\* to, the range, and the request.
Scan(x, pre, lo, hi, d, op) ==
    [id |-> x.node[pre].next, pre |-> pre, lo |-> lo, hi |-> hi, d |-> d, op |-> op]

NodeCount(level, lo, hi) ==
    GET_LEVEL_BLOCK_INDEX(hi, level) - GET_LEVEL_BLOCK_INDEX(lo, level) + 1

\* The k-th node of a scan with the part of the range that falls on it.  mid:
\* neither the first nor the last one.
NthNode(level, c, k) ==
    LET first == GET_LEVEL_BLOCK_INDEX(c.lo, level)
        last  == GET_LEVEL_BLOCK_INDEX(c.hi, level)
        i     == first + k - 1
    IN  [n |-> <<c.id, i>>, mid |-> first < i /\ i < last,
         lo |-> IF i = first THEN c.lo % Span(level) ELSE 0,
         hi |-> IF i = last THEN c.hi % Span(level) ELSE Span(level) - 1]

\* MAX_MAPT_ENTRY_INDEX << MAX_LEVEL_INDEX
max_loop == CASE LastLevel = 0 -> Fan
              [] LastLevel = 1 -> 2 * Fan
              [] LastLevel = 2 -> 4 * Fan
              [] LastLevel = 3 -> 8 * Fan

-----------------------------------------------------------------------------
(* The device.                                                             *)

\* What the device does with the node of level k - 1 that is on its way to
\* the address.  It stops at a node that covers the address (hit: the node and
\* its level), and goes down from any other valid node that has a next level.
MatchNode(y, c, k) ==
    LET l == k - 1
        n == c.nodes[<<y.id, GET_LEVEL_BLOCK_INDEX(c.addr, l)>>]
        o == c.addr % Span(l)
    IN  IF y.stop THEN y
        ELSE IF n.valid = 1 /\ n.base <= o /\ o <= n.limit
        THEN [id |-> y.id, stop |-> TRUE, hit |-> {<<l, n>>}]
        ELSE [id |-> n.next, stop |-> n.valid = 0 \/ n.type = 1, hit |-> {}]
==============================================================================
