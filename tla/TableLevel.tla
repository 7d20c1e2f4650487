----------------------------- MODULE TableLevel ------------------------------
(***************************************************************************)
(* The recursive functions of ummu_mapt.c over the levels of the table, as *)
(* they run at one level.  What they call for the level below is a         *)
(* parameter: MaptTable puts the four levels together.                     *)
(***************************************************************************)
EXTENDS LevelBlock

CONSTANTS
    level,
    SwapBelow(_, _),                \* the same functions at level + 1
    FillBelow(_, _, _, _, _),
    ClearBelow(_, _, _, _),
    UpdateBelow(_, _, _, _, _, _)

\* The content of n is replaced by that of its first valid child, and so on
\* down to a leaf, which disappears.
ummu_swap_next_level_node(x, n) ==
    LET id   == x.node[n].next
        kids == {i \in 0 .. Fan - 1 : x.node[<<id, i>>].valid = 1}
        k    == <<id, Min(kids)>>
        y    == [x EXCEPT !.node[n] = ummu_swap_node_info(@, x.node[k], k[2], level)]
    IN  IF level > LastLevel \/ BlockOf(id) \notin DOMAIN x.block THEN x
        ELSE IF kids = {} THEN x
        ELSE IF x.node[k].type = 0 THEN SwapBelow(y, k)
        ELSE DropEntry([y EXCEPT !.node[k].valid = 0, !.node[k].nonce = 0], id, n)

ummu_table_clear_node(x, n, pre) ==
    LET id == x.node[pre].next
    IN  IF BlockOf(id) \notin DOMAIN x.block THEN x
        ELSE IF x.node[n].type = 1
        THEN DropEntry([x EXCEPT !.node[n] = ZeroNode], id, pre)
        ELSE ummu_swap_next_level_node(x, n)

-----------------------------------------------------------------------------
(* Each walk scans the nodes its range touches in the level block that pre *)
(* points to; a pass after an error changes nothing.                       *)

FillNode(y, c, k) ==
    LET v    == NthNode(level, c, k)
        leaf == y.node[v.n].type = 1
        z    == IF leaf THEN ummu_alloc_level_block(y, v.n, BlockOf(c.id)) ELSE y
        w    == IF leaf THEN [z EXCEPT !.node[v.n].type = 0] ELSE y
    IN  IF y.ret # "ok" THEN y
        ELSE IF y.node[v.n].valid = 0
        THEN ummu_modify_entry_cnt([y EXCEPT !.node[v.n] =
                 ummu_table_fill_node(@, v.lo, v.hi, c.d)], c.id, 1)
        ELSE IF v.mid THEN Fail(y)
        ELSE IF z.ret # "ok" THEN z
        ELSE FillBelow(w, c.d, v.n, v.lo, v.hi)
FillScan == INSTANCE Iteration WITH Step <- FillNode

ummu_table_fill_node_by_level(x, d, pre, lo, hi) ==
    IF NoLevel(x, level, pre) THEN Fail(x)
    ELSE FillScan!Iterate(x, Scan(x, pre, lo, hi, d, UMMU_GRANT), NodeCount(level, lo, hi))

\* One pass of the do-while loop: go says whether there is another one, and
\* rest is where the range goes on.
Kept(x, n, pre) == x.node[pre].type = 0 /\ x.node[n].valid = 1
PassEnd(y, rest, c, k) ==
    IF k >= max_loop THEN [x |-> Fail(y), rest |-> rest, go |-> FALSE]
    ELSE [x |-> y, rest |-> rest,
          go |-> /\ Kept(y, c.n, c.pre)
                 /\ rest = y.node[c.n].base /\ y.node[c.n].limit <= c.hi]
ClearHeadPass(s, c, k) ==
    IF s.go THEN PassEnd(ummu_table_clear_node(s.x, c.n, c.pre),
                         s.x.node[c.n].limit + 1, c, k)
    ELSE s
ClearHead == INSTANCE Iteration WITH Step <- ClearHeadPass

\* What follows the loop: the rest of the range is cleared below the node.
ClearRest(s, pre, n, hi) ==
    IF s.x.ret = "ok" /\ Kept(s.x, n, pre) /\ s.rest <= hi /\ s.x.node[n].type = 0
    THEN ClearBelow(s.x, n, s.rest, hi)
    ELSE s.x

ClearHeadLoop(x, pre, n, hi) ==
    ClearRest(ClearHead!Iterate([x |-> x, rest |-> 0, go |-> TRUE],
                                [n |-> n, pre |-> pre, hi |-> hi], max_loop),
              pre, n, hi)

ummu_table_clear_head_node(x, pre, n, lo, hi) ==
    CASE x.node[n].base = lo ->
           ClearHeadLoop([x EXCEPT !.lvl = Min({@, level})], pre, n, hi)
      [] x.node[n].base # lo /\ x.node[n].type = 0 -> ClearBelow(x, n, lo, hi)
      [] OTHER -> Fail(x)

ClearNode(y, c, k) ==
    LET v == NthNode(level, c, k)
    IN  IF y.ret # "ok" THEN y
        ELSE IF y.node[v.n].valid = 0 THEN Fail(y)
        ELSE IF v.mid THEN ummu_table_clear_node(y, v.n, c.pre)
        ELSE ummu_table_clear_head_node(y, c.pre, v.n, v.lo, v.hi)
ClearScan == INSTANCE Iteration WITH Step <- ClearNode

ummu_table_clear_node_by_level(x, pre, lo, hi) ==
    IF NoLevel(x, level, pre) THEN Fail(x)
    ELSE ClearScan!Iterate(x, Scan(x, pre, lo, hi, <<>>, UMMU_UNGRANT),
                           NodeCount(level, lo, hi))

UpdateNode(y, c, k) ==
    LET v == NthNode(level, c, k)
        m == y.node[v.n]
        z == ummu_update_token(y, v.n, c.d, c.op)
    IN  IF y.ret # "ok" THEN y
        ELSE IF m.valid = 0 THEN Fail(y)
        ELSE IF v.mid THEN z
        ELSE IF m.base = v.lo /\ m.limit <= v.hi
        THEN IF z.ret = "ok" /\ m.type = 0 /\ m.limit < v.hi
             THEN UpdateBelow(z, c.d, c.op, v.n, m.limit + 1, v.hi)
             ELSE z
        ELSE IF m.type = 0 THEN UpdateBelow(y, c.d, c.op, v.n, v.lo, v.hi)
        ELSE Fail(y)
UpdateScan == INSTANCE Iteration WITH Step <- UpdateNode

ummu_table_update_token_by_level(x, d, op, pre, lo, hi) ==
    IF NoLevel(x, level, pre) THEN Fail(x)
    ELSE UpdateScan!Iterate(x, Scan(x, pre, lo, hi, d, op), NodeCount(level, lo, hi))
==============================================================================
