------------------------------ MODULE TableInv -------------------------------
(***************************************************************************)
(* What holds of a permission table between and inside the walks over it:  *)
(* the invariant behind the proofs about MaptTable.                        *)
(*                                                                         *)
(* x is the record the walks carry.  g says where in the address space a   *)
(* level block belongs: g.lev[id] is its level, and it is the g.num[id]-th *)
(* block of that level.  Then <<id, i>> is the Num(g, <<id, i>>)-th node   *)
(* of its level, and has the addresses a with Cell(level, a) = that.       *)
(***************************************************************************)
EXTENDS LevelBlock

Addr   == 0 .. LastAddr
Ids    == 0 .. MAX_LEVEL_ID_SIZE - 1
Index  == 0 .. Fan - 1
Levels == 0 .. LastLevel

Cell(l, a) == a \div Span(l)

UsedIds(x)     == Ones(x.bitmap, MAX_LEVEL_ID_SIZE)
Valid(x)       == {n \in UsedIds(x) \X Index : x.node[n].valid = 1}
ValidAt(x, id) == {i \in Index : x.node[<<id, i>>].valid = 1}
Nodes(x)       == {Root} \cup (UsedIds(x) \X Index)
Mapped(x)      == {id \in Ids : BlockOf(id) \in DOMAIN x.block}

Num(g, n)   == g.num[n[1]] * Fan + n[2]
Level(g, n) == g.lev[n[1]]

\* The level block is on the way to the address.
InBlock(g, id, a) == Cell(g.lev[id], a) \div Fan = g.num[id]

\* The addresses a node holds content for.
Lo(x, g, n) == Num(g, n) * Span(Level(g, n)) + x.node[n].base
Hi(x, g, n) == Num(g, n) * Span(Level(g, n)) + x.node[n].limit
Holds(x, g, n, a) == Lo(x, g, n) <= a /\ a <= Hi(x, g, n)

\* j: the node whose content is about to be overwritten; Root for none.
Cov(x, g, j, a) == \E n \in Valid(x) \ {j} : Holds(x, g, n, a)

-----------------------------------------------------------------------------
(* The records.                                                            *)

TableFields == {"node", "bitmap", "block", "expan", "mem", "lvl", "ret"}
NodeFields  == {"valid", "type", "next", "next_block", "base", "limit", "attr",
                "token_check", "nonce", "tok0", "tok1"}

IsNode(r) == /\ DOMAIN r = NodeFields /\ r = [f \in NodeFields |-> r[f]]
             /\ r.valid \in {0, 1} /\ r.type \in {0, 1} /\ r.next \in Ids
             /\ r.base \in Nat /\ r.limit \in Nat

IsBlock(r) == /\ DOMAIN r = {"level_cnt", "entry_cnt"}
              /\ r.level_cnt \in Nat /\ r.entry_cnt \in [0 .. Per - 1 -> Nat]

Shape(x) ==
    /\ DOMAIN x = TableFields
    /\ x.bitmap \in [0 .. BITS_TO_LONGS(MAX_LEVEL_ID_SIZE) - 1 -> SUBSET BitsOfWord]
    /\ \A b \in DOMAIN x.block : IsBlock(x.block[b])
    /\ DOMAIN x.node = {Root} \cup (Mapped(x) \X Index)
    /\ \A n \in DOMAIN x.node : IsNode(x.node[n])
    /\ x.node[Root].next = 0 /\ x.node[Root].valid = 0

\* The level blocks of a mapt block.
InMapt(U, b) == {id \in U : BlockOf(id) = b}

\* Bitmap, counters and mapped blocks agree.
Counted(x) ==
    /\ 0 \in UsedIds(x)
    /\ DOMAIN x.block = {BlockOf(id) : id \in UsedIds(x)}
    /\ \A b \in DOMAIN x.block :
         x.block[b].level_cnt = Cardinality(InMapt(UsedIds(x), b))
    /\ \A id \in Mapped(x) :
         /\ x.block[BlockOf(id)].entry_cnt[id % Per] = Cardinality(ValidAt(x, id))
         /\ id \notin UsedIds(x) => ValidAt(x, id) = {}

Flagged(x) ==
    \A n \in DOMAIN x.node \ {Root} :
        x.node[n].next_block =
            IF x.node[n].valid = 1 /\ x.node[n].type = 0
               /\ BlockOf(x.node[n].next) # BlockOf(n[1])
            THEN 1 ELSE 0

\* A bitmap for so many positions.
Words(size)      == 0 .. BITS_TO_LONGS(size) - 1
IsBitmap(a, size) == a \in [Words(size) -> SUBSET BitsOfWord]

\* v is the least position from k on that is in S, or there is none below size.
LeastFrom(v, S, k, size) == /\ v \in Nat
                            /\ v < size => v \in S /\ k <= v
                            /\ \A w \in S : k <= w => v <= w

-----------------------------------------------------------------------------
(* The tree.  e: a level block that may be empty; 0 for none.              *)

Placed(x, g) ==
    /\ g \in [lev : [Ids -> Nat], num : [Ids -> Nat]]
    /\ g.lev[0] = 0 /\ g.num[0] = 0
    /\ \A id \in UsedIds(x) : g.lev[id] \in Levels /\ (g.lev[id] = 0 => id = 0)
    /\ \A i, j \in UsedIds(x) : g.lev[i] = g.lev[j] /\ g.num[i] = g.num[j] => i = j

Linked(x, g) ==
    /\ \A n \in Valid(x) :
         x.node[n].type = 0 =>
             /\ x.node[n].next \in UsedIds(x)
             /\ g.lev[x.node[n].next] = Level(g, n) + 1
             /\ g.num[x.node[n].next] = Num(g, n)
    /\ \A id \in UsedIds(x) \ {0} :
         \E n \in Valid(x) : x.node[n].type = 0 /\ x.node[n].next = id

Filled(x, e) == \A id \in UsedIds(x) \ {0, e} : ValidAt(x, id) # {}

-----------------------------------------------------------------------------
(* The content.  T: the segments, no two with a page in common.            *)

Segments(T) ==
    /\ \A s \in T : s.left \in Addr /\ s.right \in Addr /\ s.left <= s.right
    /\ \A s, t \in T : \A a \in s.left .. s.right, b \in t.left .. t.right :
         Cell(LastLevel, a) = Cell(LastLevel, b) => s = t

\* a .. b is what the segment has in some cell, of level d, and the segment
\* does not fill the cell one level up.
PieceAt(s, a, b, d) ==
    /\ \A c \in s.left .. s.right : Cell(d, c) = Cell(d, a) <=> (a <= c /\ c <= b)
    /\ d # 0 => \E c \in Addr : /\ Cell(d - 1, c) = Cell(d - 1, a)
                                /\ c \notin s.left .. s.right
Piece(s, a, b) == \E d \in Levels : PieceAt(s, a, b, d)

Content(x, g, j, T) ==
    \A n \in Valid(x) \ {j} :
        /\ x.node[n].base <= x.node[n].limit /\ x.node[n].limit < Span(Level(g, n))
        /\ \E s \in T : /\ s.left <= Lo(x, g, n) /\ Hi(x, g, n) <= s.right
                        /\ Piece(s, Lo(x, g, n), Hi(x, g, n))

Disjoint(x, g, j) ==
    \A n, m \in Valid(x) \ {j} :
        n # m => Hi(x, g, n) < Lo(x, g, m) \/ Hi(x, g, m) < Lo(x, g, n)

\* What a node holds of a segment comes before what the nodes below it hold.
First(x, g, j, T) ==
    \A s \in T : \A n, m \in Valid(x) \ {j} :
        /\ Level(g, n) < Level(g, m) /\ Cell(Level(g, n), Lo(x, g, m)) = Num(g, n)
        /\ Lo(x, g, n) \in s.left .. s.right /\ Lo(x, g, m) \in s.left .. s.right
        => Lo(x, g, n) < Lo(x, g, m)

Agrees(s, r) == /\ r.attr = s.attr /\ r.token_check = s.token_check
                /\ s.token_check = 1 => /\ r.tok0 = s.tok0 /\ r.tok1 = s.tok1
                                        /\ r.nonce = s.token_count

Paid(x, g, j, T) ==
    \A s \in T : \A n \in Valid(x) \ {j} :
        Lo(x, g, n) \in s.left .. s.right => Agrees(s, x.node[n])

Sound(x, g, e) == /\ Shape(x) /\ Counted(x) /\ Flagged(x)
                  /\ Placed(x, g) /\ Linked(x, g) /\ Filled(x, e)
Holding(x, g, j, T) == /\ Segments(T) /\ Content(x, g, j, T) /\ Disjoint(x, g, j)
                       /\ First(x, g, j, T) /\ Paid(x, g, j, T)
Inv(x, g, j, e, T) == Sound(x, g, e) /\ Holding(x, g, j, T)

\* A code for the place of a piece: nothing for all of the cell; else which
\* of the cells that contain an end of the segment it is below, and its index
\* there.
PieceRow(s, l, a, d) == IF d = l + 1 THEN 0
                        ELSE 2 * (d - l) - 3 + (IF Cell(d - 1, a) = Cell(d - 1, s.left) THEN 0 ELSE 1)
PieceCode(s, l, a, d) == IF d <= l THEN 0 ELSE 1 + (PieceRow(s, l, a, d) * Fan + (Cell(d, a) % Fan))

-----------------------------------------------------------------------------
(* Steps.                                                                  *)

\* The records differ in nothing that the table is made of.
Alike(x, y) == /\ DOMAIN y = TableFields
               /\ y.node = x.node /\ y.bitmap = x.bitmap /\ y.block = x.block

\* pre is the node, or the root, through which a walk comes to the level block.
LeadsTo(x, pre, id) == /\ x.node[pre].next = id
                       /\ \/ pre = Root
                          \/ pre \in Valid(x) /\ x.node[pre].type = 0

\* The records differ at most in the node n.
Rewritten(x, z, n) == /\ DOMAIN z = TableFields
                      /\ z.bitmap = x.bitmap /\ z.block = x.block /\ z.ret = x.ret
                      /\ DOMAIN z.node = DOMAIN x.node
                      /\ \A m \in DOMAIN x.node \ {n} : z.node[m] = x.node[m]

\* All but where the next level is.
SameContent(r, s) == \A f \in NodeFields \ {"type", "next", "next_block"} : r[f] = s[f]

\* The node n has a next level; the level block id is its next level.
HasNext(z, n)     == [z EXCEPT !.node[n].type = 0]
Below(g, n, id)   == [g EXCEPT !.lev[id] = Level(g, n) + 1, !.num[id] = Num(g, n)]

\* The level block that pre leads to is given back.
Detach(x, pre) == [ummu_free_level_block(x, pre) EXCEPT
                     !.node[pre].type = 1, !.node[pre].next_block = 0, !.node[pre].next = 0]

\* z is x with the level block id taken for the node n.
Alloced(x, z, n, id) ==
    /\ id \in Ids \ UsedIds(x) /\ DOMAIN z = TableFields /\ z.ret = "ok"
    /\ z.bitmap \in [0 .. BITS_TO_LONGS(MAX_LEVEL_ID_SIZE) - 1 -> SUBSET BitsOfWord]
    /\ UsedIds(z) = UsedIds(x) \cup {id}
    /\ DOMAIN z.block = DOMAIN x.block \cup {BlockOf(id)} /\ IsBlock(z.block[BlockOf(id)])
    /\ \A b \in DOMAIN x.block \ {BlockOf(id)} : z.block[b] = x.block[b]
    /\ BlockOf(id) \in DOMAIN x.block =>
           /\ z.block[BlockOf(id)].level_cnt = x.block[BlockOf(id)].level_cnt + 1
           /\ z.block[BlockOf(id)].entry_cnt = x.block[BlockOf(id)].entry_cnt
    /\ BlockOf(id) \notin DOMAIN x.block =>
           /\ z.block[BlockOf(id)].level_cnt = 1
           /\ \A k \in 0 .. Per - 1 : z.block[BlockOf(id)].entry_cnt[k] = 0
    /\ DOMAIN z.node = DOMAIN x.node \cup NodesOf(BlockOf(id))
    /\ \A m \in DOMAIN x.node \ {n} : z.node[m] = x.node[m]
    /\ \A m \in DOMAIN z.node \ DOMAIN x.node : z.node[m] = ZeroNode
    /\ z.node[n] = [x.node[n] EXCEPT !.next = id, !.next_block =
                        IF BlockOf(id) = BlockOf(n[1]) THEN 0 ELSE 1]

\* n is the only valid node of its level block.
Alone(x, n) == \A m \in Valid(x) : m[1] = n[1] => m = n

\* y is x without the leaf n.  Its level block, to which pre leads, is given
\* back if it is then empty, the root level excepted, and pre is a leaf.
Dropped(x, y, n, pre) ==
    /\ y.ret = x.ret /\ UsedIds(y) \subseteq UsedIds(x) /\ Valid(y) = Valid(x) \ {n}
    /\ \A m \in Nodes(y) : m # n /\ m # pre => y.node[m] = x.node[m]
    /\ \/ UsedIds(y) = UsedIds(x) /\ y.node[pre] = x.node[pre]
       \/ /\ Alone(x, n) /\ y.node[pre].type = 1
          /\ pre = Root => UsedIds(y) = UsedIds(x)
          /\ pre # Root => /\ \A id : id \in UsedIds(y) <=> id \in UsedIds(x) /\ id # n[1]
                           /\ SameContent(x.node[pre], y.node[pre])

\* The valid nodes of y, k excepted, are valid in x, are not j, and hold what
\* they held in x.
Keeps(x, y, j, k) == \A m \in Valid(y) : m # k => /\ m \in Valid(x) /\ m # j
                                                  /\ SameContent(x.node[m], y.node[m])
SameRange(x, y, g, k) == \A m \in Valid(y) : m # k => /\ Lo(y, g, m) = Lo(x, g, m)
                                                      /\ Hi(y, g, m) = Hi(x, g, m)

\* n takes the content of k, a node of its next level.
Swapped(x, n, k, l) ==
    [x EXCEPT !.node[n] = ummu_swap_node_info(@, x.node[k], k[2], l)]

\* The nodes of x other than j and those of y other than k hold the same.
SameCov(x, y, g, j, k) == \A a \in Addr : Cov(y, g, k, a) <=> Cov(x, g, j, a)

\* Down to level l no node but n differs.
Framed(x, y, g, l, n) ==
    \A m \in Nodes(x) : m # n /\ (m = Root \/ Level(g, m) <= l) =>
        m \in Nodes(y) /\ y.node[m] = x.node[m]

\* The nodes, j excepted, hold what they held outside the cell c of level l.
Elsewhere(x, y, g, j, l, c) ==
    /\ y.lvl = x.lvl
    /\ \A q \in Valid(x) \ {j} : \A a \in Addr : Holds(x, g, q, a) /\ Cell(l, a) # c =>
           q \in Valid(y) /\ SameContent(x.node[q], y.node[q])

\* The records agree on all that the table is made of, node by node.
SameNodes(x, y) ==
    /\ DOMAIN y = TableFields /\ y.bitmap = x.bitmap /\ y.block = x.block /\ y.lvl = x.lvl
    /\ DOMAIN y.node = DOMAIN x.node /\ \A m \in DOMAIN x.node : y.node[m] = x.node[m]

-----------------------------------------------------------------------------
(* What the functions of a level promise.                                  *)

\* ummu_swap_next_level_node: what n held is gone, and nothing else.
SwapPre(x, g, n, T, l) ==
    Inv(x, g, n, 0, T) /\ n \in Valid(x) /\ x.node[n].type = 0 /\ Level(g, n) = l
SwapPost(x, y, g, n, T, l) ==
    /\ Inv(y, g, Root, 0, T) /\ y.ret = x.ret /\ n \in Valid(y)
    /\ UsedIds(y) \subseteq UsedIds(x) /\ SameCov(x, y, g, n, Root) /\ Framed(x, y, g, l, n)
    /\ Elsewhere(x, y, g, n, l, Num(g, n))

\* The node, or root, that a walk came through is there and holds what it held.
Stays(x, y, pre) ==
    pre \in Nodes(y) /\ (pre # Root => pre \in Valid(y) /\ SameContent(x.node[pre], y.node[pre]))

\* Of the valid nodes, none but n is gone, and no leaf has got a next level.
OnlyGone(x, y, n) ==
    /\ Valid(y) = Valid(x) \ {n}
    /\ \A q \in Valid(y) : /\ SameContent(x.node[q], y.node[q])
                           /\ x.node[q].type = 1 => y.node[q].type = 1

\* ummu_table_clear_node: what n held is gone, and nothing else.
CutPre(x, g, n, pre, T, l) ==
    /\ Inv(x, g, Root, 0, T) /\ n \in Valid(x) /\ Level(g, n) = l /\ LeadsTo(x, pre, n[1])
CutPost(x, y, g, n, pre, T, l) ==
    /\ Inv(y, g, Root, 0, T) /\ y.ret = x.ret /\ UsedIds(y) \subseteq UsedIds(x)
    /\ \A a \in Addr : Cov(y, g, Root, a) <=> Cov(x, g, Root, a) /\ ~Holds(x, g, n, a)
    /\ Framed(x, y, g, l - 1, pre) /\ Stays(x, y, pre)
    /\ Elsewhere(x, y, g, Root, l, Num(g, n))
    /\ \/ n[1] \in UsedIds(y) /\ y.node[pre] = x.node[pre]
       \/ x.node[n].type = 1 /\ Alone(x, n) /\ y.node[pre].type = 1
    /\ x.node[n].type = 0 => n \in Valid(y)
    /\ x.node[n].type = 1 => OnlyGone(x, y, n)

-----------------------------------------------------------------------------
(* Clearing a range.                                                       *)

\* The nodes with a part of s are leaves, each with all that s has in its cell.
Fresh(x, g, s) ==
    \A n \in Valid(x) : Lo(x, g, n) \in s.left .. s.right =>
        /\ x.node[n].type = 1
        /\ \A a \in s.left .. s.right : Cell(Level(g, n), a) = Num(g, n) => Holds(x, g, n, a)

\* From level l on, every node on the way to the address is valid.
Stuck(x, g, l, a) ==
    \A n \in UsedIds(x) \X Index :
        l <= Level(g, n) /\ Cell(Level(g, n), a) = Num(g, n) => n \in Valid(x)

\* Of the valid nodes, none but nodes with a part of s are gone, and no leaf
\* has got a next level.
Trim(x, y, g, s) ==
    /\ \A q \in Valid(y) : /\ q \in Valid(x) /\ SameContent(x.node[q], y.node[q])
                           /\ x.node[q].type = 1 => y.node[q].type = 1
    /\ \A q \in Valid(x) : q \in Valid(y) \/ Lo(x, g, q) \in s.left .. s.right

\* The address is in the cell, of level l, of an address of s.
Touched(s, l, a) == \E p \in s.left .. s.right : Cell(l, a) = Cell(l, p)

\* lvl says how far around s content has moved: a node that holds an address
\* which s does not touch at that level holds what it held.
Unmoved(x, y, g, s) ==
    /\ y.lvl \in Levels /\ y.lvl <= x.lvl
    /\ \A n \in Valid(x) : \A a \in Addr : Holds(x, g, n, a) =>
           \/ Touched(s, y.lvl, a)
           \/ n \in Valid(y) /\ SameContent(x.node[n], y.node[n])

\* The cell of the node is touched: by lvl, or because all of it is in s.
Near(x, g, s, n) ==
    \/ x.lvl <= Level(g, n)
    \/ \A a \in Addr : Cell(Level(g, n), a) = Num(g, n) => a \in s.left .. s.right

\* aHi is the last address that s has in the level block id, and aLo is not after it.
RangeIn(g, s, id, aLo, aHi) ==
    /\ aLo \in s.left .. s.right /\ aHi \in s.left .. s.right /\ aLo <= aHi
    /\ InBlock(g, id, aLo) /\ InBlock(g, id, aHi)
    /\ \A a \in s.left .. s.right : InBlock(g, id, a) => a <= aHi

\* No node above level l holds a part of aLo .. aHi.
NoUpper(x, g, l, aLo, aHi) ==
    \A n \in Valid(x) : Level(g, n) < l => \A a \in aLo .. aHi : ~Holds(x, g, n, a)

\* pre leads to the level block id of level l, where the walk is to clear
\* aLo .. aHi of s.  All that the table holds of s is aLo .. m: when m is less
\* than the end of s, a grant has failed at m + 1.
ClearPre(x, g, s, pre, id, aLo, aHi, m, T, l) ==
    /\ Inv(x, g, Root, 0, T) /\ x.ret = "ok" /\ x.lvl \in Levels /\ s \in T
    /\ LeadsTo(x, pre, id) /\ x.node[pre].type = 0
    /\ g.lev[id] = l /\ RangeIn(g, s, id, aLo, aHi)
    /\ m \in aLo - 1 .. s.right
    /\ \A a \in s.left .. s.right : Cov(x, g, Root, a) <=> aLo <= a /\ a <= m
    /\ NoUpper(x, g, l, aLo, aHi)
    /\ m < s.right => Fresh(x, g, s)
    /\ m < aHi => Stuck(x, g, l, m + 1)

\* The root keeps its next level as long as there is content.
RootOpen(x, y, g) ==
    x.node[Root].type = 0 /\ (\E a \in Addr : Cov(y, g, Root, a)) => y.node[Root].type = 0

\* What the table held of aLo .. aHi is gone, and nothing else.
Cleared(x, y, g, s, pre, aLo, aHi, T, l) ==
    /\ Inv(y, g, Root, 0, T) /\ UsedIds(y) \subseteq UsedIds(x)
    /\ \A a \in Addr : Cov(y, g, Root, a) <=> Cov(x, g, Root, a) /\ ~(aLo <= a /\ a <= aHi)
    /\ Framed(x, y, g, l - 1, pre) /\ Stays(x, y, pre)
    /\ Fresh(x, g, s) => Trim(x, y, g, s)
    /\ RootOpen(x, y, g) /\ Unmoved(x, y, g, s)

\* ummu_table_clear_node_by_level: it fails exactly if a part of the range was
\* not there.
ClearPost(x, y, g, s, pre, aLo, aHi, m, T, l) ==
    Cleared(x, y, g, s, pre, aLo, aHi, T, l) /\ (y.ret = "ok" <=> aHi <= m)

\* The first address of a level block, from which a walk counts its range.
BlockStart(g, id) == (g.num[id] * Fan) * Span(g.lev[id])

\* Where s has a piece, in the cell c of level l.
Starts(s, l, c) == {a \in s.left .. s.right : Cell(l, a) = c /\ \E b \in Nat : Piece(s, a, b)}

\* The part of a range that falls on the k-th node of its scan.
Parts(l, aLo, aHi) == Cell(l, aHi) - Cell(l, aLo) + 1
PartLo(l, aLo, k) == IF k = 1 THEN aLo ELSE (Cell(l, aLo) + k - 1) * Span(l)
PartHi(l, aLo, aHi, k) ==
    IF Cell(l, aLo) + k - 1 = Cell(l, aHi) THEN aHi ELSE (Cell(l, aLo) + k) * Span(l) - 1

\* lo .. hi, counted from the start of the level block, is aLo .. aHi.
Offsets(g, id, lo, hi, aLo, aHi) == lo = aLo - BlockStart(g, id) /\ hi = aHi - BlockStart(g, id)

\* p .. pHi is in the cell of the node, and pHi is the last address of s there.
InPart(g, s, n, p, pHi) ==
    /\ p \in s.left .. s.right /\ pHi \in s.left .. s.right /\ p <= pHi
    /\ Cell(Level(g, n), p) = Num(g, n) /\ Cell(Level(g, n), pHi) = Num(g, n)
    /\ \A a \in s.left .. s.right : Cell(Level(g, n), a) = Num(g, n) => a <= pHi

\* lo .. hi, counted from the start of the node's cell, is p .. pHi.
PartOffsets(g, n, lo, hi, p, pHi) ==
    /\ lo = p - Num(g, n) * Span(Level(g, n))
    /\ hi = pHi - Num(g, n) * Span(Level(g, n))

\* The cell c of level l is in s, and starts no earlier than p.
CellInside(s, l, c, p) == \A a \in Nat : Cell(l, a) = c => a \in s.left .. s.right /\ p <= a

-----------------------------------------------------------------------------
(* Filling a range.                                                        *)

\* The segment is what the request d asks for.
Asked(s, d) == /\ s.attr = d.attr /\ s.token_check = d.token_check
               /\ d.token_check = 1 => /\ s.tok0 = d.tokenval /\ s.tok1 = d.tokenval
                                       /\ s.token_count = 1

\* aLo .. aHi is all that s has in the level block id, which s does not fill.
WholeIn(g, s, id, aLo, aHi) ==
    /\ RangeIn(g, s, id, aLo, aHi)
    /\ \A a \in s.left .. s.right : InBlock(g, id, a) => aLo <= a
    /\ g.lev[id] # 0 => \E c \in Addr : InBlock(g, id, c) /\ c \notin s.left .. s.right

\* No node on the way to the level block has a part of s.
Clean(x, g, s, id) ==
    \A n \in Valid(x) : \A a \in s.left .. s.right :
        Level(g, n) < g.lev[id] /\ InBlock(g, id, a) /\ Cell(Level(g, n), a) = Num(g, n) =>
            Lo(x, g, n) \notin s.left .. s.right

\* pre leads to the level block id of level l, where the walk is to put
\* aLo .. aHi of s.  The table holds all of s before q, and no more.
FillAt(x, g, s, d, pre, id, q, aLo, aHi, T, l) ==
    /\ Inv(x, g, Root, id, T) /\ x.ret = "ok" /\ s \in T /\ Asked(s, d)
    /\ LeadsTo(x, pre, id) /\ g.lev[id] = l /\ WholeIn(g, s, id, aLo, aHi)
    /\ \A a \in s.left .. s.right : Cov(x, g, Root, a) <=> a < q
    /\ Fresh(x, g, s) /\ Clean(x, g, s, id)

\* g and h have the level blocks that x uses at the same place.
SameGeo(x, g, h) == \A i \in UsedIds(x) : h.lev[i] = g.lev[i] /\ h.num[i] = g.num[i]

\* Above level l nothing differs.
FramedAbove(x, y, g, h, l) ==
    /\ \A q \in Nodes(x) : q = Root \/ Level(g, q) < l => y.node[q] = x.node[q]
    /\ \A i \in UsedIds(y) : i \in UsedIds(x) \/ h.lev[i] > l

\* The valid nodes of x are valid in y and hold what they held.
Grown(x, y) ==
    y.lvl = x.lvl /\ \A n \in Valid(x) : n \in Valid(y) /\ SameContent(x.node[n], y.node[n])

\* The table holds a .. b of s besides what it held.
Added(x, y, g, h, s, a, b, T, l) ==
    /\ Inv(y, h, Root, 0, T) /\ UsedIds(x) \subseteq UsedIds(y) /\ SameGeo(x, g, h)
    /\ \A c \in Addr : Cov(y, h, Root, c) <=> Cov(x, g, Root, c) \/ (a <= c /\ c <= b)
    /\ Fresh(y, h, s) /\ FramedAbove(x, y, g, h, l) /\ Grown(x, y)

\* ummu_table_fill_node_by_level: it fails exactly if there is no level block
\* for some address of the range; all before that address is there then.
FillPost(x, y, g, s, aLo, aHi, T, l) ==
    \E h : \E m \in Int :
        /\ aLo - 1 <= m /\ m <= aHi /\ Added(x, y, g, h, s, aLo, m, T, l)
        /\ y.ret = "ok" <=> m = aHi
        /\ y.ret # "ok" => Stuck(y, h, l, m + 1)

\* w, with the places h, is x, with the places g, where n has the next level id.
Opened(x, w, g, h, n, id) ==
    /\ Sound(w, h, id) /\ w.ret = "ok" /\ w.lvl = x.lvl /\ Valid(w) = Valid(x)
    /\ UsedIds(x) \subseteq UsedIds(w) /\ (\A i \in UsedIds(w) : i \in UsedIds(x) \/ i = id)
    /\ SameGeo(x, g, h) /\ h.lev[id] = Level(g, n) + 1 /\ h.num[id] = Num(g, n)
    /\ w.node[n].type = 0 /\ w.node[n].next = id /\ SameContent(x.node[n], w.node[n])
    /\ \A m \in Nodes(x) : m # n => w.node[m] = x.node[m]

\* p .. pHi is all that s has in the cell of the node.
AllPart(g, s, n, p, pHi) ==
    /\ InPart(g, s, n, p, pHi)
    /\ \A a \in s.left .. s.right : Cell(Level(g, n), a) = Num(g, n) => p <= a

-----------------------------------------------------------------------------
(* Adding and removing tokens.                                             *)

\* The segment has room for the token of the request, or has that token.
Ready(s, d, op) ==
    /\ s.token_check = 1 /\ op \in {UMMU_ADD_TOKEN, UMMU_REMOVE_TOKEN}
    /\ op = UMMU_ADD_TOKEN => s.token_count = 1
    /\ op = UMMU_REMOVE_TOKEN => d.tokenval \in {s.tok0, s.tok1}

\* The node with the token.
Tokened(r, d, op) ==
    IF op = UMMU_ADD_TOKEN
    THEN [r EXCEPT !.tok1 = d.tokenval, !.nonce = UMMU_MAX_TOKEN_NUM]
    ELSE IF r.tok0 = d.tokenval THEN [r EXCEPT !.tok0 = r.tok1, !.nonce = 1]
    ELSE [r EXCEPT !.tok1 = r.tok0, !.nonce = 1]

\* In y the nodes whose content starts in a .. b have the token, and nothing
\* else differs from x.
StartsIn(x, g, n, a, b) == n \in Valid(x) /\ a <= Lo(x, g, n) /\ Lo(x, g, n) <= b
Updated(x, y, g, d, op, a, b) ==
    /\ DOMAIN y = TableFields /\ y.bitmap = x.bitmap /\ y.block = x.block
    /\ DOMAIN y.node = DOMAIN x.node
    /\ \A n \in DOMAIN x.node :
         y.node[n] = IF StartsIn(x, g, n, a, b) THEN Tokened(x.node[n], d, op) ELSE x.node[n]

\* From the level of the block on, no part of s in the block starts before a.
FromHere(x, g, s, id, a) ==
    \A n \in Valid(x) :
        /\ g.lev[id] <= Level(g, n) /\ Lo(x, g, n) \in s.left .. s.right
        /\ InBlock(g, id, Lo(x, g, n))
        => a <= Lo(x, g, n)

\* pre leads to the level block id of level l, where the walk is to come to
\* the nodes that hold aLo .. aHi of s.  The table x holds all of s.
TokenWalk(x, g, s, d, op, pre, id, aLo, aHi, T, l) ==
    /\ Inv(x, g, Root, 0, T) /\ s \in T /\ Ready(s, d, op)
    /\ \A a \in s.left .. s.right : Cov(x, g, Root, a)
    /\ LeadsTo(x, pre, id) /\ g.lev[id] = l /\ RangeIn(g, s, id, aLo, aHi)
    /\ NoUpper(x, g, l, aLo, aHi) /\ FromHere(x, g, s, id, aLo)

\* ummu_table_update_token_by_level: y is x with the nodes of s before aLo done.
UpdatePre(x, y, g, s, d, op, pre, id, aLo, aHi, T, l) ==
    /\ TokenWalk(x, g, s, d, op, pre, id, aLo, aHi, T, l)
    /\ y.ret = "ok" /\ Updated(x, y, g, d, op, s.left, aLo - 1)
UpdatePost(x, z, g, s, d, op, aHi) ==
    z.ret = "ok" /\ Updated(x, z, g, d, op, s.left, aHi)

\* The segment with the token.
Retokened(s, t, d, op) ==
    /\ t.left = s.left /\ t.right = s.right /\ t.attr = s.attr /\ t.token_check = 1
    /\ op = UMMU_ADD_TOKEN => /\ t.tok0 = s.tok0 /\ t.tok1 = d.tokenval
                              /\ t.token_count = UMMU_MAX_TOKEN_NUM
    /\ op = UMMU_REMOVE_TOKEN =>
           LET kept == IF s.tok0 = d.tokenval THEN s.tok1 ELSE s.tok0
           IN  t.tok0 = kept /\ t.tok1 = kept /\ t.token_count = 1

\* In the cell of the node no part of s starts before p, from its level on.
CellFrom(x, g, s, n, p) ==
    \A q \in Valid(x) :
        /\ Level(g, n) <= Level(g, q) /\ Lo(x, g, q) \in s.left .. s.right
        /\ Cell(Level(g, n), Lo(x, g, q)) = Num(g, n)
        => p <= Lo(x, g, q)

\* The walk has come to p, in the cell of the node n.
AtNode(x, g, s, n, id, p, pHi, aLo, aHi) ==
    /\ n \in Valid(x) /\ n[1] = id /\ InPart(g, s, n, p, pHi)
    /\ aLo <= p /\ pHi <= aHi /\ CellFrom(x, g, s, n, p)

-----------------------------------------------------------------------------
(* Between the calls.                                                      *)

\* The table holds the segments T, and nothing else.
Exact(x, g, T) ==
    /\ Inv(x, g, Root, 0, T)
    /\ \A a \in Addr : Cov(x, g, Root, a) <=> \E s \in T : a \in s.left .. s.right

\* The nodes that hold the address are where they were and hold what they held.
StillHolds(x, y, g, h, a) ==
    \A n \in Valid(x) : Holds(x, g, n, a) =>
        /\ n \in Valid(y) /\ SameContent(x.node[n], y.node[n])
        /\ Level(h, n) = Level(g, n) /\ Num(h, n) = Num(g, n)

\* y holds the segments T; what x holds is still there.
Undisturbed(x, y, g, h, T) == Exact(y, h, T) /\ \A a \in Addr : StillHolds(x, y, g, h, a)

\* The records agree on the table; the root node is on the stack of a call.
SameButRoot(x, y) ==
    /\ DOMAIN y = TableFields /\ y.bitmap = x.bitmap /\ y.block = x.block
    /\ DOMAIN y.node = DOMAIN x.node
    /\ \A m \in DOMAIN x.node \ {Root} : y.node[m] = x.node[m]
    /\ IsNode(y.node[Root]) /\ y.node[Root].next = 0 /\ y.node[Root].valid = 0

\* The device comes to the level block id of level l on its way to a.
Reached(x, g, a, l, id) ==
    /\ id \in UsedIds(x) /\ g.lev[id] = l /\ InBlock(g, id, a)
    /\ \A n \in Valid(x) : Level(g, n) < l => ~Holds(x, g, n, a)

\* What the device knows after the levels before l.
Walked(x, g, a, y, l) ==
    \/ y.stop = FALSE /\ y.hit = {} /\ Reached(x, g, a, l, y.id)
    \/ y.stop = TRUE /\ y.hit = {} /\ \A n \in Valid(x) : ~Holds(x, g, n, a)
    \/ y.stop = TRUE /\ \E n \in Valid(x) : Holds(x, g, n, a) /\ y.hit = {<<Level(g, n), x.node[n]>>}

\* What the device finds for a is what the segments say.
Found(hit, a, T) ==
    \/ hit = {} /\ \A s \in T : a \notin s.left .. s.right
    \/ \E s \in T : \E l, r : /\ hit = {<<l, r>>} /\ Agrees(s, r)
                              /\ \A t \in T : a \in t.left .. t.right <=> t = s

\* What the device found for an address before and finds now.
SameHit(old, new) ==
    \/ old = {}
    \/ \E l, r, q : old = {<<l, r>>} /\ new = {<<l, q>>} /\ SameContent(r, q)

\* A table with nothing but the root node.
Blank(x) ==
    /\ DOMAIN x = TableFields /\ x.ret = "ok" /\ x.mem = 1
    /\ x.node = [n \in {Root} |-> ZeroNode] /\ x.block = [b \in {} |-> 0]
    /\ x.bitmap = NoBits(MAX_LEVEL_ID_SIZE)

-----------------------------------------------------------------------------
(* The accounting, of the nodes f without the root node of a call.         *)

HasNodes(x, f) == \A n \in UsedIds(x) \X Index : f[n] = x.node[n]

\* The level blocks down to level l, and those that nodes of I lead to.
UpTo(x, g, l) == {id \in UsedIds(x) : g.lev[id] <= l}
Leads(f, I)   == {f[n].next : n \in {m \in I \X Index : f[m].valid = 1 /\ f[m].type = 0}}

ValidOf(f, id)      == {i \in Index : f[<<id, i>>].valid = 1}
ParentsOf(f, U, id) == {n \in U \X Index : /\ f[n].valid = 1 /\ f[n].type = 0
                                           /\ f[n].next = id}
==============================================================================
