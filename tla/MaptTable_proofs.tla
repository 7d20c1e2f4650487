-------------------------- MODULE MaptTable_proofs ---------------------------
(***************************************************************************)
(* The proofs about MaptTable.  What the walks of one level do to a table  *)
(* is proved in TableLevel_proofs, from what the walks of the next level   *)
(* promise.  Here the four levels are put together, from the last one up,  *)
(* the table is shown to hold what the segment manager records (TInv), and *)
(* the properties are derived from that.                                   *)
(*                                                                         *)
(* RecFaults = FALSE in the theorems: when the record of a granted segment *)
(* cannot be allocated, the table keeps a segment that nothing records,    *)
(* and the properties do not hold (the run table_record_fault).            *)
(***************************************************************************)
EXTENDS MaptTable, TLAPS

-----------------------------------------------------------------------------
(* The four levels.  Each has its own copy of the definitions of TableInv. *)

\* The predicates of level 3 are those of level 2.
LEMMA Same32 ==
    /\ \A x, g, n, T, l : Level3!SwapPre(x, g, n, T, l) <=> Level2!SwapPre(x, g, n, T, l)
    /\ \A x, y, g, n, T, l :
          Level3!SwapPost(x, y, g, n, T, l) <=> Level2!SwapPost(x, y, g, n, T, l)
    /\ \A x, g, s, pre, id, aLo, aHi, m, T, l :
          Level3!ClearPre(x, g, s, pre, id, aLo, aHi, m, T, l)
          <=> Level2!ClearPre(x, g, s, pre, id, aLo, aHi, m, T, l)
    /\ \A x, y, g, s, pre, aLo, aHi, m, T, l :
          Level3!ClearPost(x, y, g, s, pre, aLo, aHi, m, T, l)
          <=> Level2!ClearPost(x, y, g, s, pre, aLo, aHi, m, T, l)
    /\ \A g, id, lo, hi, aLo, aHi :
          Level3!Offsets(g, id, lo, hi, aLo, aHi)
          <=> Level2!Offsets(g, id, lo, hi, aLo, aHi)
    /\ \A x, g, s, d, pre, id, q, aLo, aHi, T, l :
          Level3!FillAt(x, g, s, d, pre, id, q, aLo, aHi, T, l)
          <=> Level2!FillAt(x, g, s, d, pre, id, q, aLo, aHi, T, l)
    /\ \A x, y, g, s, aLo, aHi, T, l :
          Level3!FillPost(x, y, g, s, aLo, aHi, T, l)
          <=> Level2!FillPost(x, y, g, s, aLo, aHi, T, l)
    /\ \A x, y, g, s, d, op, pre, id, aLo, aHi, T, l :
          Level3!UpdatePre(x, y, g, s, d, op, pre, id, aLo, aHi, T, l)
          <=> Level2!UpdatePre(x, y, g, s, d, op, pre, id, aLo, aHi, T, l)
    /\ \A x, z, g, s, d, op, aHi :
          Level3!UpdatePost(x, z, g, s, d, op, aHi)
          <=> Level2!UpdatePost(x, z, g, s, d, op, aHi)
<1>1. /\ \A level : Level3!Span(level) = Level2!Span(level)
      /\ Level3!Levels = Level2!Levels
      /\ Level3!Addr = Level2!Addr
      /\ \A l, a : Level3!Cell(l, a) = Level2!Cell(l, a)
      /\ Level3!Root = Level2!Root
      /\ \A x : Level3!UsedIds(x) = Level2!UsedIds(x)
      /\ \A x : Level3!Valid(x) = Level2!Valid(x)
      /\ \A x : Level3!Nodes(x) = Level2!Nodes(x)
      /\ \A g, n : Level3!Num(g, n) = Level2!Num(g, n)
      /\ \A g, n : Level3!Level(g, n) = Level2!Level(g, n)
  BY Zenon DEF
      Level3!Span, Level3!Levels, Level3!Addr, Level3!LastAddr, Level3!Cell, Level3!Root,
      Level3!UsedIds, Level3!MAX_LEVEL_ID_SIZE, Level3!Ones, Level3!BitOf, Level3!WordOf,
      Level3!Valid, Level3!Index, Level3!Nodes, Level3!Num, Level3!Level, Level2!Span,
      Level2!Levels, Level2!Addr, Level2!LastAddr, Level2!Cell, Level2!Root, Level2!UsedIds,
      Level2!MAX_LEVEL_ID_SIZE, Level2!Ones, Level2!BitOf, Level2!WordOf, Level2!Valid,
      Level2!Index, Level2!Nodes, Level2!Num, Level2!Level
<1>2. /\ \A x, g, n : Level3!Lo(x, g, n) = Level2!Lo(x, g, n)
      /\ \A x, g, n : Level3!Hi(x, g, n) = Level2!Hi(x, g, n)
      /\ \A g, id, a : Level3!InBlock(g, id, a) <=> Level2!InBlock(g, id, a)
      /\ \A x, g, n, a : Level3!Holds(x, g, n, a) <=> Level2!Holds(x, g, n, a)
      /\ \A g, id : Level3!BlockStart(g, id) = Level2!BlockStart(g, id)
      /\ \A x, g, j, a : Level3!Cov(x, g, j, a) <=> Level2!Cov(x, g, j, a)
  BY <1>1 DEF
      Level3!Lo, Level3!Hi, Level3!InBlock, Level3!Holds, Level3!BlockStart, Level3!Cov,
      Level2!Lo, Level2!Hi, Level2!InBlock, Level2!Holds, Level2!BlockStart, Level2!Cov
<1>3. /\ \A s, a, b : Level3!Piece(s, a, b) <=> Level2!Piece(s, a, b)
      /\ \A T : Level3!Segments(T) <=> Level2!Segments(T)
      /\ \A x : Level3!Shape(x) <=> Level2!Shape(x)
      /\ \A x : Level3!Counted(x) <=> Level2!Counted(x)
      /\ \A x : Level3!Flagged(x) <=> Level2!Flagged(x)
      /\ \A x, g : Level3!Placed(x, g) <=> Level2!Placed(x, g)
      /\ \A x, g : Level3!Linked(x, g) <=> Level2!Linked(x, g)
      /\ \A x, e : Level3!Filled(x, e) <=> Level2!Filled(x, e)
  BY Zenon DEF
      Level3!Piece, Level3!Levels, Level3!PieceAt, Level3!Addr, Level3!LastAddr, Level3!Span,
      Level3!Cell, Level3!Segments, Level3!Shape, Level3!BITS_TO_LONGS, Level3!BitsOfWord,
      Level3!Index, Level3!IsBlock, Level3!IsNode, Level3!Ids, Level3!MAX_LEVEL_ID_SIZE,
      Level3!NodeFields, Level3!Mapped, Level3!BlockOf, Level3!Root, Level3!TableFields,
      Level3!Counted, Level3!Cardinality, Level3!IsFiniteSet, Level3!InMapt, Level3!UsedIds,
      Level3!Ones, Level3!BitOf, Level3!WordOf, Level3!ValidAt, Level3!Flagged, Level3!Placed,
      Level3!Linked, Level3!Level, Level3!Num, Level3!Valid, Level3!Filled, Level2!Piece,
      Level2!Levels, Level2!PieceAt, Level2!Addr, Level2!LastAddr, Level2!Span, Level2!Cell,
      Level2!Segments, Level2!Shape, Level2!BITS_TO_LONGS, Level2!BitsOfWord, Level2!Index,
      Level2!IsBlock, Level2!IsNode, Level2!Ids, Level2!MAX_LEVEL_ID_SIZE, Level2!NodeFields,
      Level2!Mapped, Level2!BlockOf, Level2!Root, Level2!TableFields, Level2!Counted,
      Level2!Cardinality, Level2!IsFiniteSet, Level2!InMapt, Level2!UsedIds, Level2!Ones,
      Level2!BitOf, Level2!WordOf, Level2!ValidAt, Level2!Flagged, Level2!Placed,
      Level2!Linked, Level2!Level, Level2!Num, Level2!Valid, Level2!Filled
<1>4. /\ Level3!TableFields = Level2!TableFields
      /\ \A r, s : Level3!SameContent(r, s) <=> Level2!SameContent(r, s)
      /\ \A s, d : Level3!Asked(s, d) <=> Level2!Asked(s, d)
      /\ \A s, d, op : Level3!Ready(s, d, op) <=> Level2!Ready(s, d, op)
      /\ \A r, d, op : Level3!Tokened(r, d, op) = Level2!Tokened(r, d, op)
      /\ \A s, r : Level3!Agrees(s, r) <=> Level2!Agrees(s, r)
  BY Zenon DEF
      Level3!TableFields, Level3!SameContent, Level3!NodeFields, Level3!Asked, Level3!Ready,
      Level3!UMMU_ADD_TOKEN, Level3!UMMU_REMOVE_TOKEN, Level3!Tokened,
      Level3!UMMU_MAX_TOKEN_NUM, Level3!Agrees, Level2!TableFields, Level2!SameContent,
      Level2!NodeFields, Level2!Asked, Level2!Ready, Level2!UMMU_ADD_TOKEN,
      Level2!UMMU_REMOVE_TOKEN, Level2!Tokened, Level2!UMMU_MAX_TOKEN_NUM, Level2!Agrees
<1>5. /\ \A x, g, j : Level3!Disjoint(x, g, j) <=> Level2!Disjoint(x, g, j)
      /\ \A x, g, j, T : Level3!Paid(x, g, j, T) <=> Level2!Paid(x, g, j, T)
      /\ \A x, pre, id : Level3!LeadsTo(x, pre, id) <=> Level2!LeadsTo(x, pre, id)
      /\ \A x, y, g, l, n : Level3!Framed(x, y, g, l, n) <=> Level2!Framed(x, y, g, l, n)
      /\ \A x, y, pre : Level3!Stays(x, y, pre) <=> Level2!Stays(x, y, pre)
      /\ \A x, g, s : Level3!Fresh(x, g, s) <=> Level2!Fresh(x, g, s)
      /\ \A x, g, l, a : Level3!Stuck(x, g, l, a) <=> Level2!Stuck(x, g, l, a)
      /\ \A x, g, l, aLo, aHi :
            Level3!NoUpper(x, g, l, aLo, aHi) <=> Level2!NoUpper(x, g, l, aLo, aHi)
      /\ \A x, y, g : Level3!RootOpen(x, y, g) <=> Level2!RootOpen(x, y, g)
      /\ \A x, g, h : Level3!SameGeo(x, g, h) <=> Level2!SameGeo(x, g, h)
      /\ \A x, y, g, h, l :
            Level3!FramedAbove(x, y, g, h, l) <=> Level2!FramedAbove(x, y, g, h, l)
      /\ \A x, g, s, id, a :
            Level3!FromHere(x, g, s, id, a) <=> Level2!FromHere(x, g, s, id, a)
      /\ \A x, g, n, a, b :
            Level3!StartsIn(x, g, n, a, b) <=> Level2!StartsIn(x, g, n, a, b)
      /\ \A x, y, g, d, op, a, b :
            Level3!Updated(x, y, g, d, op, a, b) <=> Level2!Updated(x, y, g, d, op, a, b)
  BY <1>1, <1>2, <1>4 DEF
      Level3!Disjoint, Level3!Paid, Level3!LeadsTo, Level3!Framed, Level3!Stays, Level3!Fresh,
      Level3!Stuck, Level3!Index, Level3!NoUpper, Level3!RootOpen, Level3!SameGeo,
      Level3!FramedAbove, Level3!FromHere, Level3!StartsIn, Level3!Updated, Level2!Disjoint,
      Level2!Paid, Level2!LeadsTo, Level2!Framed, Level2!Stays, Level2!Fresh, Level2!Stuck,
      Level2!Index, Level2!NoUpper, Level2!RootOpen, Level2!SameGeo, Level2!FramedAbove,
      Level2!FromHere, Level2!StartsIn, Level2!Updated
<1>6. /\ \A x, g, j, T : Level3!Content(x, g, j, T) <=> Level2!Content(x, g, j, T)
      /\ \A x, g, j, T : Level3!First(x, g, j, T) <=> Level2!First(x, g, j, T)
      /\ \A g, s, id, aLo, aHi :
            Level3!RangeIn(g, s, id, aLo, aHi) <=> Level2!RangeIn(g, s, id, aLo, aHi)
      /\ \A x, y, g, s : Level3!Trim(x, y, g, s) <=> Level2!Trim(x, y, g, s)
      /\ \A x, y, g, j, k : Level3!SameCov(x, y, g, j, k) <=> Level2!SameCov(x, y, g, j, k)
      /\ \A g, id, lo, hi, aLo, aHi :
            Level3!Offsets(g, id, lo, hi, aLo, aHi)
            <=> Level2!Offsets(g, id, lo, hi, aLo, aHi)
      /\ \A x, g, s, id : Level3!Clean(x, g, s, id) <=> Level2!Clean(x, g, s, id)
  BY <1>1, <1>2, <1>3, <1>4 DEF
      Level3!Content, Level3!First, Level3!RangeIn, Level3!Trim, Level3!SameCov,
      Level3!Offsets, Level3!Clean, Level2!Content, Level2!First, Level2!RangeIn, Level2!Trim,
      Level2!SameCov, Level2!Offsets, Level2!Clean
<1>7. /\ \A x, g, e : Level3!Sound(x, g, e) <=> Level2!Sound(x, g, e)
      /\ \A x, g, j, T : Level3!Holding(x, g, j, T) <=> Level2!Holding(x, g, j, T)
      /\ \A x, g, j, e, T : Level3!Inv(x, g, j, e, T) <=> Level2!Inv(x, g, j, e, T)
      /\ \A g, s, id, aLo, aHi :
            Level3!WholeIn(g, s, id, aLo, aHi) <=> Level2!WholeIn(g, s, id, aLo, aHi)
  BY <1>1, <1>2, <1>3, <1>5, <1>6 DEF
      Level3!Sound, Level3!Holding, Level3!Inv, Level3!WholeIn, Level2!Sound, Level2!Holding,
      Level2!Inv, Level2!WholeIn
<1>10. /\ \A s, l, a : Level3!Touched(s, l, a) <=> Level2!Touched(s, l, a)
       /\ \A x, y : Level3!Grown(x, y) <=> Level2!Grown(x, y)
       /\ \A x, y, g, j, l, c :
             Level3!Elsewhere(x, y, g, j, l, c) <=> Level2!Elsewhere(x, y, g, j, l, c)
  BY <1>1, <1>2, <1>4 DEF
      Level3!Touched, Level3!Grown, Level3!Elsewhere, Level2!Touched, Level2!Grown, Level2!Elsewhere
<1>11. \A x, y, g, s : Level3!Unmoved(x, y, g, s) <=> Level2!Unmoved(x, y, g, s)
  BY <1>1, <1>2, <1>4, <1>10 DEF Level3!Unmoved, Level2!Unmoved
<1>8. /\ \A x, g, n, T, l : Level3!SwapPre(x, g, n, T, l) <=> Level2!SwapPre(x, g, n, T, l)
      /\ \A x, y, g, n, T, l :
            Level3!SwapPost(x, y, g, n, T, l) <=> Level2!SwapPost(x, y, g, n, T, l)
      /\ \A x, g, s, pre, id, aLo, aHi, m, T, l :
            Level3!ClearPre(x, g, s, pre, id, aLo, aHi, m, T, l)
            <=> Level2!ClearPre(x, g, s, pre, id, aLo, aHi, m, T, l)
      /\ \A x, g, s, d, pre, id, q, aLo, aHi, T, l :
            Level3!FillAt(x, g, s, d, pre, id, q, aLo, aHi, T, l)
            <=> Level2!FillAt(x, g, s, d, pre, id, q, aLo, aHi, T, l)
      /\ \A x, y, g, s, pre, aLo, aHi, T, l :
            Level3!Cleared(x, y, g, s, pre, aLo, aHi, T, l)
            <=> Level2!Cleared(x, y, g, s, pre, aLo, aHi, T, l)
      /\ \A x, y, g, s, pre, aLo, aHi, m, T, l :
            Level3!ClearPost(x, y, g, s, pre, aLo, aHi, m, T, l)
            <=> Level2!ClearPost(x, y, g, s, pre, aLo, aHi, m, T, l)
      /\ \A x, y, g, h, s, a, b, T, l :
            Level3!Added(x, y, g, h, s, a, b, T, l)
            <=> Level2!Added(x, y, g, h, s, a, b, T, l)
  BY <1>1, <1>2, <1>4, <1>5, <1>6, <1>7, <1>10, <1>11 DEF
      Level3!SwapPre, Level3!SwapPost, Level3!ClearPre, Level3!FillAt, Level3!Cleared,
      Level3!ClearPost, Level3!Added, Level2!SwapPre, Level2!SwapPost, Level2!ClearPre,
      Level2!FillAt, Level2!Cleared, Level2!ClearPost, Level2!Added
<1>9. /\ \A x, y, g, s, aLo, aHi, T, l :
            Level3!FillPost(x, y, g, s, aLo, aHi, T, l)
            <=> Level2!FillPost(x, y, g, s, aLo, aHi, T, l)
      /\ \A x, g, s, d, op, pre, id, aLo, aHi, T, l :
            Level3!TokenWalk(x, g, s, d, op, pre, id, aLo, aHi, T, l)
            <=> Level2!TokenWalk(x, g, s, d, op, pre, id, aLo, aHi, T, l)
      /\ \A x, y, g, s, d, op, pre, id, aLo, aHi, T, l :
            Level3!UpdatePre(x, y, g, s, d, op, pre, id, aLo, aHi, T, l)
            <=> Level2!UpdatePre(x, y, g, s, d, op, pre, id, aLo, aHi, T, l)
      /\ \A x, z, g, s, d, op, aHi :
            Level3!UpdatePost(x, z, g, s, d, op, aHi)
            <=> Level2!UpdatePost(x, z, g, s, d, op, aHi)
  BY <1>1, <1>2, <1>4, <1>5, <1>6, <1>7, <1>8 DEF
      Level3!FillPost, Level3!TokenWalk, Level3!UpdatePre, Level3!UpdatePost, Level2!FillPost,
      Level2!TokenWalk, Level2!UpdatePre, Level2!UpdatePost
<1> QED BY <1>6, <1>8, <1>9

\* The predicates of level 2 are those of level 1.
LEMMA Same21 ==
    /\ \A x, g, n, T, l : Level2!SwapPre(x, g, n, T, l) <=> Level1!SwapPre(x, g, n, T, l)
    /\ \A x, y, g, n, T, l :
          Level2!SwapPost(x, y, g, n, T, l) <=> Level1!SwapPost(x, y, g, n, T, l)
    /\ \A x, g, s, pre, id, aLo, aHi, m, T, l :
          Level2!ClearPre(x, g, s, pre, id, aLo, aHi, m, T, l)
          <=> Level1!ClearPre(x, g, s, pre, id, aLo, aHi, m, T, l)
    /\ \A x, y, g, s, pre, aLo, aHi, m, T, l :
          Level2!ClearPost(x, y, g, s, pre, aLo, aHi, m, T, l)
          <=> Level1!ClearPost(x, y, g, s, pre, aLo, aHi, m, T, l)
    /\ \A g, id, lo, hi, aLo, aHi :
          Level2!Offsets(g, id, lo, hi, aLo, aHi)
          <=> Level1!Offsets(g, id, lo, hi, aLo, aHi)
    /\ \A x, g, s, d, pre, id, q, aLo, aHi, T, l :
          Level2!FillAt(x, g, s, d, pre, id, q, aLo, aHi, T, l)
          <=> Level1!FillAt(x, g, s, d, pre, id, q, aLo, aHi, T, l)
    /\ \A x, y, g, s, aLo, aHi, T, l :
          Level2!FillPost(x, y, g, s, aLo, aHi, T, l)
          <=> Level1!FillPost(x, y, g, s, aLo, aHi, T, l)
    /\ \A x, y, g, s, d, op, pre, id, aLo, aHi, T, l :
          Level2!UpdatePre(x, y, g, s, d, op, pre, id, aLo, aHi, T, l)
          <=> Level1!UpdatePre(x, y, g, s, d, op, pre, id, aLo, aHi, T, l)
    /\ \A x, z, g, s, d, op, aHi :
          Level2!UpdatePost(x, z, g, s, d, op, aHi)
          <=> Level1!UpdatePost(x, z, g, s, d, op, aHi)
<1>1. /\ \A level : Level2!Span(level) = Level1!Span(level)
      /\ Level2!Levels = Level1!Levels
      /\ Level2!Addr = Level1!Addr
      /\ \A l, a : Level2!Cell(l, a) = Level1!Cell(l, a)
      /\ Level2!Root = Level1!Root
      /\ \A x : Level2!UsedIds(x) = Level1!UsedIds(x)
      /\ \A x : Level2!Valid(x) = Level1!Valid(x)
      /\ \A x : Level2!Nodes(x) = Level1!Nodes(x)
      /\ \A g, n : Level2!Num(g, n) = Level1!Num(g, n)
      /\ \A g, n : Level2!Level(g, n) = Level1!Level(g, n)
  BY Zenon DEF
      Level2!Span, Level2!Levels, Level2!Addr, Level2!LastAddr, Level2!Cell, Level2!Root,
      Level2!UsedIds, Level2!MAX_LEVEL_ID_SIZE, Level2!Ones, Level2!BitOf, Level2!WordOf,
      Level2!Valid, Level2!Index, Level2!Nodes, Level2!Num, Level2!Level, Level1!Span,
      Level1!Levels, Level1!Addr, Level1!LastAddr, Level1!Cell, Level1!Root, Level1!UsedIds,
      Level1!MAX_LEVEL_ID_SIZE, Level1!Ones, Level1!BitOf, Level1!WordOf, Level1!Valid,
      Level1!Index, Level1!Nodes, Level1!Num, Level1!Level
<1>2. /\ \A x, g, n : Level2!Lo(x, g, n) = Level1!Lo(x, g, n)
      /\ \A x, g, n : Level2!Hi(x, g, n) = Level1!Hi(x, g, n)
      /\ \A g, id, a : Level2!InBlock(g, id, a) <=> Level1!InBlock(g, id, a)
      /\ \A x, g, n, a : Level2!Holds(x, g, n, a) <=> Level1!Holds(x, g, n, a)
      /\ \A g, id : Level2!BlockStart(g, id) = Level1!BlockStart(g, id)
      /\ \A x, g, j, a : Level2!Cov(x, g, j, a) <=> Level1!Cov(x, g, j, a)
  BY <1>1 DEF
      Level2!Lo, Level2!Hi, Level2!InBlock, Level2!Holds, Level2!BlockStart, Level2!Cov,
      Level1!Lo, Level1!Hi, Level1!InBlock, Level1!Holds, Level1!BlockStart, Level1!Cov
<1>3. /\ \A s, a, b : Level2!Piece(s, a, b) <=> Level1!Piece(s, a, b)
      /\ \A T : Level2!Segments(T) <=> Level1!Segments(T)
      /\ \A x : Level2!Shape(x) <=> Level1!Shape(x)
      /\ \A x : Level2!Counted(x) <=> Level1!Counted(x)
      /\ \A x : Level2!Flagged(x) <=> Level1!Flagged(x)
      /\ \A x, g : Level2!Placed(x, g) <=> Level1!Placed(x, g)
      /\ \A x, g : Level2!Linked(x, g) <=> Level1!Linked(x, g)
      /\ \A x, e : Level2!Filled(x, e) <=> Level1!Filled(x, e)
  BY Zenon DEF
      Level2!Piece, Level2!Levels, Level2!PieceAt, Level2!Addr, Level2!LastAddr, Level2!Span,
      Level2!Cell, Level2!Segments, Level2!Shape, Level2!BITS_TO_LONGS, Level2!BitsOfWord,
      Level2!Index, Level2!IsBlock, Level2!IsNode, Level2!Ids, Level2!MAX_LEVEL_ID_SIZE,
      Level2!NodeFields, Level2!Mapped, Level2!BlockOf, Level2!Root, Level2!TableFields,
      Level2!Counted, Level2!Cardinality, Level2!IsFiniteSet, Level2!InMapt, Level2!UsedIds,
      Level2!Ones, Level2!BitOf, Level2!WordOf, Level2!ValidAt, Level2!Flagged, Level2!Placed,
      Level2!Linked, Level2!Level, Level2!Num, Level2!Valid, Level2!Filled, Level1!Piece,
      Level1!Levels, Level1!PieceAt, Level1!Addr, Level1!LastAddr, Level1!Span, Level1!Cell,
      Level1!Segments, Level1!Shape, Level1!BITS_TO_LONGS, Level1!BitsOfWord, Level1!Index,
      Level1!IsBlock, Level1!IsNode, Level1!Ids, Level1!MAX_LEVEL_ID_SIZE, Level1!NodeFields,
      Level1!Mapped, Level1!BlockOf, Level1!Root, Level1!TableFields, Level1!Counted,
      Level1!Cardinality, Level1!IsFiniteSet, Level1!InMapt, Level1!UsedIds, Level1!Ones,
      Level1!BitOf, Level1!WordOf, Level1!ValidAt, Level1!Flagged, Level1!Placed,
      Level1!Linked, Level1!Level, Level1!Num, Level1!Valid, Level1!Filled
<1>4. /\ Level2!TableFields = Level1!TableFields
      /\ \A r, s : Level2!SameContent(r, s) <=> Level1!SameContent(r, s)
      /\ \A s, d : Level2!Asked(s, d) <=> Level1!Asked(s, d)
      /\ \A s, d, op : Level2!Ready(s, d, op) <=> Level1!Ready(s, d, op)
      /\ \A r, d, op : Level2!Tokened(r, d, op) = Level1!Tokened(r, d, op)
      /\ \A s, r : Level2!Agrees(s, r) <=> Level1!Agrees(s, r)
  BY Zenon DEF
      Level2!TableFields, Level2!SameContent, Level2!NodeFields, Level2!Asked, Level2!Ready,
      Level2!UMMU_ADD_TOKEN, Level2!UMMU_REMOVE_TOKEN, Level2!Tokened,
      Level2!UMMU_MAX_TOKEN_NUM, Level2!Agrees, Level1!TableFields, Level1!SameContent,
      Level1!NodeFields, Level1!Asked, Level1!Ready, Level1!UMMU_ADD_TOKEN,
      Level1!UMMU_REMOVE_TOKEN, Level1!Tokened, Level1!UMMU_MAX_TOKEN_NUM, Level1!Agrees
<1>5. /\ \A x, g, j : Level2!Disjoint(x, g, j) <=> Level1!Disjoint(x, g, j)
      /\ \A x, g, j, T : Level2!Paid(x, g, j, T) <=> Level1!Paid(x, g, j, T)
      /\ \A x, pre, id : Level2!LeadsTo(x, pre, id) <=> Level1!LeadsTo(x, pre, id)
      /\ \A x, y, g, l, n : Level2!Framed(x, y, g, l, n) <=> Level1!Framed(x, y, g, l, n)
      /\ \A x, y, pre : Level2!Stays(x, y, pre) <=> Level1!Stays(x, y, pre)
      /\ \A x, g, s : Level2!Fresh(x, g, s) <=> Level1!Fresh(x, g, s)
      /\ \A x, g, l, a : Level2!Stuck(x, g, l, a) <=> Level1!Stuck(x, g, l, a)
      /\ \A x, g, l, aLo, aHi :
            Level2!NoUpper(x, g, l, aLo, aHi) <=> Level1!NoUpper(x, g, l, aLo, aHi)
      /\ \A x, y, g : Level2!RootOpen(x, y, g) <=> Level1!RootOpen(x, y, g)
      /\ \A x, g, h : Level2!SameGeo(x, g, h) <=> Level1!SameGeo(x, g, h)
      /\ \A x, y, g, h, l :
            Level2!FramedAbove(x, y, g, h, l) <=> Level1!FramedAbove(x, y, g, h, l)
      /\ \A x, g, s, id, a :
            Level2!FromHere(x, g, s, id, a) <=> Level1!FromHere(x, g, s, id, a)
      /\ \A x, g, n, a, b :
            Level2!StartsIn(x, g, n, a, b) <=> Level1!StartsIn(x, g, n, a, b)
      /\ \A x, y, g, d, op, a, b :
            Level2!Updated(x, y, g, d, op, a, b) <=> Level1!Updated(x, y, g, d, op, a, b)
  BY <1>1, <1>2, <1>4 DEF
      Level2!Disjoint, Level2!Paid, Level2!LeadsTo, Level2!Framed, Level2!Stays, Level2!Fresh,
      Level2!Stuck, Level2!Index, Level2!NoUpper, Level2!RootOpen, Level2!SameGeo,
      Level2!FramedAbove, Level2!FromHere, Level2!StartsIn, Level2!Updated, Level1!Disjoint,
      Level1!Paid, Level1!LeadsTo, Level1!Framed, Level1!Stays, Level1!Fresh, Level1!Stuck,
      Level1!Index, Level1!NoUpper, Level1!RootOpen, Level1!SameGeo, Level1!FramedAbove,
      Level1!FromHere, Level1!StartsIn, Level1!Updated
<1>6. /\ \A x, g, j, T : Level2!Content(x, g, j, T) <=> Level1!Content(x, g, j, T)
      /\ \A x, g, j, T : Level2!First(x, g, j, T) <=> Level1!First(x, g, j, T)
      /\ \A g, s, id, aLo, aHi :
            Level2!RangeIn(g, s, id, aLo, aHi) <=> Level1!RangeIn(g, s, id, aLo, aHi)
      /\ \A x, y, g, s : Level2!Trim(x, y, g, s) <=> Level1!Trim(x, y, g, s)
      /\ \A x, y, g, j, k : Level2!SameCov(x, y, g, j, k) <=> Level1!SameCov(x, y, g, j, k)
      /\ \A g, id, lo, hi, aLo, aHi :
            Level2!Offsets(g, id, lo, hi, aLo, aHi)
            <=> Level1!Offsets(g, id, lo, hi, aLo, aHi)
      /\ \A x, g, s, id : Level2!Clean(x, g, s, id) <=> Level1!Clean(x, g, s, id)
  BY <1>1, <1>2, <1>3, <1>4 DEF
      Level2!Content, Level2!First, Level2!RangeIn, Level2!Trim, Level2!SameCov,
      Level2!Offsets, Level2!Clean, Level1!Content, Level1!First, Level1!RangeIn, Level1!Trim,
      Level1!SameCov, Level1!Offsets, Level1!Clean
<1>7. /\ \A x, g, e : Level2!Sound(x, g, e) <=> Level1!Sound(x, g, e)
      /\ \A x, g, j, T : Level2!Holding(x, g, j, T) <=> Level1!Holding(x, g, j, T)
      /\ \A x, g, j, e, T : Level2!Inv(x, g, j, e, T) <=> Level1!Inv(x, g, j, e, T)
      /\ \A g, s, id, aLo, aHi :
            Level2!WholeIn(g, s, id, aLo, aHi) <=> Level1!WholeIn(g, s, id, aLo, aHi)
  BY <1>1, <1>2, <1>3, <1>5, <1>6 DEF
      Level2!Sound, Level2!Holding, Level2!Inv, Level2!WholeIn, Level1!Sound, Level1!Holding,
      Level1!Inv, Level1!WholeIn
<1>10. /\ \A s, l, a : Level2!Touched(s, l, a) <=> Level1!Touched(s, l, a)
       /\ \A x, y : Level2!Grown(x, y) <=> Level1!Grown(x, y)
       /\ \A x, y, g, j, l, c :
             Level2!Elsewhere(x, y, g, j, l, c) <=> Level1!Elsewhere(x, y, g, j, l, c)
  BY <1>1, <1>2, <1>4 DEF
      Level2!Touched, Level2!Grown, Level2!Elsewhere, Level1!Touched, Level1!Grown, Level1!Elsewhere
<1>11. \A x, y, g, s : Level2!Unmoved(x, y, g, s) <=> Level1!Unmoved(x, y, g, s)
  BY <1>1, <1>2, <1>4, <1>10 DEF Level2!Unmoved, Level1!Unmoved
<1>8. /\ \A x, g, n, T, l : Level2!SwapPre(x, g, n, T, l) <=> Level1!SwapPre(x, g, n, T, l)
      /\ \A x, y, g, n, T, l :
            Level2!SwapPost(x, y, g, n, T, l) <=> Level1!SwapPost(x, y, g, n, T, l)
      /\ \A x, g, s, pre, id, aLo, aHi, m, T, l :
            Level2!ClearPre(x, g, s, pre, id, aLo, aHi, m, T, l)
            <=> Level1!ClearPre(x, g, s, pre, id, aLo, aHi, m, T, l)
      /\ \A x, g, s, d, pre, id, q, aLo, aHi, T, l :
            Level2!FillAt(x, g, s, d, pre, id, q, aLo, aHi, T, l)
            <=> Level1!FillAt(x, g, s, d, pre, id, q, aLo, aHi, T, l)
      /\ \A x, y, g, s, pre, aLo, aHi, T, l :
            Level2!Cleared(x, y, g, s, pre, aLo, aHi, T, l)
            <=> Level1!Cleared(x, y, g, s, pre, aLo, aHi, T, l)
      /\ \A x, y, g, s, pre, aLo, aHi, m, T, l :
            Level2!ClearPost(x, y, g, s, pre, aLo, aHi, m, T, l)
            <=> Level1!ClearPost(x, y, g, s, pre, aLo, aHi, m, T, l)
      /\ \A x, y, g, h, s, a, b, T, l :
            Level2!Added(x, y, g, h, s, a, b, T, l)
            <=> Level1!Added(x, y, g, h, s, a, b, T, l)
  BY <1>1, <1>2, <1>4, <1>5, <1>6, <1>7, <1>10, <1>11 DEF
      Level2!SwapPre, Level2!SwapPost, Level2!ClearPre, Level2!FillAt, Level2!Cleared,
      Level2!ClearPost, Level2!Added, Level1!SwapPre, Level1!SwapPost, Level1!ClearPre,
      Level1!FillAt, Level1!Cleared, Level1!ClearPost, Level1!Added
<1>9. /\ \A x, y, g, s, aLo, aHi, T, l :
            Level2!FillPost(x, y, g, s, aLo, aHi, T, l)
            <=> Level1!FillPost(x, y, g, s, aLo, aHi, T, l)
      /\ \A x, g, s, d, op, pre, id, aLo, aHi, T, l :
            Level2!TokenWalk(x, g, s, d, op, pre, id, aLo, aHi, T, l)
            <=> Level1!TokenWalk(x, g, s, d, op, pre, id, aLo, aHi, T, l)
      /\ \A x, y, g, s, d, op, pre, id, aLo, aHi, T, l :
            Level2!UpdatePre(x, y, g, s, d, op, pre, id, aLo, aHi, T, l)
            <=> Level1!UpdatePre(x, y, g, s, d, op, pre, id, aLo, aHi, T, l)
      /\ \A x, z, g, s, d, op, aHi :
            Level2!UpdatePost(x, z, g, s, d, op, aHi)
            <=> Level1!UpdatePost(x, z, g, s, d, op, aHi)
  BY <1>1, <1>2, <1>4, <1>5, <1>6, <1>7, <1>8 DEF
      Level2!FillPost, Level2!TokenWalk, Level2!UpdatePre, Level2!UpdatePost, Level1!FillPost,
      Level1!TokenWalk, Level1!UpdatePre, Level1!UpdatePost
<1> QED BY <1>6, <1>8, <1>9

\* The predicates of level 1 are those of level 0.
LEMMA Same10 ==
    /\ \A x, g, n, T, l : Level1!SwapPre(x, g, n, T, l) <=> Level0!SwapPre(x, g, n, T, l)
    /\ \A x, y, g, n, T, l :
          Level1!SwapPost(x, y, g, n, T, l) <=> Level0!SwapPost(x, y, g, n, T, l)
    /\ \A x, g, s, pre, id, aLo, aHi, m, T, l :
          Level1!ClearPre(x, g, s, pre, id, aLo, aHi, m, T, l)
          <=> Level0!ClearPre(x, g, s, pre, id, aLo, aHi, m, T, l)
    /\ \A x, y, g, s, pre, aLo, aHi, m, T, l :
          Level1!ClearPost(x, y, g, s, pre, aLo, aHi, m, T, l)
          <=> Level0!ClearPost(x, y, g, s, pre, aLo, aHi, m, T, l)
    /\ \A g, id, lo, hi, aLo, aHi :
          Level1!Offsets(g, id, lo, hi, aLo, aHi)
          <=> Level0!Offsets(g, id, lo, hi, aLo, aHi)
    /\ \A x, g, s, d, pre, id, q, aLo, aHi, T, l :
          Level1!FillAt(x, g, s, d, pre, id, q, aLo, aHi, T, l)
          <=> Level0!FillAt(x, g, s, d, pre, id, q, aLo, aHi, T, l)
    /\ \A x, y, g, s, aLo, aHi, T, l :
          Level1!FillPost(x, y, g, s, aLo, aHi, T, l)
          <=> Level0!FillPost(x, y, g, s, aLo, aHi, T, l)
    /\ \A x, y, g, s, d, op, pre, id, aLo, aHi, T, l :
          Level1!UpdatePre(x, y, g, s, d, op, pre, id, aLo, aHi, T, l)
          <=> Level0!UpdatePre(x, y, g, s, d, op, pre, id, aLo, aHi, T, l)
    /\ \A x, z, g, s, d, op, aHi :
          Level1!UpdatePost(x, z, g, s, d, op, aHi)
          <=> Level0!UpdatePost(x, z, g, s, d, op, aHi)
<1>1. /\ \A level : Level1!Span(level) = Level0!Span(level)
      /\ Level1!Levels = Level0!Levels
      /\ Level1!Addr = Level0!Addr
      /\ \A l, a : Level1!Cell(l, a) = Level0!Cell(l, a)
      /\ Level1!Root = Level0!Root
      /\ \A x : Level1!UsedIds(x) = Level0!UsedIds(x)
      /\ \A x : Level1!Valid(x) = Level0!Valid(x)
      /\ \A x : Level1!Nodes(x) = Level0!Nodes(x)
      /\ \A g, n : Level1!Num(g, n) = Level0!Num(g, n)
      /\ \A g, n : Level1!Level(g, n) = Level0!Level(g, n)
  BY Zenon DEF
      Level1!Span, Level1!Levels, Level1!Addr, Level1!LastAddr, Level1!Cell, Level1!Root,
      Level1!UsedIds, Level1!MAX_LEVEL_ID_SIZE, Level1!Ones, Level1!BitOf, Level1!WordOf,
      Level1!Valid, Level1!Index, Level1!Nodes, Level1!Num, Level1!Level, Level0!Span,
      Level0!Levels, Level0!Addr, Level0!LastAddr, Level0!Cell, Level0!Root, Level0!UsedIds,
      Level0!MAX_LEVEL_ID_SIZE, Level0!Ones, Level0!BitOf, Level0!WordOf, Level0!Valid,
      Level0!Index, Level0!Nodes, Level0!Num, Level0!Level
<1>2. /\ \A x, g, n : Level1!Lo(x, g, n) = Level0!Lo(x, g, n)
      /\ \A x, g, n : Level1!Hi(x, g, n) = Level0!Hi(x, g, n)
      /\ \A g, id, a : Level1!InBlock(g, id, a) <=> Level0!InBlock(g, id, a)
      /\ \A x, g, n, a : Level1!Holds(x, g, n, a) <=> Level0!Holds(x, g, n, a)
      /\ \A g, id : Level1!BlockStart(g, id) = Level0!BlockStart(g, id)
      /\ \A x, g, j, a : Level1!Cov(x, g, j, a) <=> Level0!Cov(x, g, j, a)
  BY <1>1 DEF
      Level1!Lo, Level1!Hi, Level1!InBlock, Level1!Holds, Level1!BlockStart, Level1!Cov,
      Level0!Lo, Level0!Hi, Level0!InBlock, Level0!Holds, Level0!BlockStart, Level0!Cov
<1>3. /\ \A s, a, b : Level1!Piece(s, a, b) <=> Level0!Piece(s, a, b)
      /\ \A T : Level1!Segments(T) <=> Level0!Segments(T)
      /\ \A x : Level1!Shape(x) <=> Level0!Shape(x)
      /\ \A x : Level1!Counted(x) <=> Level0!Counted(x)
      /\ \A x : Level1!Flagged(x) <=> Level0!Flagged(x)
      /\ \A x, g : Level1!Placed(x, g) <=> Level0!Placed(x, g)
      /\ \A x, g : Level1!Linked(x, g) <=> Level0!Linked(x, g)
      /\ \A x, e : Level1!Filled(x, e) <=> Level0!Filled(x, e)
  BY Zenon DEF
      Level1!Piece, Level1!Levels, Level1!PieceAt, Level1!Addr, Level1!LastAddr, Level1!Span,
      Level1!Cell, Level1!Segments, Level1!Shape, Level1!BITS_TO_LONGS, Level1!BitsOfWord,
      Level1!Index, Level1!IsBlock, Level1!IsNode, Level1!Ids, Level1!MAX_LEVEL_ID_SIZE,
      Level1!NodeFields, Level1!Mapped, Level1!BlockOf, Level1!Root, Level1!TableFields,
      Level1!Counted, Level1!Cardinality, Level1!IsFiniteSet, Level1!InMapt, Level1!UsedIds,
      Level1!Ones, Level1!BitOf, Level1!WordOf, Level1!ValidAt, Level1!Flagged, Level1!Placed,
      Level1!Linked, Level1!Level, Level1!Num, Level1!Valid, Level1!Filled, Level0!Piece,
      Level0!Levels, Level0!PieceAt, Level0!Addr, Level0!LastAddr, Level0!Span, Level0!Cell,
      Level0!Segments, Level0!Shape, Level0!BITS_TO_LONGS, Level0!BitsOfWord, Level0!Index,
      Level0!IsBlock, Level0!IsNode, Level0!Ids, Level0!MAX_LEVEL_ID_SIZE, Level0!NodeFields,
      Level0!Mapped, Level0!BlockOf, Level0!Root, Level0!TableFields, Level0!Counted,
      Level0!Cardinality, Level0!IsFiniteSet, Level0!InMapt, Level0!UsedIds, Level0!Ones,
      Level0!BitOf, Level0!WordOf, Level0!ValidAt, Level0!Flagged, Level0!Placed,
      Level0!Linked, Level0!Level, Level0!Num, Level0!Valid, Level0!Filled
<1>4. /\ Level1!TableFields = Level0!TableFields
      /\ \A r, s : Level1!SameContent(r, s) <=> Level0!SameContent(r, s)
      /\ \A s, d : Level1!Asked(s, d) <=> Level0!Asked(s, d)
      /\ \A s, d, op : Level1!Ready(s, d, op) <=> Level0!Ready(s, d, op)
      /\ \A r, d, op : Level1!Tokened(r, d, op) = Level0!Tokened(r, d, op)
      /\ \A s, r : Level1!Agrees(s, r) <=> Level0!Agrees(s, r)
  BY Zenon DEF
      Level1!TableFields, Level1!SameContent, Level1!NodeFields, Level1!Asked, Level1!Ready,
      Level1!UMMU_ADD_TOKEN, Level1!UMMU_REMOVE_TOKEN, Level1!Tokened,
      Level1!UMMU_MAX_TOKEN_NUM, Level1!Agrees, Level0!TableFields, Level0!SameContent,
      Level0!NodeFields, Level0!Asked, Level0!Ready, Level0!UMMU_ADD_TOKEN,
      Level0!UMMU_REMOVE_TOKEN, Level0!Tokened, Level0!UMMU_MAX_TOKEN_NUM, Level0!Agrees
<1>5. /\ \A x, g, j : Level1!Disjoint(x, g, j) <=> Level0!Disjoint(x, g, j)
      /\ \A x, g, j, T : Level1!Paid(x, g, j, T) <=> Level0!Paid(x, g, j, T)
      /\ \A x, pre, id : Level1!LeadsTo(x, pre, id) <=> Level0!LeadsTo(x, pre, id)
      /\ \A x, y, g, l, n : Level1!Framed(x, y, g, l, n) <=> Level0!Framed(x, y, g, l, n)
      /\ \A x, y, pre : Level1!Stays(x, y, pre) <=> Level0!Stays(x, y, pre)
      /\ \A x, g, s : Level1!Fresh(x, g, s) <=> Level0!Fresh(x, g, s)
      /\ \A x, g, l, a : Level1!Stuck(x, g, l, a) <=> Level0!Stuck(x, g, l, a)
      /\ \A x, g, l, aLo, aHi :
            Level1!NoUpper(x, g, l, aLo, aHi) <=> Level0!NoUpper(x, g, l, aLo, aHi)
      /\ \A x, y, g : Level1!RootOpen(x, y, g) <=> Level0!RootOpen(x, y, g)
      /\ \A x, g, h : Level1!SameGeo(x, g, h) <=> Level0!SameGeo(x, g, h)
      /\ \A x, y, g, h, l :
            Level1!FramedAbove(x, y, g, h, l) <=> Level0!FramedAbove(x, y, g, h, l)
      /\ \A x, g, s, id, a :
            Level1!FromHere(x, g, s, id, a) <=> Level0!FromHere(x, g, s, id, a)
      /\ \A x, g, n, a, b :
            Level1!StartsIn(x, g, n, a, b) <=> Level0!StartsIn(x, g, n, a, b)
      /\ \A x, y, g, d, op, a, b :
            Level1!Updated(x, y, g, d, op, a, b) <=> Level0!Updated(x, y, g, d, op, a, b)
  BY <1>1, <1>2, <1>4 DEF
      Level1!Disjoint, Level1!Paid, Level1!LeadsTo, Level1!Framed, Level1!Stays, Level1!Fresh,
      Level1!Stuck, Level1!Index, Level1!NoUpper, Level1!RootOpen, Level1!SameGeo,
      Level1!FramedAbove, Level1!FromHere, Level1!StartsIn, Level1!Updated, Level0!Disjoint,
      Level0!Paid, Level0!LeadsTo, Level0!Framed, Level0!Stays, Level0!Fresh, Level0!Stuck,
      Level0!Index, Level0!NoUpper, Level0!RootOpen, Level0!SameGeo, Level0!FramedAbove,
      Level0!FromHere, Level0!StartsIn, Level0!Updated
<1>6. /\ \A x, g, j, T : Level1!Content(x, g, j, T) <=> Level0!Content(x, g, j, T)
      /\ \A x, g, j, T : Level1!First(x, g, j, T) <=> Level0!First(x, g, j, T)
      /\ \A g, s, id, aLo, aHi :
            Level1!RangeIn(g, s, id, aLo, aHi) <=> Level0!RangeIn(g, s, id, aLo, aHi)
      /\ \A x, y, g, s : Level1!Trim(x, y, g, s) <=> Level0!Trim(x, y, g, s)
      /\ \A x, y, g, j, k : Level1!SameCov(x, y, g, j, k) <=> Level0!SameCov(x, y, g, j, k)
      /\ \A g, id, lo, hi, aLo, aHi :
            Level1!Offsets(g, id, lo, hi, aLo, aHi)
            <=> Level0!Offsets(g, id, lo, hi, aLo, aHi)
      /\ \A x, g, s, id : Level1!Clean(x, g, s, id) <=> Level0!Clean(x, g, s, id)
  BY <1>1, <1>2, <1>3, <1>4 DEF
      Level1!Content, Level1!First, Level1!RangeIn, Level1!Trim, Level1!SameCov,
      Level1!Offsets, Level1!Clean, Level0!Content, Level0!First, Level0!RangeIn, Level0!Trim,
      Level0!SameCov, Level0!Offsets, Level0!Clean
<1>7. /\ \A x, g, e : Level1!Sound(x, g, e) <=> Level0!Sound(x, g, e)
      /\ \A x, g, j, T : Level1!Holding(x, g, j, T) <=> Level0!Holding(x, g, j, T)
      /\ \A x, g, j, e, T : Level1!Inv(x, g, j, e, T) <=> Level0!Inv(x, g, j, e, T)
      /\ \A g, s, id, aLo, aHi :
            Level1!WholeIn(g, s, id, aLo, aHi) <=> Level0!WholeIn(g, s, id, aLo, aHi)
  BY <1>1, <1>2, <1>3, <1>5, <1>6 DEF
      Level1!Sound, Level1!Holding, Level1!Inv, Level1!WholeIn, Level0!Sound, Level0!Holding,
      Level0!Inv, Level0!WholeIn
<1>10. /\ \A s, l, a : Level1!Touched(s, l, a) <=> Level0!Touched(s, l, a)
       /\ \A x, y : Level1!Grown(x, y) <=> Level0!Grown(x, y)
       /\ \A x, y, g, j, l, c :
             Level1!Elsewhere(x, y, g, j, l, c) <=> Level0!Elsewhere(x, y, g, j, l, c)
  BY <1>1, <1>2, <1>4 DEF
      Level1!Touched, Level1!Grown, Level1!Elsewhere, Level0!Touched, Level0!Grown, Level0!Elsewhere
<1>11. \A x, y, g, s : Level1!Unmoved(x, y, g, s) <=> Level0!Unmoved(x, y, g, s)
  BY <1>1, <1>2, <1>4, <1>10 DEF Level1!Unmoved, Level0!Unmoved
<1>8. /\ \A x, g, n, T, l : Level1!SwapPre(x, g, n, T, l) <=> Level0!SwapPre(x, g, n, T, l)
      /\ \A x, y, g, n, T, l :
            Level1!SwapPost(x, y, g, n, T, l) <=> Level0!SwapPost(x, y, g, n, T, l)
      /\ \A x, g, s, pre, id, aLo, aHi, m, T, l :
            Level1!ClearPre(x, g, s, pre, id, aLo, aHi, m, T, l)
            <=> Level0!ClearPre(x, g, s, pre, id, aLo, aHi, m, T, l)
      /\ \A x, g, s, d, pre, id, q, aLo, aHi, T, l :
            Level1!FillAt(x, g, s, d, pre, id, q, aLo, aHi, T, l)
            <=> Level0!FillAt(x, g, s, d, pre, id, q, aLo, aHi, T, l)
      /\ \A x, y, g, s, pre, aLo, aHi, T, l :
            Level1!Cleared(x, y, g, s, pre, aLo, aHi, T, l)
            <=> Level0!Cleared(x, y, g, s, pre, aLo, aHi, T, l)
      /\ \A x, y, g, s, pre, aLo, aHi, m, T, l :
            Level1!ClearPost(x, y, g, s, pre, aLo, aHi, m, T, l)
            <=> Level0!ClearPost(x, y, g, s, pre, aLo, aHi, m, T, l)
      /\ \A x, y, g, h, s, a, b, T, l :
            Level1!Added(x, y, g, h, s, a, b, T, l)
            <=> Level0!Added(x, y, g, h, s, a, b, T, l)
  BY <1>1, <1>2, <1>4, <1>5, <1>6, <1>7, <1>10, <1>11 DEF
      Level1!SwapPre, Level1!SwapPost, Level1!ClearPre, Level1!FillAt, Level1!Cleared,
      Level1!ClearPost, Level1!Added, Level0!SwapPre, Level0!SwapPost, Level0!ClearPre,
      Level0!FillAt, Level0!Cleared, Level0!ClearPost, Level0!Added
<1>9. /\ \A x, y, g, s, aLo, aHi, T, l :
            Level1!FillPost(x, y, g, s, aLo, aHi, T, l)
            <=> Level0!FillPost(x, y, g, s, aLo, aHi, T, l)
      /\ \A x, g, s, d, op, pre, id, aLo, aHi, T, l :
            Level1!TokenWalk(x, g, s, d, op, pre, id, aLo, aHi, T, l)
            <=> Level0!TokenWalk(x, g, s, d, op, pre, id, aLo, aHi, T, l)
      /\ \A x, y, g, s, d, op, pre, id, aLo, aHi, T, l :
            Level1!UpdatePre(x, y, g, s, d, op, pre, id, aLo, aHi, T, l)
            <=> Level0!UpdatePre(x, y, g, s, d, op, pre, id, aLo, aHi, T, l)
      /\ \A x, z, g, s, d, op, aHi :
            Level1!UpdatePost(x, z, g, s, d, op, aHi)
            <=> Level0!UpdatePost(x, z, g, s, d, op, aHi)
  BY <1>1, <1>2, <1>4, <1>5, <1>6, <1>7, <1>8 DEF
      Level1!FillPost, Level1!TokenWalk, Level1!UpdatePre, Level1!UpdatePost, Level0!FillPost,
      Level0!TokenWalk, Level0!UpdatePre, Level0!UpdatePost
<1> QED BY <1>6, <1>8, <1>9

\* What the theorems of the instances assume.
LEMMA Params ==
    /\ BITS_PER_LONG \in Nat \ {0} /\ Page \in Nat \ {0}
    /\ Fan \in Nat \ {0, 1} /\ LastLevel \in 0 .. 3 /\ Per \in Nat \ {0} /\ Blocks \in Nat \ {0}
  BY FanAssumption, BlockAssumption, PageAssumption, BitmapAssumption

\* There is no level below the last one.
LEMMA Level3Keeps == Level3!LevelOK
<1>1. 3 \in Nat /\ 3 >= LastLevel
  BY FanAssumption
<1>2. Level3!BelowOK
  BY <1>1, Params, Level3!NothingBelow
<1> QED BY <1>1, <1>2, Params, Level3!LevelKeeps

\* Level 2 keeps its promises.
LEMMA Level2Keeps == Level2!LevelOK
<1>0. /\ Level3!SwapOK /\ Level3!ClearOK /\ Level3!FillOK /\ Level3!UpdateOK
      /\ 2 + 1 = 3 /\ 2 \in Nat
  BY Level3Keeps DEF Level3!LevelOK
<1>1. Level2!SwapBelowOK
  BY <1>0, Same32 DEF Level2!SwapBelowOK, Level3!SwapOK
<1>2. Level2!ClearBelowOK
  BY <1>0, Same32 DEF Level2!ClearBelowOK, Level3!ClearOK
<1>3. Level2!FillBelowOK
  BY <1>0, Same32 DEF Level2!FillBelowOK, Level3!FillOK
<1>4. Level2!UpdateBelowOK
  BY <1>0, Same32 DEF Level2!UpdateBelowOK, Level3!UpdateOK
<1>5. Level2!BelowOK
  BY <1>1, <1>2, <1>3, <1>4 DEF Level2!BelowOK
<1> QED BY <1>0, <1>5, Params, Level2!LevelKeeps

\* Level 1 keeps its promises.
LEMMA Level1Keeps == Level1!LevelOK
<1>0. /\ Level2!SwapOK /\ Level2!ClearOK /\ Level2!FillOK /\ Level2!UpdateOK
      /\ 1 + 1 = 2 /\ 1 \in Nat
  BY Level2Keeps DEF Level2!LevelOK
<1>1. Level1!SwapBelowOK
  BY <1>0, Same21 DEF Level1!SwapBelowOK, Level2!SwapOK
<1>2. Level1!ClearBelowOK
  BY <1>0, Same21 DEF Level1!ClearBelowOK, Level2!ClearOK
<1>3. Level1!FillBelowOK
  BY <1>0, Same21 DEF Level1!FillBelowOK, Level2!FillOK
<1>4. Level1!UpdateBelowOK
  BY <1>0, Same21 DEF Level1!UpdateBelowOK, Level2!UpdateOK
<1>5. Level1!BelowOK
  BY <1>1, <1>2, <1>3, <1>4 DEF Level1!BelowOK
<1> QED BY <1>0, <1>5, Params, Level1!LevelKeeps

\* Below the top level the promises are kept.
LEMMA BelowTop == Level0!BelowOK
<1>0. /\ Level1!SwapOK /\ Level1!ClearOK /\ Level1!FillOK /\ Level1!UpdateOK
      /\ 0 + 1 = 1 /\ 0 \in Nat
  BY Level1Keeps DEF Level1!LevelOK
<1>1. Level0!SwapBelowOK
  BY <1>0, Same10 DEF Level0!SwapBelowOK, Level1!SwapOK
<1>2. Level0!ClearBelowOK
  BY <1>0, Same10 DEF Level0!ClearBelowOK, Level1!ClearOK
<1>3. Level0!FillBelowOK
  BY <1>0, Same10 DEF Level0!FillBelowOK, Level1!FillOK
<1>4. Level0!UpdateBelowOK
  BY <1>0, Same10 DEF Level0!UpdateBelowOK, Level1!UpdateOK
<1> QED BY <1>1, <1>2, <1>3, <1>4 DEF Level0!BelowOK

-----------------------------------------------------------------------------
(* The table between the calls.                                            *)

\* The operators of LevelBlock are those of the top level.
LEMMA SameTop ==
    /\ Level0!Root = Root /\ Level0!ZeroNode = ZeroNode /\ Level0!LastAddr = LastAddr
    /\ \A f, S, v : Level0!With(f, S, v) = With(f, S, v)
    /\ \A f, S : Level0!Without(f, S) = Without(f, S)
    /\ \A x : Level0!Fail(x) = Fail(x)
    /\ \A id : Level0!BlockOf(id) = BlockOf(id)
    /\ Level0!MAX_LEVEL_ID_SIZE = MAX_LEVEL_ID_SIZE
    /\ \A n : Level0!NoBits(n) = NoBits(n)
    /\ Level0!Index = 0 .. Fan - 1 /\ Level0!Addr = 0 .. LastAddr
    /\ \A S : Level0!Cardinality(S) = Cardinality(S)
    /\ \A b, n : Level0!Ones(b, n) = Ones(b, n)
  BY Zenon DEF Level0!Root, Root, Level0!ZeroNode, ZeroNode, Level0!LastAddr, LastAddr,
     Level0!Span, Span, Level0!With, With, Level0!Without, Without, Level0!Fail, Fail,
     Level0!BlockOf, BlockOf, Level0!MAX_LEVEL_ID_SIZE, MAX_LEVEL_ID_SIZE, Level0!NoBits, NoBits,
     Level0!BITS_TO_LONGS, BITS_TO_LONGS, Level0!Index, Level0!Addr, Level0!Ones, Ones,
     Level0!BitOf, BitOf, Level0!WordOf, WordOf,
     Level0!Cardinality, Cardinality, Level0!IsFiniteSet, IsFiniteSet

\* What the theorems about the segment manager assume.
LEMMA SegParams ==
    /\ LastAddr \in Nat /\ Page \in Nat \ {0}
    /\ Base \subseteq Nat /\ Size \subseteq Nat /\ GrantToken \subseteq Token \cup {NoToken}
    /\ BadAttr \notin Attr /\ ZeroToken \in Token /\ NoToken \notin Token
<1>1. Level0!LastAddr \in Nat
  BY Params, Level0!SpanFacts
<1> QED BY <1>1, SameTop, PageAssumption, InputAssumption, AttrAssumption, TokenAssumption

-----------------------------------------------------------------------------
(* The invariant.                                                          *)

\* The table holds what the segment manager records.
TableOK == live => \E g : Level0!Exact(Table(0), g, segs)
TInv == /\ Seg!IInv /\ TableOK /\ Root \notin DOMAIN node
        /\ ~live => segs = {}
        /\ stale = {}

\* How a call finds the table.
LEMMA TableStart ==
    ASSUME Root \notin DOMAIN node, NEW mem, NEW g, Level0!Exact(Table(0), g, segs)
    PROVE  /\ Level0!Exact(Table(mem), g, segs) /\ Table(mem).ret = "ok"
           /\ Table(mem).node[Level0!Root].type = 0 /\ Table(mem).lvl \in Level0!Levels
<1>1. /\ DOMAIN Table(mem) = {"node", "bitmap", "block", "expan", "mem", "lvl", "ret"}
      /\ Table(mem).node = Table(0).node /\ Table(mem).bitmap = Table(0).bitmap
      /\ Table(mem).block = Table(0).block /\ Table(mem).ret = "ok"
      /\ Table(mem).node = With(node, {Root}, ZeroNode)
  BY DEF Table
<1>2. Table(mem).node[Level0!Root].type = 0
  BY <1>1, SameTop DEF With, ZeroNode
<1>3. Level0!Inv(Table(0), g, Level0!Root, 0, segs)
  BY DEF Level0!Exact
<1>4. Level0!Alike(Table(0), Table(mem))
  BY <1>1 DEF Level0!Alike, Level0!TableFields
<1>5. Level0!Exact(Table(mem), g, segs)
  BY <1>3, <1>4, Params, Level0!AlikeInv DEF Level0!Exact
<1>6. Table(mem).lvl \in Level0!Levels
  BY Params DEF Table, Level0!Levels
<1> QED BY <1>1, <1>2, <1>5, <1>6

\* How a call leaves the table: the next one has a new root node.
LEMMA TableAgain ==
    ASSUME NEW x, NEW h, NEW T, Level0!Exact(x, h, T), NEW n, n = Without(x.node, {Root}),
           NEW z, DOMAIN z = Level0!TableFields, z.node = With(n, {Root}, ZeroNode),
           z.bitmap = x.bitmap, z.block = x.block
    PROVE  Level0!Exact(z, h, T) /\ Root \notin DOMAIN n
<1>1. z.node = Level0!With(Level0!Without(x.node, {Level0!Root}), {Level0!Root}, Level0!ZeroNode)
  BY SameTop
<1>2. Level0!Exact(z, h, T)
  BY <1>1, Params, Level0!StoredExact
<1>3. Root \notin DOMAIN n
  BY DEF Without
<1> QED BY <1>2, <1>3

\* The same for the step that leaves it.
LEMMA TableEnd ==
    ASSUME NEW x, NEW h, NEW T, Level0!Exact(x, h, T),
           node' = Without(x.node, {Root}), bitmap' = x.bitmap, block' = x.block
    PROVE  Level0!Exact(Table(0)', h, T) /\ Root \notin DOMAIN node'
<1>1. /\ DOMAIN Table(0)' = Level0!TableFields
      /\ (Table(0)').node = With(node', {Root}, ZeroNode)
      /\ (Table(0)').bitmap = bitmap' /\ (Table(0)').block = block'
  BY DEF Table, Level0!TableFields
<1> QED BY <1>1, TableAgain

-----------------------------------------------------------------------------
(* The device.                                                             *)

\* The device reads the top level as any other.
LEMMA SameMatch ==
    ASSUME NEW y, NEW c, NEW k PROVE Level0!MatchNode(y, c, k) = MatchNode(y, c, k)
<1>1. /\ \A l : Level0!Span(l) = Span(l)
      /\ \A a, l : Level0!GET_LEVEL_BLOCK_INDEX(a, l) = GET_LEVEL_BLOCK_INDEX(a, l)
  BY Zenon DEF Level0!Span, Span, Level0!GET_LEVEL_BLOCK_INDEX, GET_LEVEL_BLOCK_INDEX
<1>2. /\ Level0!Span(k - 1) = Span(k - 1)
      /\ Level0!GET_LEVEL_BLOCK_INDEX(c.addr, k - 1) = GET_LEVEL_BLOCK_INDEX(c.addr, k - 1)
  BY <1>1, Zenon
<1> QED BY <1>2 DEF MatchNode, Level0!MatchNode

\* What the device knows of an address after the last level.
LEMMA DeviceWalks ==
    ASSUME NEW x, NEW g, NEW T, Level0!Inv(x, g, Level0!Root, 0, T),
           NEW f, Level0!HasNodes(x, f), NEW a \in 0 .. LastAddr
    PROVE  \E y : Level0!Walked(x, g, a, y, LastLevel + 1) /\ Match(f, a) = y.hit
<1> DEFINE y0 == [id |-> 0, stop |-> FALSE, hit |-> {}]
           c  == [nodes |-> f, addr |-> a]
           R(k) == Walk!Iterate(y0, c, k)
           Good(k) == Level0!Walked(x, g, a, R(k), k)
           K  == {k \in Nat : k <= LastLevel + 1 => Good(k)}
<1>2. a \in Level0!Addr /\ LastLevel \in Nat /\ Level0!Levels = 0 .. LastLevel
  BY SameTop, Params DEF Level0!Levels
<1>3. c.addr = a /\ c.nodes = f /\ y0.stop = FALSE /\ y0.hit = {} /\ y0.id = 0
  OBVIOUS
<1> HIDE DEF y0, c
<1>4. R(0) = y0 /\ \A n \in Nat : R(n + 1) = MatchNode(R(n), c, n + 1)
  BY Walk!IterateStep
<1>5. Good(0)
  BY <1>2, <1>3, <1>4, Params, Level0!MatchStart
<1>6. ASSUME NEW k \in Nat, k < LastLevel + 1, Good(k) PROVE Good(k + 1)
  <2>1. k \in Level0!Levels
    BY <1>2, <1>6
  <2>2. R(k + 1) = Level0!MatchNode(R(k), c, k + 1)
    BY <1>4, <1>6, SameMatch
  <2>3. \A n \in Level0!UsedIds(x) \X Level0!Index : c.nodes[n] = x.node[n]
    BY <1>3 DEF Level0!HasNodes
  <2> HIDE DEF R
  <2>4. Level0!Walked(x, g, a, Level0!MatchNode(R(k), c, k + 1), k + 1)
    BY <1>2, <1>3, <1>6, <2>1, <2>3, Params, Level0!MatchPass
  <2> QED BY <2>2, <2>4
<1> HIDE DEF R, Good
<1>7. 0 \in K
  BY <1>5
<1>8. \A k \in Nat : k \in K => k + 1 \in K
  BY <1>2, <1>6
<1>9. Nat \subseteq K
  BY <1>7, <1>8, Walk!NatSetInduction
<1>10. Good(LastLevel + 1)
  BY <1>2, <1>9
<1>11. Match(f, a) = R(LastLevel + 1).hit
  BY DEF Match, R, y0, c
<1> QED BY <1>10, <1>11 DEF Good

\* The nodes of the level blocks in use are those between the calls.
LEMMA TableNodes ==
    ASSUME NEW mem, NEW g, NEW T, Level0!Exact(Table(mem), g, T)
    PROVE  Level0!HasNodes(Table(mem), node)
<1>1. Table(mem).node = With(node, {Root}, ZeroNode)
  BY DEF Table
<1>2. Level0!Shape(Table(mem)) /\ Level0!Counted(Table(mem))
  BY DEF Level0!Exact, Level0!Inv, Level0!Sound
<1>3. ASSUME NEW n \in Level0!UsedIds(Table(mem)) \X Level0!Index
      PROVE  node[n] = Table(mem).node[n]
  <2>1. n \in DOMAIN Table(mem).node /\ n # Root
    BY <1>2, Params, SameTop, Level0!UsedNode
  <2> QED BY <1>1, <2>1 DEF With
<1> QED BY <1>3 DEF Level0!HasNodes

\* The PLB keeps the same of two nodes that differ only in where the next
\* level is.
LEMMA SameEntry ==
    ASSUME NEW old, NEW new, Level0!SameHit(old, new) PROVE ~Outdated(old, new)
<1>1. CASE old = {}
  BY <1>1 DEF Outdated
<1>2. CASE old # {}
  <2>1. PICK l, r, q : old = {<<l, r>>} /\ new = {<<l, q>>} /\ Level0!SameContent(r, q)
    BY <1>2 DEF Level0!SameHit
  <2>2. /\ r.base = q.base /\ r.limit = q.limit /\ r.attr = q.attr
        /\ r.token_check = q.token_check /\ r.tok0 = q.tok0 /\ r.tok1 = q.tok1
    BY <2>1 DEF Level0!SameContent, Level0!NodeFields
  <2>3. Access(r) = Access(q)
    BY <2>2 DEF Access
  <2> DEFINE E(m) == [level |-> m[1], base |-> m[2].base, limit |-> m[2].limit,
                      access |-> Access(m[2])]
  <2>4. E(<<l, r>>) = E(<<l, q>>)
    BY <2>2, <2>3
  <2>5. Entry(old) = {E(m) : m \in old} /\ Entry(new) = {E(m) : m \in new}
    BY DEF Entry
  <2> HIDE DEF E
  <2> QED BY <2>1, <2>4, <2>5 DEF Outdated
<1> QED BY <1>1, <1>2

\* Where the table still holds what it held the PLB is up to date.
LEMMA StillMatched ==
    ASSUME NEW mem, NEW g, NEW T, Level0!Exact(Table(mem), g, T),
           NEW x, NEW h, NEW U, Level0!Exact(x, h, U), NEW a \in 0 .. LastAddr,
           Level0!StillHolds(Table(mem), x, g, h, a)
    PROVE  ~Outdated(Match(node, a), Match(x.node, a))
<1>1. /\ Level0!Inv(Table(mem), g, Level0!Root, 0, T) /\ Level0!Inv(x, h, Level0!Root, 0, U)
      /\ a \in Level0!Addr
  BY SameTop DEF Level0!Exact
<1>2. Level0!HasNodes(Table(mem), node) /\ Level0!HasNodes(x, x.node)
  BY TableNodes DEF Level0!HasNodes
<1>3. PICK p : Level0!Walked(Table(mem), g, a, p, LastLevel + 1) /\ Match(node, a) = p.hit
  BY <1>1, <1>2, DeviceWalks
<1>4. PICK q : Level0!Walked(x, h, a, q, LastLevel + 1) /\ Match(x.node, a) = q.hit
  BY <1>1, <1>2, DeviceWalks
<1>5. Level0!SameHit(p.hit, q.hit)
  BY <1>1, <1>3, <1>4, Params, Level0!HitStays
<1> QED BY <1>3, <1>4, <1>5, SameEntry

\* So a call leaves nothing stale if every address is in what it invalidates
\* or is held as before.
LEMMA NothingStale ==
    ASSUME stale = {}, NEW mem, NEW g, NEW T, Level0!Exact(Table(mem), g, T),
           NEW x, NEW h, NEW U, Level0!Exact(x, h, U),
           NEW plbi, stale' = StaleAfter(x.node, plbi),
           \A a \in Level0!Addr : a \in plbi \/ Level0!StillHolds(Table(mem), x, g, h, a)
    PROVE  stale' = {}
<1>1. \A a \in 0 .. LastAddr : a \in plbi \/ ~Outdated(Match(node, a), Match(x.node, a))
  BY SameTop, StillMatched
<1> QED BY <1>1 DEF StaleAfter

-----------------------------------------------------------------------------
(* The range of an invalidation.                                           *)

\* The loop stops with a power of two that is not less than the size.
LEMMA Log2Covers ==
    ASSUME NEW size \in Nat \ {0}
    PROVE  get_minist_log2size_range(size) \in Nat /\ size <= get_minist_log2size_range(size)
<1> DEFINE y0 == [temp |-> size - 1, covered |-> 1]
           R(k) == Shift!Iterate(y0, {}, k)
           Good(k) == /\ R(k).temp \in Nat /\ R(k).covered \in Nat
                      /\ size <= (R(k).temp + 1) * R(k).covered
                      /\ R(k).temp = 0 \/ R(k).temp <= size - 1 - k
           K == {k \in Nat : Good(k)}
<1>1. get_minist_log2size_range(size) = R(size).covered
  BY DEF get_minist_log2size_range
<1>2. y0.temp = size - 1 /\ y0.covered = 1
  OBVIOUS
<1> HIDE DEF y0
<1>3. R(0) = y0 /\ \A n \in Nat : R(n + 1) = ShiftPass(R(n), {}, n + 1)
  BY Shift!IterateStep
<1> HIDE DEF R
<1>4. Good(0)
  BY <1>2, <1>3
<1>5. ASSUME NEW k \in Nat, Good(k) PROVE Good(k + 1)
  <2> DEFINE t == R(k).temp
             v == R(k).covered
             h == t \div 2
  <2>1. t \in Nat /\ v \in Nat /\ size <= (t + 1) * v /\ (t = 0 \/ t <= size - 1 - k)
    BY <1>5
  <2>2. R(k + 1) = IF t = 0 THEN R(k) ELSE [temp |-> h, covered |-> 2 * v]
    BY <1>3 DEF ShiftPass
  <2>3. CASE t = 0
    BY <1>5, <2>2, <2>3
  <2>4. CASE t # 0
    <3>1. R(k + 1).temp = h /\ R(k + 1).covered = 2 * v
      BY <2>2, <2>4
    <3> HIDE DEF t, v
    <3>2. h \in Nat /\ t + 1 <= 2 * (h + 1) /\ h <= t - 1
      BY <2>1, <2>4
    <3> HIDE DEF h
    <3>3. (t + 1) * v <= (2 * (h + 1)) * v
      BY <2>1, <3>2, Params, Level0!Multiples
    <3>4. (2 * (h + 1)) * v = (h + 1) * (2 * v) /\ (t + 1) * v \in Nat /\ (h + 1) * (2 * v) \in Nat
      BY <2>1, <3>2
    <3>5. size <= (h + 1) * (2 * v) /\ (h = 0 \/ h <= size - 1 - (k + 1)) /\ 2 * v \in Nat
      BY <2>1, <2>4, <3>2, <3>3, <3>4
    <3> QED BY <3>1, <3>2, <3>5
  <2> QED BY <2>3, <2>4
<1>6. Nat \subseteq K
  <2> HIDE DEF Good
  <2>1. 0 \in K /\ \A k \in Nat : k \in K => k + 1 \in K
    BY <1>4, <1>5
  <2> HIDE DEF K
  <2> QED BY <2>1, Shift!NatSetInduction
<1>7. Good(size)
  BY <1>6
<1>8. R(size).temp = 0
  BY <1>7
<1> QED BY <1>1, <1>7, <1>8

\* A PLBI_VA command covers every address of the range it is given,
LEMMA PlbiCovers ==
    ASSUME NEW base \in Nat, NEW size \in Nat \ {0}, NEW a \in Nat, base <= a, a <= base + size - 1
    PROVE  a \in ummu_plbi_va_cmd(base, size)
<1> DEFINE w == get_minist_log2size_range(size)
<1>1. w \in Nat /\ size <= w
  BY Log2Covers
<1>2. ummu_plbi_va_cmd(base, size) = base .. base + w - 1
  BY DEF ummu_plbi_va_cmd
<1> HIDE DEF w
<1> QED BY <1>1, <1>2

\* that is, the range.
LEMMA RangeCovered ==
    ASSUME NEW base \in Nat, NEW size \in Nat
    PROVE  base .. base + size - 1 \subseteq ummu_plbi_va_cmd(base, size)
<1> SUFFICES ASSUME NEW a \in base .. base + size - 1 PROVE a \in ummu_plbi_va_cmd(base, size)
  OBVIOUS
<1>1. size \in Nat \ {0} /\ a \in Nat /\ base <= a /\ a <= base + size - 1
  OBVIOUS
<1> QED BY <1>1, PlbiCovers

\* The range of an ungrant has the cells that the segment touches, at the
\* level down to which content has moved.
LEMMA UngrantCovers ==
    ASSUME NEW u, u.base \in Nat, u.size \in Nat, NEW s, Seg!Meant(s, u),
           NEW lvl \in Level0!Levels, NEW a \in Level0!Addr, Level0!Touched(s, lvl, a)
    PROVE  a \in UngrantPlbi(u, lvl)
<1> DEFINE k == IF lvl # 0 THEN lvl - 1 ELSE 0
           p == Span(k)
           m == u.base % p
           z == (((u.size + m) + p - 1) \div p) * p
<1>1. k \in Level0!Levels /\ k <= lvl /\ a \in Nat
  BY Params, SameTop, SegParams DEF Level0!Levels
<1>2. Level0!Span(k) = p
  BY Zenon DEF Level0!Span, Span
<1>3. UngrantPlbi(u, lvl) = ummu_plbi_va_cmd(u.base - m, z)
  BY DEF UngrantPlbi
<1> HIDE DEF k, p
<1>4. s.left = u.base /\ s.right = u.base + u.size - 1
  BY DEF Seg!Meant
<1>5. PICK q \in s.left .. s.right : Level0!Cell(lvl, a) = Level0!Cell(lvl, q)
  BY DEF Level0!Touched
<1>6. q \in Nat /\ u.base <= q /\ q <= u.base + u.size - 1 /\ p \in Nat \ {0}
  BY <1>1, <1>2, <1>4, <1>5, Params, Level0!SpanFacts
<1>7. a \div p = q \div p
  BY <1>1, <1>2, <1>5, <1>6, Params, Level0!CellNested DEF Level0!Cell
<1>8. Seg!SpanOf(a, q, p, u.base, u.size, m, z)
  BY <1>1, <1>6, <1>7, Zenon DEF Seg!SpanOf
<1> HIDE DEF m, z
<1>9. u.base - m \in Nat /\ z \in Nat \ {0} /\ u.base - m <= a /\ a <= (u.base - m) + z - 1
  BY <1>8, SegParams, Seg!RoundedOut, Zenon
<1> QED BY <1>1, <1>3, <1>9, PlbiCovers

-----------------------------------------------------------------------------
(* The calls.                                                              *)

\* Segments that are apart have no page in common.
LEMMA ApartSegments == ASSUME NEW T, Seg!Apart(T) PROVE Level0!Segments(T)
<1>1. \A s \in T : s.left \in Level0!Addr /\ s.right \in Level0!Addr /\ s.left <= s.right
  BY SameTop, SegParams DEF Seg!Apart
<1>2. \A b : Level0!Cell(LastLevel, b) = b \div Page
  BY SameTop, Params DEF Level0!Cell, Level0!Span
<1>3. \A s, t \in T : \A a \in s.left .. s.right, b \in t.left .. t.right :
          a \div Page = b \div Page => s = t
  BY SegParams, Seg!ApartPages
<1> QED BY <1>1, <1>2, <1>3 DEF Level0!Segments

\* ummu_table_op fills the range of a GRANT,
LEMMA GrantWalk ==
    ASSUME NEW x, NEW d, NEW op, NEW s, Seg!Meant(s, d), op = Seg!UMMU_GRANT
    PROVE  ummu_table_op(x, d, op) =
               Undone(Level0!ummu_table_fill_node_by_level(x, d, Level0!Root, s.left, s.right),
                      s.left, s.right)
<1>1. s.left = d.base /\ s.right = d.base + d.size - 1 /\ Level0!Root = Root
  BY SameTop DEF Seg!Meant
<1> QED BY <1>1, Zenon DEF ummu_table_op, Seg!Meant, Seg!UMMU_GRANT, Seg!UMMU_ADD_TOKEN,
     Seg!UMMU_REMOVE_TOKEN, Seg!UMMU_UNGRANT, UMMU_GRANT, UMMU_ADD_TOKEN, UMMU_REMOVE_TOKEN,
     UMMU_UNGRANT

\* updates the nodes of an ADD_TOKEN or a REMOVE_TOKEN,
LEMMA TokenWalk ==
    ASSUME NEW x, NEW d, NEW op, NEW s, Seg!Meant(s, d),
           op \in {Seg!UMMU_ADD_TOKEN, Seg!UMMU_REMOVE_TOKEN}
    PROVE  ummu_table_op(x, d, op) =
               Level0!ummu_table_update_token_by_level(x, d, op, Level0!Root, s.left, s.right)
<1>1. s.left = d.base /\ s.right = d.base + d.size - 1 /\ Level0!Root = Root
  BY SameTop DEF Seg!Meant
<1> QED BY <1>1, Zenon DEF ummu_table_op, Seg!Meant, Seg!UMMU_GRANT, Seg!UMMU_ADD_TOKEN,
     Seg!UMMU_REMOVE_TOKEN, Seg!UMMU_UNGRANT, UMMU_GRANT, UMMU_ADD_TOKEN, UMMU_REMOVE_TOKEN,
     UMMU_UNGRANT

\* and clears the range of an UNGRANT.
LEMMA UngrantWalk ==
    ASSUME NEW x, NEW d, NEW op, NEW s, Seg!Meant(s, d), op = Seg!UMMU_UNGRANT
    PROVE  ummu_table_op(x, d, op) =
               Level0!ummu_table_clear_node_by_level(x, Level0!Root, s.left, s.right)
<1>1. s.left = d.base /\ s.right = d.base + d.size - 1 /\ Level0!Root = Root
  BY SameTop DEF Seg!Meant
<1> QED BY <1>1, Zenon DEF ummu_table_op, Seg!Meant, Seg!UMMU_GRANT, Seg!UMMU_ADD_TOKEN,
     Seg!UMMU_REMOVE_TOKEN, Seg!UMMU_UNGRANT, UMMU_GRANT, UMMU_ADD_TOKEN, UMMU_REMOVE_TOKEN,
     UMMU_UNGRANT

\* Clearing a segment the table holds.
LEMMA ClearOf ==
    ASSUME NEW x, NEW g, NEW T, Level0!Exact(x, g, T), x.ret = "ok",
           x.node[Level0!Root].type = 0, x.lvl \in Level0!Levels, NEW s \in T,
           NEW d, Seg!Meant(s, d), NEW op, op = Seg!UMMU_UNGRANT
    PROVE  LET y == ummu_table_op(x, d, op)
           IN  /\ y.ret = "ok" /\ Level0!Exact(y, g, T \ {s}) /\ y.lvl \in Level0!Levels
               /\ \A a \in Level0!Addr :
                    Level0!Touched(s, y.lvl, a) \/ Level0!StillHolds(x, y, g, g, a)
<1>1. 0 = 0 /\ Level0!SwapBelowOK /\ Level0!ClearBelowOK
  BY BelowTop DEF Level0!BelowOK
<1>2. ummu_table_op(x, d, op) =
          Level0!ummu_table_clear_node_by_level(x, Level0!Root, s.left, s.right)
  BY UngrantWalk
<1> DEFINE y == Level0!ummu_table_clear_node_by_level(x, Level0!Root, s.left, s.right)
<1>3. /\ y.ret = "ok" /\ Level0!Exact(y, g, T \ {s}) /\ y.lvl \in Level0!Levels
      /\ \A a \in Level0!Addr : Level0!Touched(s, y.lvl, a) \/ Level0!StillHolds(x, y, g, g, a)
  BY <1>1, Params, Level0!SegmentCleared
<1>4. ummu_table_op(x, d, op) = y
  BY <1>2
<1> HIDE DEF y
<1> QED BY <1>3, <1>4

\* Putting a segment apart from those the table holds.
LEMMA FillOf ==
    ASSUME NEW x, NEW g, NEW T, Level0!Exact(x, g, T), x.ret = "ok",
           x.node[Level0!Root].type = 0, x.lvl \in Level0!Levels,
           NEW s, s \notin T, Seg!Apart(T \cup {s}),
           NEW d, Level0!Asked(s, d), Seg!Meant(s, d), NEW op, op = Seg!UMMU_GRANT
    PROVE  LET u == ummu_table_op(x, d, op)
           IN  \/ u.ret = "ok" /\ \E h : Level0!Undisturbed(x, u, g, h, T \cup {s})
               \/ u.ret # "ok" /\ \E h : Level0!Undisturbed(x, u, g, h, T)
<1>1. 0 = 0 /\ Level0!SwapBelowOK /\ Level0!ClearBelowOK /\ Level0!FillBelowOK
  BY BelowTop DEF Level0!BelowOK
<1>2. Level0!Segments(T \cup {s})
  BY ApartSegments
<1> DEFINE y == Level0!ummu_table_fill_node_by_level(x, d, Level0!Root, s.left, s.right)
           z == Level0!ummu_table_clear_node_by_level([y EXCEPT !.ret = "ok"], Level0!Root,
                    s.left, s.right)
           u == IF y.ret = "ok" THEN y ELSE Level0!Fail(z)
<1>3. \/ u.ret = "ok" /\ \E h : Level0!Undisturbed(x, u, g, h, T \cup {s})
      \/ u.ret # "ok" /\ \E h : Level0!Undisturbed(x, u, g, h, T)
  BY <1>1, <1>2, Params, Level0!SegmentGranted
<1>4. ummu_table_op(x, d, op) = u
  <2>1. ummu_table_op(x, d, op) = Undone(y, s.left, s.right)
    BY GrantWalk
  <2> QED BY <2>1, SameTop, Zenon DEF Undone
<1> HIDE DEF u
<1> QED BY <1>3, <1>4

\* Adding or removing a token of a segment the table holds.
LEMMA TokenOf ==
    ASSUME NEW x, NEW g, NEW T, Level0!Exact(x, g, T), x.ret = "ok", NEW s \in T, NEW d,
           Seg!Meant(s, d), NEW op, op \in {Seg!UMMU_ADD_TOKEN, Seg!UMMU_REMOVE_TOKEN},
           Level0!Ready(s, d, op)
    PROVE  /\ ummu_table_op(x, d, op).ret = "ok"
           /\ \A t : Level0!Retokened(s, t, d, op) =>
                  Level0!Exact(ummu_table_op(x, d, op), g, (T \ {s}) \cup {t})
           /\ \A a \in Level0!Addr : \/ a \in s.left .. s.right
                                     \/ Level0!StillHolds(x, ummu_table_op(x, d, op), g, g, a)
<1>1. 0 = 0 /\ Level0!UpdateBelowOK
  BY BelowTop DEF Level0!BelowOK
<1> DEFINE y == Level0!ummu_table_update_token_by_level(x, d, op, Level0!Root, s.left, s.right)
<1>2. /\ y.ret = "ok"
      /\ \A t : Level0!Retokened(s, t, d, op) => Level0!Exact(y, g, (T \ {s}) \cup {t})
      /\ \A a \in Level0!Addr : a \in s.left .. s.right \/ Level0!StillHolds(x, y, g, g, a)
  BY <1>1, Params, Level0!SegmentTokens
<1>3. ummu_table_op(x, d, op) = y
  BY TokenWalk
<1> HIDE DEF y
<1> QED BY <1>2, <1>3

\* A grant that is let through keeps the table in step with the segments, also
\* when it fails half way.
LEMMA GrantInStep ==
    ASSUME TInv, NEW r \in Seg!GrantReq, NEW mem, ummu_grant(r, mem, FALSE)
    PROVE  TableOK' /\ Root \notin DOMAIN node' /\ stale' = {}
<1> DEFINE d   == Seg!ummu_perm_data_preproc(r)
           op  == Seg!ummu_grant_check(segs, d)
           x   == ummu_table_op(Table(mem), d, op)
           inv == IF op = Seg!UMMU_ADD_TOKEN \/ x.ret # "ok"
                  THEN ummu_plbi_va_cmd(r.base, r.size) ELSE {}
           new == Seg!ummu_update_info(op, segs, d).table
<1>1. /\ live /\ Seg!ummu_check_data(r) /\ op # Seg!UMMU_OP_END
      /\ node' = Without(x.node, {Root}) /\ bitmap' = x.bitmap /\ block' = x.block
      /\ segs' = IF x.ret = "ok" THEN new ELSE segs
      /\ stale' = StaleAfter(x.node, inv)
  BY Zenon DEF ummu_grant, Stored, UMMU_OP_END, Seg!UMMU_OP_END, UMMU_ADD_TOKEN,
     Seg!UMMU_ADD_TOKEN
<1>2. PICK g : Level0!Exact(Table(0), g, segs)
  BY <1>1 DEF TInv, TableOK
<1>3. /\ Level0!Exact(Table(mem), g, segs) /\ Table(mem).ret = "ok"
      /\ Table(mem).node[Level0!Root].type = 0 /\ Table(mem).lvl \in Level0!Levels
  BY <1>2, TableStart DEF TInv
<1>4. Seg!IInv /\ stale = {}
  BY DEF TInv
<1>7. d.base = r.base /\ d.size = r.size /\ r.base \in Nat /\ r.size \in Nat
  BY InputAssumption DEF Seg!ummu_perm_data_preproc, Seg!GrantReq
<1> HIDE DEF x
<1>5. CASE op = Seg!UMMU_GRANT /\ \E s : /\ new = segs \cup {s} /\ s \notin segs
                                         /\ Seg!Meant(s, d) /\ Seg!Apart(segs \cup {s})
                                         /\ s.attr = d.attr /\ s.token_check = d.token_check
                                         /\ d.token_check = 1 =>
                                              /\ s.tok0 = d.tokenval /\ s.tok1 = d.tokenval
                                              /\ s.token_count = 1
  <2>1. PICK s : /\ new = segs \cup {s} /\ s \notin segs
                 /\ Seg!Meant(s, d) /\ Seg!Apart(segs \cup {s}) /\ Level0!Asked(s, d)
    BY <1>5 DEF Level0!Asked
  <2> HIDE DEF d, op, new
  <2>2. \/ x.ret = "ok" /\ \E h : Level0!Undisturbed(Table(mem), x, g, h, segs \cup {s})
        \/ x.ret # "ok" /\ \E h : Level0!Undisturbed(Table(mem), x, g, h, segs)
    BY <1>3, <1>5, <2>1, FillOf DEF x
  <2>3. PICK h : Level0!Undisturbed(Table(mem), x, g, h, segs')
    BY <1>1, <2>1, <2>2
  <2>4. /\ Level0!Exact(x, h, segs')
        /\ \A a \in Level0!Addr : Level0!StillHolds(Table(mem), x, g, h, a)
    BY <2>3 DEF Level0!Undisturbed
  <2> HIDE DEF inv
  <2>5. stale' = {}
    BY <1>1, <1>3, <1>4, <2>4, NothingStale
  <2> QED BY <1>1, <2>4, <2>5, TableEnd DEF TableOK
<1>6. CASE op = Seg!UMMU_ADD_TOKEN /\ \E seg \in segs : \E t :
              /\ new = (segs \ {seg}) \cup {t} /\ Seg!Meant(seg, d)
              /\ seg.token_check = 1 /\ seg.token_count = 1
              /\ Seg!WithTokens(seg, t, seg.tok0, d.tokenval, Seg!UMMU_MAX_TOKEN_NUM)
  <2>1. PICK seg \in segs : \E t :
              /\ new = (segs \ {seg}) \cup {t} /\ Seg!Meant(seg, d)
              /\ seg.token_check = 1 /\ seg.token_count = 1
              /\ Seg!WithTokens(seg, t, seg.tok0, d.tokenval, Seg!UMMU_MAX_TOKEN_NUM)
    BY <1>6
  <2>2. PICK t : /\ new = (segs \ {seg}) \cup {t} /\ Seg!Meant(seg, d)
                 /\ seg.token_check = 1 /\ seg.token_count = 1
                 /\ Seg!WithTokens(seg, t, seg.tok0, d.tokenval, Seg!UMMU_MAX_TOKEN_NUM)
    BY <2>1
  <2> HIDE DEF d, op, new
  <2>3. Level0!Ready(seg, d, op) /\ Level0!Retokened(seg, t, d, op)
    BY <1>6, <2>2 DEF Level0!Ready, Level0!Retokened, Seg!WithTokens, Seg!UMMU_ADD_TOKEN,
       Level0!UMMU_ADD_TOKEN, Level0!UMMU_REMOVE_TOKEN, Seg!UMMU_MAX_TOKEN_NUM,
       Level0!UMMU_MAX_TOKEN_NUM
  <2>4. /\ x.ret = "ok" /\ Level0!Exact(x, g, (segs \ {seg}) \cup {t})
        /\ \A a \in Level0!Addr : a \in seg.left .. seg.right \/ Level0!StillHolds(Table(mem), x, g, g, a)
    BY <1>3, <1>6, <2>2, <2>3, TokenOf DEF x
  <2>5. Level0!Exact(x, g, segs')
    BY <1>1, <2>2, <2>4
  <2>6. \A a \in seg.left .. seg.right : a \in inv
    <3>1. inv = ummu_plbi_va_cmd(r.base, r.size)
      BY <1>6
    <3>2. seg.left = r.base /\ seg.right = r.base + r.size - 1
      BY <1>7, <2>2 DEF Seg!Meant
    <3> QED BY <1>7, <3>1, <3>2, RangeCovered
  <2>7. stale' = {}
    <3> HIDE DEF inv
    <3> QED BY <1>1, <1>3, <1>4, <2>4, <2>5, <2>6, NothingStale
  <2> QED BY <1>1, <2>5, <2>7, TableEnd DEF TableOK
<1> QED BY <1>1, <1>4, <1>5, <1>6, SegParams, Seg!GrantOutcome

\* So does an ungrant.
LEMMA UngrantInStep ==
    ASSUME TInv, NEW u \in Seg!UngrantReq, ummu_ungrant(u)
    PROVE  TableOK' /\ Root \notin DOMAIN node' /\ stale' = {}
<1> DEFINE op  == Seg!ummu_ungrant_check(segs, u)
           x   == ummu_table_op(Table(0), u, op)
           inv == IF op = Seg!UMMU_UNGRANT THEN UngrantPlbi(u, x.lvl)
                  ELSE ummu_plbi_va_cmd(u.base, u.size)
           new == Seg!ummu_update_info(op, segs, u).table
<1>1. /\ live /\ Seg!ummu_ungrant_data_check(u) /\ op # Seg!UMMU_OP_END
      /\ node' = Without(x.node, {Root}) /\ bitmap' = x.bitmap /\ block' = x.block
      /\ segs' = IF x.ret = "ok" THEN new ELSE segs
      /\ stale' = StaleAfter(x.node, inv)
  BY Zenon DEF ummu_ungrant, Stored, UMMU_OP_END, Seg!UMMU_OP_END, UMMU_UNGRANT, Seg!UMMU_UNGRANT
<1>2. PICK g : Level0!Exact(Table(0), g, segs)
  BY <1>1 DEF TInv, TableOK
<1>3. /\ Level0!Exact(Table(0), g, segs) /\ Table(0).ret = "ok"
      /\ Table(0).node[Level0!Root].type = 0 /\ Table(0).lvl \in Level0!Levels
  BY <1>2, TableStart DEF TInv
<1>4. Seg!IInv /\ stale = {}
  BY DEF TInv
<1>8. u.base \in Nat /\ u.size \in Nat
  BY InputAssumption DEF Seg!UngrantReq
<1> DEFINE Out(seg) ==
      /\ Seg!Meant(seg, u)
      /\ \/ op = Seg!UMMU_UNGRANT /\ new = segs \ {seg}
         \/ /\ op = Seg!UMMU_REMOVE_TOKEN
            /\ seg.token_check = 1 /\ u.tokenval \in {seg.tok0, seg.tok1}
            /\ \E t : LET kept == IF seg.tok0 = u.tokenval THEN seg.tok1 ELSE seg.tok0
                      IN  /\ new = (segs \ {seg}) \cup {t}
                          /\ Seg!WithTokens(seg, t, kept, kept, 1)
<1>5. PICK seg \in segs : Out(seg)
  BY <1>1, <1>4, SegParams, Seg!UngrantOutcome
<1> HIDE DEF x, op, new
<1>6. CASE op = Seg!UMMU_UNGRANT /\ new = segs \ {seg}
  <2>1. /\ x.ret = "ok" /\ Level0!Exact(x, g, segs \ {seg}) /\ x.lvl \in Level0!Levels
        /\ \A a \in Level0!Addr :
             Level0!Touched(seg, x.lvl, a) \/ Level0!StillHolds(Table(0), x, g, g, a)
    BY <1>3, <1>5, <1>6, ClearOf DEF x
  <2>2. Level0!Exact(x, g, segs')
    BY <1>1, <1>6, <2>1
  <2>3. inv = UngrantPlbi(u, x.lvl) /\ Seg!Meant(seg, u)
    BY <1>5, <1>6
  <2> DEFINE l == x.lvl
  <2>4. l \in Level0!Levels
    BY <2>1
  <2> HIDE DEF inv, l
  <2>5. \A a \in Level0!Addr : Level0!Touched(seg, l, a) => a \in UngrantPlbi(u, l)
    BY <1>8, <2>3, <2>4, UngrantCovers
  <2>6. \A a \in Level0!Addr : a \in inv \/ Level0!StillHolds(Table(0), x, g, g, a)
    BY <2>1, <2>3, <2>5 DEF l
  <2>7. stale' = {}
    BY <1>1, <1>3, <1>4, <2>2, <2>6, NothingStale
  <2> QED BY <1>1, <2>2, <2>7, TableEnd DEF TableOK
<1>7. CASE ~(op = Seg!UMMU_UNGRANT /\ new = segs \ {seg})
  <2> DEFINE kept == IF seg.tok0 = u.tokenval THEN seg.tok1 ELSE seg.tok0
  <2>1. PICK t : /\ new = (segs \ {seg}) \cup {t} /\ Seg!Meant(seg, u)
                 /\ op = Seg!UMMU_REMOVE_TOKEN
                 /\ seg.token_check = 1 /\ u.tokenval \in {seg.tok0, seg.tok1}
                 /\ Seg!WithTokens(seg, t, kept, kept, 1)
    BY <1>5, <1>7
  <2>3. Level0!Ready(seg, u, op) /\ Level0!Retokened(seg, t, u, op)
    BY <2>1 DEF Level0!Ready, Level0!Retokened, Seg!WithTokens, Seg!UMMU_REMOVE_TOKEN,
       Level0!UMMU_ADD_TOKEN, Level0!UMMU_REMOVE_TOKEN
  <2>4. /\ x.ret = "ok" /\ Level0!Exact(x, g, (segs \ {seg}) \cup {t})
        /\ \A a \in Level0!Addr : a \in seg.left .. seg.right \/ Level0!StillHolds(Table(0), x, g, g, a)
    BY <1>3, <2>1, <2>3, TokenOf DEF x
  <2>5. Level0!Exact(x, g, segs')
    BY <1>1, <2>1, <2>4
  <2>6. \A a \in seg.left .. seg.right : a \in inv
    <3>1. inv = ummu_plbi_va_cmd(u.base, u.size)
      BY <2>1 DEF Seg!UMMU_REMOVE_TOKEN, Seg!UMMU_UNGRANT
    <3>2. seg.left = u.base /\ seg.right = u.base + u.size - 1
      BY <2>1 DEF Seg!Meant
    <3> QED BY <1>8, <3>1, <3>2, RangeCovered
  <2>7. stale' = {}
    <3> HIDE DEF inv
    <3> QED BY <1>1, <1>3, <1>4, <2>4, <2>5, <2>6, NothingStale
  <2> QED BY <1>1, <2>5, <2>7, TableEnd DEF TableOK
<1> QED BY <1>6, <1>7

-----------------------------------------------------------------------------
(* A new table, and a freed one.                                           *)

\* The allocator of the first level block.
LEMMA SameAlloc ==
    ASSUME NEW x, NEW pre, NEW pb
    PROVE  Level0!ummu_alloc_level_block(x, pre, pb) = ummu_alloc_level_block(x, pre, pb)
<1>1. /\ \A b, n : Level0!find_first_zero_bit(b, n) = find_first_zero_bit(b, n)
      /\ Level0!MAX_LEVEL_ID_SIZE = MAX_LEVEL_ID_SIZE
      /\ \A id : Level0!BlockOf(id) = BlockOf(id)
      /\ \A z : Level0!Fail(z) = Fail(z)
      /\ \A b, p, c : Level0!NextBlock(b, p, c) = NextBlock(b, p, c)
      /\ \A b, n : Level0!ummu_set_bit(b, n) = ummu_set_bit(b, n)
  BY Zenon DEF Level0!find_first_zero_bit, find_first_zero_bit, Level0!FirstFrom, FirstFrom,
     Level0!Min, Min, Level0!ffz, ffz, Level0!Complement, Complement, Level0!BitsOfWord,
     BitsOfWord, Level0!BITS_TO_LONGS, BITS_TO_LONGS, Level0!MAX_LEVEL_ID_SIZE,
     MAX_LEVEL_ID_SIZE, Level0!BlockOf, BlockOf, Level0!Fail, Fail, Level0!NextBlock, NextBlock,
     Level0!ummu_set_bit, ummu_set_bit, Level0!WordOf, WordOf, Level0!BitOf, BitOf
<1>2. \A y, b : Level0!ummu_alloc_new_mapt_block(y, b) = ummu_alloc_new_mapt_block(y, b)
  BY Zenon DEF Level0!ummu_alloc_new_mapt_block, ummu_alloc_new_mapt_block, Level0!Fail, Fail,
     Level0!With, With, Level0!NodesOf, NodesOf, Level0!ZeroNode, ZeroNode
<1> DEFINE Body(id, b, z, size, fail, nb, sb) ==
             IF id >= size THEN fail ELSE IF z.ret # "ok" THEN z
             ELSE [z EXCEPT !.node[pre].next = id, !.node[pre].next_block = nb,
                            !.bitmap = sb, !.block[b].level_cnt = @ + 1]
           id  == find_first_zero_bit(x.bitmap, MAX_LEVEL_ID_SIZE)
           id0 == Level0!find_first_zero_bit(x.bitmap, Level0!MAX_LEVEL_ID_SIZE)
           b   == BlockOf(id)
           b0  == Level0!BlockOf(id0)
           y   == [x EXCEPT !.node[pre].next_block = 0]
           z   == IF b \notin DOMAIN x.block THEN ummu_alloc_new_mapt_block(y, b) ELSE y
           z0  == IF b0 \notin DOMAIN x.block THEN Level0!ummu_alloc_new_mapt_block(y, b0) ELSE y
           nb  == NextBlock(b \notin DOMAIN x.block, pb, b)
           nb0 == Level0!NextBlock(b0 \notin DOMAIN x.block, pb, b0)
<1>3. ummu_alloc_level_block(x, pre, pb) =
          Body(id, b, z, MAX_LEVEL_ID_SIZE, Fail(x), nb, ummu_set_bit(id, z.bitmap))
  BY Zenon DEF ummu_alloc_level_block
<1>4. Level0!ummu_alloc_level_block(x, pre, pb) =
          Body(id0, b0, z0, Level0!MAX_LEVEL_ID_SIZE, Level0!Fail(x), nb0,
               Level0!ummu_set_bit(id0, z0.bitmap))
  BY Zenon DEF Level0!ummu_alloc_level_block
<1> HIDE DEF Body
<1>5. id = id0 /\ b = b0
  BY <1>1
<1>6. z = z0
  BY <1>2, <1>5, Zenon
<1>7. nb = nb0
  BY <1>1, <1>5, Zenon
<1> QED BY <1>1, <1>3, <1>4, <1>5, <1>6, <1>7, Zenon

\* The loop over the bitmap that ummu_free_tid runs.
LEMMA SameBits == \A b, n : Level0!FOR_EACH_SET_BIT(b, n) = FOR_EACH_SET_BIT(b, n)
  BY Zenon DEF Level0!FOR_EACH_SET_BIT, FOR_EACH_SET_BIT, Level0!Visit!Iterate, Visit!Iterate,
     Level0!VisitBit, VisitBit, Level0!find_first_bit, find_first_bit, Level0!find_next_bit,
     find_next_bit, Level0!FirstFrom, FirstFrom, Level0!Min, Min, Level0!ffz, ffz,
     Level0!Complement, Complement, Level0!BitsOfWord, BitsOfWord, Level0!BITS_TO_LONGS,
     BITS_TO_LONGS, Level0!WordOf, WordOf, Level0!BitOf, BitOf

\* A new table holds nothing.
LEMMA NewHoldsNothing ==
    ASSUME NEW cap PROVE \E g : Level0!Exact(ummu_mapt_table_ctx_init(cap), g, {})
<1> DEFINE x == [node |-> [n \in {Root} |-> ZeroNode],
                 bitmap |-> NoBits(MAX_LEVEL_ID_SIZE), block |-> [b \in {} |-> 0],
                 expan |-> cap, mem |-> 1, lvl |-> LastLevel, ret |-> "ok"]
<1>1. /\ DOMAIN x = {"node", "bitmap", "block", "expan", "mem", "lvl", "ret"}
      /\ x.ret = "ok" /\ x.mem = 1 /\ x.node = [n \in {Root} |-> ZeroNode]
      /\ x.block = [b \in {} |-> 0] /\ x.bitmap = NoBits(MAX_LEVEL_ID_SIZE)
  OBVIOUS
<1>2. ummu_mapt_table_ctx_init(cap) = ummu_alloc_level_block(x, Root, -1)
  BY Zenon DEF ummu_mapt_table_ctx_init
<1> HIDE DEF x
<1>3. Level0!Blank(x)
  BY <1>1, SameTop DEF Level0!Blank, Level0!TableFields
<1>4. \E g : Level0!Exact(Level0!ummu_alloc_level_block(x, Level0!Root, -1), g, {})
  BY <1>3, Params, Level0!NewTable
<1>5. Level0!ummu_alloc_level_block(x, Level0!Root, -1) = ummu_mapt_table_ctx_init(cap)
  BY <1>2, SameTop, SameAlloc
<1> QED BY <1>4, <1>5

\* The invariant holds of a new table.
LEMMA StartOK ==
    ASSUME Init PROVE TInv
<1>1. PICK cap \in Expan :
          LET x == ummu_mapt_table_ctx_init(cap)
          IN  /\ node = Without(x.node, {Root})
              /\ bitmap = x.bitmap /\ block = x.block
  BY DEF Init
<1>2. segs = {} /\ live = TRUE /\ stale = {}
  BY DEF Init
<1> DEFINE x == ummu_mapt_table_ctx_init(cap)
<1>3. PICK g : Level0!Exact(x, g, {})
  BY NewHoldsNothing
<1> HIDE DEF x
<1>4. /\ DOMAIN Table(0) = Level0!TableFields
      /\ Table(0).node = With(node, {Root}, ZeroNode)
      /\ Table(0).bitmap = bitmap /\ Table(0).block = block
  BY DEF Table, Level0!TableFields
<1>5. Level0!Exact(Table(0), g, {}) /\ Root \notin DOMAIN node
  BY <1>1, <1>3, <1>4, TableAgain DEF x
<1>6. Seg!IInv
  BY <1>2 DEF Seg!IInv, Seg!TypeOK, Seg!NoOverlap, Seg!TokenSlots
<1> QED BY <1>2, <1>5, <1>6 DEF TInv, TableOK

\* A new table is made only when nothing is recorded.
LEMMA AllocateInStep ==
    ASSUME TInv, ummu_allocate_tid
    PROVE  TableOK' /\ Root \notin DOMAIN node' /\ stale' = {}
<1>1. PICK cap \in Expan :
          LET x == ummu_mapt_table_ctx_init(cap)
          IN  /\ node' = Without(x.node, {Root})
              /\ bitmap' = x.bitmap /\ block' = x.block
  BY DEF ummu_allocate_tid
<1>2. segs' = {} /\ stale' = {}
  BY DEF ummu_allocate_tid, TInv
<1> DEFINE x == ummu_mapt_table_ctx_init(cap)
<1>3. PICK g : Level0!Exact(x, g, {})
  BY NewHoldsNothing
<1> HIDE DEF x
<1>4. Level0!Exact(Table(0)', g, {}) /\ Root \notin DOMAIN node'
  BY <1>1, <1>3, TableEnd DEF x
<1>5. (\E h : Level0!Exact(Table(0)', h, segs')) => TableOK'
  BY DEF TableOK
<1> QED BY <1>2, <1>4, <1>5

\* The blocks that ummu_free_tid leaves mapped are those whose first level
\* block is not in use.
LEMMA FreeLeaves ==
    ASSUME TInv, ummu_free_tid
    PROVE  /\ DOMAIN block' = {b \in DOMAIN block : Per * b \notin Used}
           /\ Root \notin DOMAIN node'
<1> DEFINE ids   == FOR_EACH_SET_BIT(bitmap, MAX_LEVEL_ID_SIZE)
           freed == {BlockOf(id) : id \in {i \in ids : i % Per = 0}}
           ids0  == Level0!FOR_EACH_SET_BIT(Table(0).bitmap, Level0!MAX_LEVEL_ID_SIZE)
           freed0 == {Level0!BlockOf(id) : id \in {i \in ids0 : i % Per = 0}}
<1>1. live /\ block' = Without(block, freed)
      /\ node' = [n \in {m \in DOMAIN node : BlockOf(m[1]) \notin freed} |-> node[n]]
  BY Zenon DEF ummu_free_tid
<1>2. PICK g : Level0!Exact(Table(0), g, segs)
  BY <1>1 DEF TInv, TableOK
<1>3. /\ DOMAIN Table(0).block \ freed0 =
             {b \in DOMAIN Table(0).block : Per * b \notin Level0!UsedIds(Table(0))}
  BY <1>2, Params, Level0!BlocksLeft
<1>4. Table(0).block = block /\ Table(0).bitmap = bitmap
  BY DEF Table
<1>5. freed0 = freed
  BY <1>4, SameTop, SameBits
<1>6. Level0!UsedIds(Table(0)) = Used
  BY <1>4, SameTop DEF Level0!UsedIds, Used
<1> HIDE DEF freed, freed0
<1>7. DOMAIN block' = DOMAIN block \ freed
  BY <1>1 DEF Without
<1>8. Root \notin DOMAIN node'
  BY <1>1 DEF TInv
<1> QED BY <1>3, <1>4, <1>5, <1>6, <1>7, <1>8

-----------------------------------------------------------------------------
(* The steps.                                                              *)

\* What a call does to the segments is a step of the segment manager.
LEMMA StepRefines == [Next]_vars => [Seg!Next]_segs
<1> SUFFICES ASSUME [Next]_vars PROVE Seg!Next \/ UNCHANGED segs
  OBVIOUS
<1>1. ASSUME NEW r \in Seg!GrantReq, NEW mem, NEW fault, ummu_grant(r, mem, fault)
      PROVE  Seg!Next \/ UNCHANGED segs
  <2> DEFINE d == Seg!ummu_perm_data_preproc(r)
             op == Seg!ummu_grant_check(segs, d)
  <2>1. /\ Seg!ummu_check_data(r) /\ op # UMMU_OP_END
        /\ segs' = Seg!ummu_update_info(op, segs, d).table \/ segs' = segs
    BY <1>1, Zenon DEF ummu_grant
  <2>2. Seg!ummu_grant(r) \/ UNCHANGED segs
    BY <2>1 DEF Seg!ummu_grant, Seg!UMMU_OP_END, UMMU_OP_END
  <2> QED BY <2>2 DEF Seg!Next
<1>2. ASSUME NEW u \in Seg!UngrantReq, ummu_ungrant(u)
      PROVE  Seg!Next \/ UNCHANGED segs
  <2> DEFINE op == Seg!ummu_ungrant_check(segs, u)
  <2>1. /\ Seg!ummu_ungrant_data_check(u) /\ op # UMMU_OP_END
        /\ segs' = Seg!ummu_update_info(op, segs, u).table \/ segs' = segs
    BY <1>2, Zenon DEF ummu_ungrant
  <2>2. Seg!ummu_ungrant(u) \/ UNCHANGED segs
    BY <2>1 DEF Seg!ummu_ungrant, Seg!UMMU_OP_END, UMMU_OP_END
  <2> QED BY <2>2 DEF Seg!Next
<1>3. CASE ummu_free_tid
  BY <1>3 DEF ummu_free_tid, Seg!Next, Seg!ummu_free_tid
<1>4. CASE ummu_allocate_tid
  BY <1>4 DEF ummu_allocate_tid
<1>5. CASE UNCHANGED vars
  BY <1>5 DEF vars
<1> QED BY <1>1, <1>2, <1>3, <1>4, <1>5 DEF Next

\* The segment manager's own invariant.
LEMMA SegmentsInStep ==
    ASSUME Seg!IInv, [Next]_vars PROVE Seg!IInv'
<1>1. Seg!Next \/ UNCHANGED segs
  BY StepRefines
<1>2. ASSUME NEW r \in Seg!GrantReq, Seg!ummu_grant(r) PROVE Seg!IInv'
  BY <1>2, SegParams, Seg!GrantKeeps
<1>3. ASSUME NEW u \in Seg!UngrantReq, Seg!ummu_ungrant(u) PROVE Seg!IInv'
  BY <1>3, SegParams, Seg!UngrantKeeps
<1>4. CASE Seg!ummu_free_tid
  BY <1>4 DEF Seg!ummu_free_tid, Seg!IInv, Seg!TypeOK, Seg!NoOverlap, Seg!TokenSlots
<1>5. CASE UNCHANGED segs
  BY <1>5 DEF Seg!IInv, Seg!TypeOK, Seg!NoOverlap, Seg!TokenSlots
<1> QED BY <1>1, <1>2, <1>3, <1>4, <1>5 DEF Seg!Next

\* After any sequence of calls, failed ones included, the table holds exactly
\* the recorded segments, on a well-formed tree of level blocks.
THEOREM TInvInvariant == ASSUME RecFaults = FALSE PROVE Spec => []TInv
<1>1. Init => TInv
  BY StartOK
<1>2. TInv /\ [Next]_vars => TInv'
  <2> SUFFICES ASSUME TInv, [Next]_vars PROVE TInv'
    OBVIOUS
  <2>1. Seg!IInv'
    BY SegmentsInStep DEF TInv
  <2>2. ASSUME NEW r \in Seg!GrantReq, NEW mem, ummu_grant(r, mem, FALSE) PROVE TInv'
    <3>1. live' /\ TableOK' /\ Root \notin DOMAIN node' /\ stale' = {}
      BY <2>2, GrantInStep DEF ummu_grant
    <3> QED BY <2>1, <3>1 DEF TInv
  <2>3. ASSUME NEW u \in Seg!UngrantReq, ummu_ungrant(u) PROVE TInv'
    <3>1. live' /\ TableOK' /\ Root \notin DOMAIN node' /\ stale' = {}
      BY <2>3, UngrantInStep DEF ummu_ungrant
    <3> QED BY <2>1, <3>1 DEF TInv
  <2>4. CASE ummu_free_tid
    <3>1. live' = FALSE /\ segs' = {} /\ stale' = {}
      BY <2>4 DEF ummu_free_tid
    <3>2. TableOK'
      BY <3>1 DEF TableOK
    <3> QED BY <2>1, <2>4, <3>1, <3>2, FreeLeaves DEF TInv
  <2>5. CASE ummu_allocate_tid
    <3>1. live' = TRUE
      BY <2>5 DEF ummu_allocate_tid
    <3> QED BY <2>1, <2>5, <3>1, AllocateInStep DEF TInv
  <2>6. CASE UNCHANGED vars
    <3>1. Table(0)' = Table(0) /\ segs' = segs /\ live' = live /\ node' = node /\ block' = block
          /\ stale' = stale
      BY <2>6 DEF vars, Table
    <3>2. TableOK'
      BY <3>1 DEF TInv, TableOK
    <3> QED BY <2>1, <3>1, <3>2 DEF TInv
  <2>7. \A fault \in {FALSE, RecFaults} : fault = FALSE
    OBVIOUS
  <2> QED BY <2>2, <2>3, <2>4, <2>5, <2>6, <2>7 DEF Next
<1> QED BY <1>1, <1>2, PTL DEF Spec

-----------------------------------------------------------------------------
(* The properties.                                                         *)

\* The level blocks in use.
LEMMA NodesOfTable ==
    ASSUME NEW g, Level0!Exact(Table(0), g, segs)
    PROVE  /\ Level0!Inv(Table(0), g, Level0!Root, 0, segs)
           /\ Level0!HasNodes(Table(0), node) /\ Level0!UsedIds(Table(0)) = Used
           /\ Table(0).block = block
<1>1. Table(0).bitmap = bitmap /\ Table(0).block = block
  BY DEF Table
<1>2. Level0!UsedIds(Table(0)) = Used
  BY <1>1, SameTop DEF Level0!UsedIds, Used
<1> QED BY <1>1, <1>2, TableNodes DEF Level0!Exact

\* The level blocks in use are those the device can come to.
LEMMA ReachLevels ==
    ASSUME NEW g, Level0!Exact(Table(0), g, segs)
    PROVE  Used = Reach(LastLevel)
<1>1. /\ Level0!Inv(Table(0), g, Level0!Root, 0, segs)
      /\ Level0!HasNodes(Table(0), node) /\ Level0!UsedIds(Table(0)) = Used
  BY NodesOfTable
<1> DEFINE U(l) == Level0!UpTo(Table(0), g, l)
<1>2. /\ U(0) = {0} /\ \A l \in Nat : l >= LastLevel => U(l) = Used
      /\ \A l \in Nat : U(l) \cup Level0!Leads(node, U(l)) = U(l + 1)
  BY <1>1, Params, Level0!LevelByLevel
<1>3. \A I : Level0!Leads(node, I) = Children(I)
  BY SameTop DEF Level0!Leads, Children
<1> HIDE DEF U
<1>4. \A l \in Nat : Below(U(l)) = U(l + 1)
  BY <1>2, <1>3 DEF Below
<1>5. Below({0}) = U(1) /\ Below(U(1)) = U(2) /\ Below(U(2)) = U(3)
  <2>1. Below(U(0)) = U(0 + 1) /\ Below(U(1)) = U(1 + 1) /\ Below(U(2)) = U(2 + 1)
    BY <1>4
  <2> QED BY <1>2, <2>1
<1>6. U(LastLevel) = Used /\ LastLevel \in {0, 1, 2, 3}
  BY <1>2, Params
<1> QED BY <1>2, <1>5, <1>6 DEF Reach

\* The allocator, the counters and the device's links agree with the table.
LEMMA AccountingHolds == ASSUME TInv PROVE LevelAccounting /\ NextBlockFlag
<1> SUFFICES ASSUME live PROVE LevelAccounting /\ NextBlockFlag
  BY DEF LevelAccounting, NextBlockFlag
<1>1. PICK g : Level0!Exact(Table(0), g, segs)
  BY DEF TInv, TableOK
<1>2. /\ Level0!Inv(Table(0), g, Level0!Root, 0, segs)
      /\ Level0!HasNodes(Table(0), node) /\ Level0!UsedIds(Table(0)) = Used
      /\ Table(0).block = block
  BY <1>1, NodesOfTable
<1>3. Used = Reach(LastLevel)
  BY <1>1, ReachLevels
<1> DEFINE P(id) == {n \in Used \X (0 .. Fan - 1) : /\ node[n].valid = 1 /\ node[n].type = 0
                                                   /\ node[n].next = id}
           M(b)  == {id \in Used : BlockOf(id) = b}
<1>4. /\ \A id : Level0!ValidOf(node, id) = ValidIn(id)
      /\ \A id : Level0!ParentsOf(node, Used, id) = P(id)
      /\ \A b : Level0!InMapt(Used, b) = M(b)
  BY SameTop DEF Level0!ValidOf, ValidIn, Level0!ParentsOf, Level0!InMapt
<1>5. /\ \A id \in Used :
           /\ block[Level0!BlockOf(id)].entry_cnt[id % Per] =
                  Level0!Cardinality(Level0!ValidOf(node, id))
           /\ id # 0 => /\ Level0!ValidOf(node, id) # {}
                        /\ Level0!Cardinality(Level0!ParentsOf(node, Used, id)) = 1
      /\ DOMAIN block = {Level0!BlockOf(id) : id \in Used}
      /\ \A b \in DOMAIN block :
           block[b].level_cnt = Level0!Cardinality(Level0!InMapt(Used, b))
      /\ \A id \in Used : \A i \in Level0!ValidOf(node, id) :
           node[<<id, i>>].next_block =
               IF /\ node[<<id, i>>].type = 0
                  /\ Level0!BlockOf(node[<<id, i>>].next) # Level0!BlockOf(id)
               THEN 1 ELSE 0
  <2> DEFINE z == Table(0)
             W == Level0!UsedIds(z)
  <2>1. /\ \A id \in W :
             /\ z.block[Level0!BlockOf(id)].entry_cnt[id % Per] =
                    Level0!Cardinality(Level0!ValidOf(node, id))
             /\ id # 0 => /\ Level0!ValidOf(node, id) # {}
                          /\ Level0!Cardinality(Level0!ParentsOf(node, W, id)) = 1
        /\ DOMAIN z.block = {Level0!BlockOf(id) : id \in W}
        /\ \A b \in DOMAIN z.block :
             z.block[b].level_cnt = Level0!Cardinality(Level0!InMapt(W, b))
        /\ \A id \in W : \A i \in Level0!ValidOf(node, id) :
             node[<<id, i>>].next_block =
                 IF /\ node[<<id, i>>].type = 0
                    /\ Level0!BlockOf(node[<<id, i>>].next) # Level0!BlockOf(id)
                 THEN 1 ELSE 0
    BY <1>2, Params, Level0!Accounted
  <2> QED BY <1>2, <2>1, Zenon
<1> HIDE DEF P, M
<1>6. /\ \A id \in Used :
           /\ block[BlockOf(id)].entry_cnt[id % Per] = Cardinality(ValidIn(id))
           /\ id # 0 => ValidIn(id) # {} /\ Cardinality(P(id)) = 1
      /\ DOMAIN block = {BlockOf(id) : id \in Used}
      /\ \A b \in DOMAIN block : block[b].level_cnt = Cardinality(M(b))
  BY <1>4, <1>5, SameTop
<1>7. \A id \in Used : \A i \in ValidIn(id) :
        node[<<id, i>>].next_block =
            IF node[<<id, i>>].type = 0 /\ BlockOf(node[<<id, i>>].next) # BlockOf(id)
            THEN 1 ELSE 0
  BY <1>4, <1>5, SameTop
<1>8. LevelAccounting
  BY <1>3, <1>6, Zenon DEF LevelAccounting, P, M
<1>9. NextBlockFlag
  BY <1>7 DEF NextBlockFlag
<1> QED BY <1>8, <1>9

\* What the table holds can be taken back, whole or by token.
LEMMA UngrantWorks == ASSUME TInv PROVE UngrantSucceeds
<1> SUFFICES ASSUME live, NEW s \in segs
             PROVE  LET d(tok) == [base |-> s.left, size |-> s.right - s.left + 1, tokenval |-> tok]
                    IN  /\ ummu_table_op(Table(0), d(s.tok0), UMMU_UNGRANT).ret = "ok"
                        /\ s.token_count = UMMU_MAX_TOKEN_NUM =>
                             \A tok \in {s.tok0, s.tok1} :
                               ummu_table_op(Table(0), d(tok), UMMU_REMOVE_TOKEN).ret = "ok"
                        /\ s.token_count = 1 =>
                             \A tok \in Token :
                               ummu_table_op(Table(0), d(tok), UMMU_ADD_TOKEN).ret = "ok"
  BY DEF UngrantSucceeds
<1> DEFINE d(tok) == [base |-> s.left, size |-> s.right - s.left + 1, tokenval |-> tok]
<1>1. PICK g : Level0!Exact(Table(0), g, segs)
  BY DEF TInv, TableOK
<1>2. Table(0).ret = "ok" /\ Table(0).node[Level0!Root].type = 0 /\ Table(0).lvl \in Level0!Levels
  BY <1>1, TableStart DEF TInv
<1>3. s.left \in Nat /\ s.right \in Nat
  BY SegParams, Seg!IInvApart DEF TInv, Seg!Apart
<1>4. \A tok : Seg!Meant(s, d(tok)) /\ d(tok).tokenval = tok
  BY <1>3 DEF Seg!Meant
<1>5. /\ s.token_check = 0 => s.token_count = 0
      /\ s.token_check \in {0, 1}
  BY DEF TInv, Seg!IInv, Seg!TokenSlots, Seg!TypeOK, Seg!SegInfo
<1>6. /\ UMMU_UNGRANT = Seg!UMMU_UNGRANT /\ UMMU_ADD_TOKEN = Seg!UMMU_ADD_TOKEN
      /\ UMMU_REMOVE_TOKEN = Seg!UMMU_REMOVE_TOKEN /\ UMMU_ADD_TOKEN # UMMU_REMOVE_TOKEN
      /\ UMMU_ADD_TOKEN = Level0!UMMU_ADD_TOKEN /\ UMMU_REMOVE_TOKEN = Level0!UMMU_REMOVE_TOKEN
      /\ UMMU_MAX_TOKEN_NUM = 2
  BY DEF UMMU_UNGRANT, UMMU_ADD_TOKEN, UMMU_REMOVE_TOKEN, Seg!UMMU_UNGRANT, Seg!UMMU_ADD_TOKEN,
     Seg!UMMU_REMOVE_TOKEN, Level0!UMMU_ADD_TOKEN, Level0!UMMU_REMOVE_TOKEN, UMMU_MAX_TOKEN_NUM
<1> HIDE DEF d
<1>7. ummu_table_op(Table(0), d(s.tok0), UMMU_UNGRANT).ret = "ok"
  <2> DEFINE x  == Table(0)
             e  == d(s.tok0)
             op == UMMU_UNGRANT
             y  == ummu_table_op(x, e, op)
  <2>1. /\ Level0!Exact(x, g, segs) /\ x.ret = "ok" /\ x.node[Level0!Root].type = 0
        /\ x.lvl \in Level0!Levels /\ s \in segs /\ Seg!Meant(s, e) /\ op = Seg!UMMU_UNGRANT
    BY <1>1, <1>2, <1>4, <1>6
  <2> HIDE DEF x, e, op
  <2>2. /\ y.ret = "ok" /\ Level0!Exact(y, g, segs \ {s}) /\ y.lvl \in Level0!Levels
        /\ \A a \in Level0!Addr :
             Level0!Touched(s, y.lvl, a) \/ Level0!StillHolds(x, y, g, g, a)
    BY <2>1, ClearOf
  <2> QED BY <2>2 DEF x, e, op
<1>8. ASSUME s.token_count = UMMU_MAX_TOKEN_NUM, NEW tok \in {s.tok0, s.tok1}
      PROVE  ummu_table_op(Table(0), d(tok), UMMU_REMOVE_TOKEN).ret = "ok"
  <2>1. Level0!Ready(s, d(tok), UMMU_REMOVE_TOKEN)
    BY <1>4, <1>5, <1>6, <1>8 DEF Level0!Ready
  <2>2. UMMU_REMOVE_TOKEN \in {Seg!UMMU_ADD_TOKEN, Seg!UMMU_REMOVE_TOKEN} /\ Seg!Meant(s, d(tok))
    BY <1>4, <1>6
  <2> QED BY <1>1, <1>2, <2>1, <2>2, TokenOf
<1>9. ASSUME s.token_count = 1, NEW tok \in Token
      PROVE  ummu_table_op(Table(0), d(tok), UMMU_ADD_TOKEN).ret = "ok"
  <2>1. Level0!Ready(s, d(tok), UMMU_ADD_TOKEN)
    BY <1>4, <1>5, <1>6, <1>9 DEF Level0!Ready
  <2>2. UMMU_ADD_TOKEN \in {Seg!UMMU_ADD_TOKEN, Seg!UMMU_REMOVE_TOKEN} /\ Seg!Meant(s, d(tok))
    BY <1>4, <1>6
  <2> QED BY <1>1, <1>2, <2>1, <2>2, TokenOf
<1> QED BY <1>7, <1>8, <1>9 DEF d

\* The device finds in the table what the segments say.
LEMMA DeviceFinds ==
    ASSUME NEW g, Level0!Exact(Table(0), g, segs), NEW a \in 0 .. LastAddr
    PROVE  Level0!Found(Match(node, a), a, segs)
<1>1. /\ Level0!Inv(Table(0), g, Level0!Root, 0, segs)
      /\ Level0!HasNodes(Table(0), node)
  BY NodesOfTable
<1>2. PICK y : Level0!Walked(Table(0), g, a, y, LastLevel + 1) /\ Match(node, a) = y.hit
  BY <1>1, DeviceWalks
<1> QED BY <1>2, SameTop, Params, Level0!MatchEnd

\* What it finds allows what the segment at the address allows, or nothing.
LEMMA DeviceAgrees == ASSUME TInv PROVE DeviceMatchesSegments
<1> SUFFICES ASSUME live, NEW a \in 0 .. LastAddr
             PROVE  {Access(m[2]) : m \in Match(node, a)} =
                        {Access(s) : s \in {t \in segs : t.left <= a /\ a <= t.right}}
  BY DEF DeviceMatchesSegments
<1>1. PICK g : Level0!Exact(Table(0), g, segs)
  BY DEF TInv, TableOK
<1> DEFINE hit == Match(node, a)
           at  == {t \in segs : t.left <= a /\ a <= t.right}
<1>2. Level0!Found(hit, a, segs)
  BY <1>1, DeviceFinds
<1>3. \A s \in segs : s.left \in Nat /\ s.right \in Nat
  BY SegParams, Seg!IInvApart DEF TInv, Seg!Apart
<1>4. a \in Nat
  BY SegParams
<1> HIDE DEF hit
<1>5. CASE hit = {} /\ \A s \in segs : a \notin s.left .. s.right
  <2>1. at = {}
    BY <1>3, <1>4, <1>5
  <2> QED BY <1>5, <2>1 DEF hit
<1>6. ASSUME NEW s \in segs, NEW l, NEW r, hit = {<<l, r>>}, Level0!Agrees(s, r),
             \A t \in segs : a \in t.left .. t.right <=> t = s
      PROVE  {Access(m[2]) : m \in hit} = {Access(t) : t \in at}
  <2>1. at = {s}
    BY <1>3, <1>4, <1>6
  <2>2. Access(r) = Access(s)
    BY <1>6 DEF Level0!Agrees, Access
  <2> HIDE DEF at
  <2>3. {Access(m[2]) : m \in hit} = {Access(r)}
    BY <1>6
  <2> QED BY <2>1, <2>2, <2>3
<1> QED BY <1>2, <1>5, <1>6 DEF Level0!Found, hit

-----------------------------------------------------------------------------
(* The theorems.                                                           *)

\* For any number of level blocks in a block, ummu_free_tid leaves mapped
\* exactly the blocks whose first level block is not in use.

\* The device finds for every address what the segment manager records there.
THEOREM DeviceMatches == ASSUME RecFaults = FALSE PROVE Spec => []DeviceMatchesSegments
<1>1. TInv => DeviceMatchesSegments
  BY DeviceAgrees
<1>2. Spec => []TInv
  BY TInvInvariant, Zenon
<1> QED BY <1>1, <1>2, PTL

\* The bitmap, the entry counters and the level counters agree with the table,
\* so that what is freed is exactly what nothing leads to any more.
THEOREM AccountingCorrect == ASSUME RecFaults = FALSE PROVE Spec => []LevelAccounting
<1>1. TInv => LevelAccounting
  BY AccountingHolds
<1>2. Spec => []TInv
  BY TInvInvariant, Zenon
<1> QED BY <1>1, <1>2, PTL

\* next_block tells the device where the next level is.
THEOREM FlagCorrect == ASSUME RecFaults = FALSE PROVE Spec => []NextBlockFlag
<1>1. TInv => NextBlockFlag
  BY AccountingHolds
<1>2. Spec => []TInv
  BY TInvInvariant, Zenon
<1> QED BY <1>1, <1>2, PTL

\* Clearing a recorded segment, adding a token to it or removing one never
\* meets an error, whatever shape earlier calls left the table in.
THEOREM UngrantAlwaysSucceeds == ASSUME RecFaults = FALSE PROVE Spec => []UngrantSucceeds
<1>1. TInv => UngrantSucceeds
  BY UngrantWorks
<1>2. Spec => []TInv
  BY TInvInvariant, Zenon
<1> QED BY <1>1, <1>2, PTL

\* Every address whose matched node a call changes, moves or removes is in
\* the range that the call invalidates, so the device's PLB is never stale.
THEOREM PlbNeverStale == ASSUME RecFaults = FALSE PROVE Spec => []NoStalePlb
<1>1. TInv => NoStalePlb
  BY DEF TInv, NoStalePlb
<1>2. Spec => []TInv
  BY TInvInvariant, Zenon
<1> QED BY <1>1, <1>2, PTL

\* With no segment recorded no level block but the first is in use.
LEMMA EmptyTable ==
    ASSUME TInv, live, segs = {} PROVE Used = {0} /\ DOMAIN block = {0}
<1> DEFINE x == Table(0)
<1>1. PICK g : Level0!Exact(x, g, segs)
  BY DEF TInv, TableOK
<1>2. Level0!Shape(x) /\ Level0!Counted(x) /\ Level0!Filled(x, 0)
      /\ Level0!Content(x, g, Root, {})
  BY <1>1, SameTop DEF Level0!Exact, Level0!Inv, Level0!Sound, Level0!Holding
<1>3. Level0!UsedIds(x) = Used /\ x.block = block
  BY <1>1, NodesOfTable
<1> HIDE DEF x
<1>4. Used \subseteq Level0!Ids /\ \A id \in Level0!Ids : id \in Nat
  BY <1>2, <1>3, Params, Level0!UsedFacts, Level0!IdFacts
<1>5. ASSUME NEW id \in Used, id # 0 PROVE FALSE
  <2>1. PICK k \in Level0!Index : x.node[<<id, k>>].valid = 1
    BY <1>2, <1>3, <1>5 DEF Level0!Filled, Level0!ValidAt
  <2>2. <<id, k>> \in Level0!Valid(x) \ {Root}
    BY <1>3, <1>4, <2>1 DEF Level0!Valid, Root
  <2> QED BY <1>2, <2>2 DEF Level0!Content
<1>6. Used = {0}
  BY <1>2, <1>3, <1>5 DEF Level0!Counted
<1>7. DOMAIN block = {Level0!BlockOf(0)}
  BY <1>2, <1>3, <1>6 DEF Level0!Counted
<1>8. Level0!BlockOf(0) = 0
  BY BlockAssumption DEF Level0!BlockOf
<1> QED BY <1>6, <1>7, <1>8

\* ummu_free_tid finds a mapt block by its first level block, which may have
\* been given back: what it leaves mapped, for any number of level blocks per
\* mapt block, and that it is nothing once every segment was ungranted.
THEOREM BlocksLeftMapped == ASSUME RecFaults = FALSE PROVE Spec => FreeUnmaps
<1> DEFINE A == live /\ ~live' =>
                  /\ DOMAIN block' = {b \in DOMAIN block : Per * b \notin Reach(LastLevel)}
                  /\ segs = {} => DOMAIN block' = {}
<1>1. TInv /\ [Next]_vars => [A]_vars
  <2> SUFFICES ASSUME TInv, Next, live, ~live' PROVE A
    OBVIOUS
  <2>1. \A r, mem, fault : ~ummu_grant(r, mem, fault)
    BY DEF ummu_grant
  <2>2. \A u : ~ummu_ungrant(u)
    BY DEF ummu_ungrant
  <2>3. ummu_free_tid
    BY <2>1, <2>2 DEF Next, ummu_allocate_tid
  <2>4. DOMAIN block' = {b \in DOMAIN block : Per * b \notin Used}
    BY <2>3, FreeLeaves
  <2>5. Used = Reach(LastLevel)
    BY AccountingHolds DEF LevelAccounting
  <2>6. ASSUME segs = {} PROVE DOMAIN block' = {}
    <3>1. Used = {0} /\ DOMAIN block = {0} /\ Per * 0 = 0
      BY <2>6, EmptyTable, BlockAssumption
    <3> QED BY <2>4, <3>1
  <2> QED BY <2>4, <2>5, <2>6
<1>2. Spec => []TInv
  BY TInvInvariant, Zenon
<1> QED BY <1>1, <1>2, PTL DEF Spec, FreeUnmaps
==============================================================================
