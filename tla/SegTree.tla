------------------------------- MODULE SegTree -------------------------------
(***************************************************************************)
(* The range table of ummu_seg_tree.cpp: a std::map whose keys are address *)
(* ranges [left, right] ordered by ModCmp, "l lies entirely before r".     *)
(*                                                                         *)
(* ModCmp is a strict weak order only on ranges that do not overlap, so    *)
(* what std::map does with an overlapping key depends on HOW it searches.  *)
(* The model therefore keeps the search: find() is lower_bound() plus one  *)
(* comparison, insert() looks at the last element that is not after the    *)
(* key.  Both are what libstdc++ and libc++ do.  The stored elements are   *)
(* records with fields left and right; a table is the set of them, and a   *)
(* pointer that may be NULL is a set of at most one element.               *)
(***************************************************************************)
EXTENDS Naturals

\* enum range_compare_ret
RANGE_MATCH     == "match"
RANGE_OVERLAP   == "overlap"
RANGE_NOT_EXIST == "not_exist"

\* struct Range: Range(l, size) has right = l + size (callers pass size - 1).
MkRange(l, size) == [left |-> l, right |-> l + size]

ModCmpLessOrEqual(l, r) == l.right <= r.left
ModCmp(l, r) == l.right < r.left

\* The first element, in map order, that is not entirely before k.
LowerBound(table, k) ==
    {e \in table : /\ ~ModCmp(e, k)
                   /\ \A f \in table : ~ModCmp(f, k) => e.left <= f.left}

\* std::map::find: the lower bound, unless k is entirely before it.
MapFind(table, k) == {e \in LowerBound(table, k) : ~ModCmp(k, e)}

\* std::map::insert: the last element that k is not entirely before; the
\* insertion is refused when that element is not entirely before k either.
InsertBlocker(table, k) ==
    {e \in table : /\ ~ModCmp(k, e) /\ ~ModCmp(e, k)
                   /\ \A f \in table : ~ModCmp(k, f) => f.left <= e.left}

MatchesLeftOnly(found, left, size) == {e \in found : e.left = left}
Exactly(found, left, size) ==
    {e \in found : e.left = left /\ e.right = left + size}

ummu_find_seg(left, size, table) ==
    LET found == MapFind(table, MkRange(left, size))
        data  == Exactly(found, left, size)
    IN  [data |-> data,
         comp |-> IF found = {} THEN RANGE_NOT_EXIST
                  ELSE IF data # {} THEN RANGE_MATCH ELSE RANGE_OVERLAP]

ummu_insert_seg(data, table) ==
    IF InsertBlocker(table, data) = {}
    THEN [ret |-> "ok", table |-> table \cup {data}]
    ELSE [ret |-> "einval", table |-> table]

\* The key is Range(left, left + size), whose right end is 2 * left + size:
\* wider than the segment.  find() then meets the exactness test below.
ummu_delete_seg(left, size, table) ==
    LET hit == Exactly(MapFind(table, MkRange(left, left + size)), left, size)
    IN  [ret |-> IF hit = {} THEN "einval" ELSE "ok", table |-> table \ hit]
==============================================================================
