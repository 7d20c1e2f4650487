---------------------------- MODULE SegMng_proofs ----------------------------
(***************************************************************************)
(* Proofs about SegMng for every address space, page size, attribute set,  *)
(* token set and set of requests.  IInv is the inductive invariant: the    *)
(* search of the range table is only right on disjoint, non-empty ranges,  *)
(* and only a right search keeps the ranges disjoint.                      *)
(***************************************************************************)
EXTENDS SegMng, TLAPS, WellFoundedInduction

IInv == TypeOK /\ NoOverlap /\ TokenSlots

\* What the search needs of a table, stated for any set of records.
Ordered(table) ==
    /\ table \subseteq SegInfo
    /\ \A s \in table : s.left <= s.right
    /\ \A s, t \in table : s # t => s.right < t.left \/ t.right < s.left

-----------------------------------------------------------------------------
(* The range table.                                                        *)

\* A non-empty set of naturals has a least element.
LEMMA LeastNat ==
    ASSUME NEW T, T \subseteq Nat, T # {}
    PROVE  \E m \in T : \A n \in T : m <= n
<1> DEFINE R == OpToRel(<, Nat)
<1>1. IsWellFoundedOn(R, Nat)
  BY NatLessThanWellFounded, Zenon
<1>2. \A m, n \in Nat : ~(<<n, m>> \in R) => m <= n
  BY DEF OpToRel
<1> HIDE DEF R
<1>3. \E m \in T : \A n \in T : ~(<<n, m>> \in R)
  BY <1>1, WFMin
<1> QED BY <1>2, <1>3

\* ummu_find_seg says RANGE_NOT_EXIST only when no stored range shares an
\* address with the key: the lower bound it looks at is enough.
LEMMA NotExistMeansFree ==
    ASSUME NEW table, Ordered(table), NEW left \in Nat, NEW size \in Nat,
           ummu_find_seg(left, size, table).comp = RANGE_NOT_EXIST
    PROVE  \A e \in table : e.right < left \/ left + size < e.left
<1> DEFINE k == MkRange(left, size)
           late == {e \in table : ~ModCmp(e, k)}
<1>1. MapFind(table, k) = {}
  BY DEF ummu_find_seg, RANGE_NOT_EXIST, RANGE_MATCH, RANGE_OVERLAP
<1>2. SUFFICES ASSUME NEW e \in table, ~(e.right < left), ~(left + size < e.left)
               PROVE  FALSE
  OBVIOUS
<1>3. e \in late
  BY <1>2 DEF ModCmp, MkRange
<1>4. PICK f \in late : \A g \in late : f.left <= g.left
  <2>1. {g.left : g \in late} \subseteq Nat /\ {g.left : g \in late} # {}
    BY <1>3 DEF Ordered, SegInfo
  <2>2. PICK m \in {g.left : g \in late} : \A n \in {g.left : g \in late} : m <= n
    BY <2>1, LeastNat
  <2> QED BY <2>2
<1>5. f \in LowerBound(table, k)
  BY <1>4 DEF LowerBound
<1>6. ~ModCmp(k, f)
  BY <1>2, <1>3, <1>4 DEF ModCmp, MkRange, Ordered, SegInfo
<1> QED BY <1>1, <1>5, <1>6 DEF MapFind

\* A stored segment is the lower bound of every key that starts where the
\* segment starts and is at least as long, and of no other length it needs:
\* the wide key of ummu_delete_seg finds it and nothing else.
LEMMA KeyAtSegment ==
    ASSUME NEW table, Ordered(table), NEW seg \in table, NEW n \in Nat
    PROVE  MapFind(table, MkRange(seg.left, n)) = {seg}
<1> DEFINE k == MkRange(seg.left, n)
<1>1. \A f \in table : /\ f \in SegInfo /\ f.left \in Nat /\ f.right \in Nat
                       /\ f.left <= f.right
  BY DEF Ordered, SegInfo
<1>2. k.left = seg.left /\ k.right = seg.left + n
  BY DEF MkRange
<1>3. ~ModCmp(seg, k) /\ ~ModCmp(k, seg)
  BY <1>1, <1>2 DEF ModCmp
<1>4. \A f \in table : f # seg /\ ~ModCmp(f, k) => seg.left < f.left
  BY <1>1, <1>2 DEF ModCmp, Ordered
<1>5. LowerBound(table, k) = {seg}
  <2>1. seg \in LowerBound(table, k)
    BY <1>1, <1>3, <1>4 DEF LowerBound
  <2>2. ASSUME NEW f \in LowerBound(table, k) PROVE f = seg
    <3>1. f \in table /\ ~ModCmp(f, k) /\ f.left <= seg.left
      BY <1>3 DEF LowerBound
    <3> QED BY <3>1, <1>1, <1>4
  <2> QED BY <2>1, <2>2
<1> QED BY <1>3, <1>5 DEF MapFind

\* A match is the one stored segment with exactly the bounds of the key.
LEMMA MatchIsUnique ==
    ASSUME NEW table, Ordered(table), NEW left \in Nat, NEW size \in Nat,
           ummu_find_seg(left, size, table).comp = RANGE_MATCH
    PROVE  \E seg \in table : /\ seg.left = left /\ seg.right = left + size
                              /\ ummu_find_seg(left, size, table).data = {seg}
<1>1. Exactly(MapFind(table, MkRange(left, size)), left, size) # {}
  BY DEF ummu_find_seg, RANGE_NOT_EXIST, RANGE_MATCH, RANGE_OVERLAP
<1>2. PICK seg \in table : seg.left = left /\ seg.right = left + size
  BY <1>1 DEF Exactly, MapFind, LowerBound
<1>3. MapFind(table, MkRange(left, size)) = {seg}
  BY <1>2, KeyAtSegment
<1> QED BY <1>2, <1>3 DEF ummu_find_seg, Exactly

-----------------------------------------------------------------------------
(* The updates, each on an ordered table.                                  *)

\* The request reaches the update with a base on a page and a non-zero size
\* that stays in the address space.
LEMMA CheckedRequest ==
    ASSUME NEW r \in GrantReq, ummu_check_data(r)
    PROVE  LET d == ummu_perm_data_preproc(r)
           IN  /\ d.base = r.base /\ d.size = r.size
               /\ d.base \in Nat /\ d.size \in Nat /\ d.size - 1 \in Nat
               /\ d.base + (d.size - 1) \in Nat /\ d.base + (d.size - 1) <= MaxAddr
               /\ d.base % Page = 0 /\ d.attr \in Attr
               /\ d.token_check \in {0, 1} /\ d.tokenval \in Token
<1>1. /\ r.base \in Nat /\ r.size \in Nat
      /\ r.token \in Token \cup {NoToken}
  BY InputAssumption DEF GrantReq
<1> QED
  BY <1>1, AddrAssumption, TokenAssumption DEF ummu_check_data, ummu_perm_data_preproc

\* An ungrant reaches the update with a non-zero size of natural numbers.
LEMMA CheckedUngrant ==
    ASSUME NEW u \in UngrantReq, ummu_ungrant_data_check(u)
    PROVE  /\ u.base \in Nat /\ u.size \in Nat /\ u.size - 1 \in Nat
           /\ u.tokenval \in Token
<1>1. u.base \in Nat /\ u.size \in Nat /\ u.tokenval \in Token
  BY InputAssumption DEF UngrantReq
<1> QED BY <1>1 DEF ummu_ungrant_data_check

\* The segment record ummu_insert_new_addr stores.
NewSeg(d) ==
    LET tok == IF d.token_check = 1 THEN d.tokenval ELSE ZeroToken
    IN  [left |-> d.base, right |-> d.base + (d.size - 1),
         attr |-> d.attr, token_check |-> d.token_check,
         token_count |-> d.token_check, tok0 |-> tok, tok1 |-> tok]

\* After a GRANT decision the insertion is not refused, and the new segment is
\* disjoint from every stored one.
LEMMA InsertSucceeds ==
    ASSUME NEW table, Ordered(table), NEW d, d.base \in Nat, d.size - 1 \in Nat,
           ummu_find_seg(d.base, d.size - 1, table).comp = RANGE_NOT_EXIST
    PROVE  /\ ummu_insert_new_addr(table, d) =
                  [ret |-> "ok", table |-> table \cup {NewSeg(d)}]
           /\ \A e \in table : e.right < NewSeg(d).left \/ NewSeg(d).right < e.left
<1>1. \A e \in table : e.right < d.base \/ d.base + (d.size - 1) < e.left
  BY NotExistMeansFree
<1>2. NewSeg(d).left = d.base /\ NewSeg(d).right = d.base + (d.size - 1)
  BY DEF NewSeg
<1>3. InsertBlocker(table, NewSeg(d)) = {}
  BY <1>1, <1>2 DEF InsertBlocker, ModCmp
<1>4. ummu_insert_new_addr(table, d) = ummu_insert_seg(NewSeg(d), table)
  BY DEF ummu_insert_new_addr, NewSeg
<1> QED BY <1>1, <1>2, <1>3, <1>4 DEF ummu_insert_seg

\* After an UNGRANT decision the deletion finds the matched segment.
LEMMA DeleteRemovesMatch ==
    ASSUME NEW table, Ordered(table), NEW d, d.base \in Nat, d.size - 1 \in Nat,
           ummu_find_seg(d.base, d.size - 1, table).comp = RANGE_MATCH
    PROVE  \E seg \in table :
               /\ seg.left = d.base /\ seg.right = d.base + (d.size - 1)
               /\ ummu_delete_addr(table, d) =
                      [ret |-> "ok", table |-> table \ {seg}]
<1>1. PICK seg \in table : seg.left = d.base /\ seg.right = d.base + (d.size - 1)
  BY MatchIsUnique
<1>2. MapFind(table, MkRange(d.base, d.base + (d.size - 1))) = {seg}
  <2>1. d.base + (d.size - 1) \in Nat
    OBVIOUS
  <2> QED BY <1>1, <2>1, KeyAtSegment
<1>3. Exactly({seg}, d.base, d.size - 1) = {seg}
  BY <1>1 DEF Exactly
<1> QED BY <1>1, <1>2, <1>3 DEF ummu_delete_addr, ummu_delete_seg

\* The segment a token update leaves in place of seg.
Updated(seg, d, op) ==
    IF op = UMMU_REMOVE_TOKEN THEN ummu_remove_tokenval(d.tokenval, seg)
                              ELSE AddTokenval(d.tokenval, seg)

\* seg is the match of the request, and the update replaced it.
TokenUpdated(table, d, op, seg) ==
    /\ seg.left = d.base /\ seg.right = d.base + (d.size - 1)
    /\ ummu_find_seg(d.base, d.size - 1, table).data = {seg}
    /\ ummu_token_update(table, d, op) =
           [ret |-> "ok", table |-> (table \ {seg}) \cup {Updated(seg, d, op)}]

\* After an ADD_TOKEN or REMOVE_TOKEN decision the update finds the match and
\* replaces it and nothing else.
LEMMA TokenUpdateOfMatch ==
    ASSUME NEW table, Ordered(table), NEW d, d.base \in Nat, d.size - 1 \in Nat,
           ummu_find_seg(d.base, d.size - 1, table).comp = RANGE_MATCH, NEW op
    PROVE  \E seg \in table : TokenUpdated(table, d, op, seg)
<1>1. PICK seg \in table : /\ seg.left = d.base /\ seg.right = d.base + (d.size - 1)
                           /\ ummu_find_seg(d.base, d.size - 1, table).data = {seg}
  BY MatchIsUnique
<1>2. {Updated(s, d, op) : s \in {seg}} = {Updated(seg, d, op)}
  OBVIOUS
<1>3. ummu_token_update(table, d, op) =
          [ret |-> "ok", table |-> (table \ {seg}) \cup {Updated(s, d, op) : s \in {seg}}]
  BY <1>1, Zenon DEF ummu_token_update, Updated
<1> QED BY <1>1, <1>2, <1>3 DEF TokenUpdated

Slots(seg, a, b, c) == [seg EXCEPT !.tok0 = a, !.tok1 = b, !.token_count = c]

\* What a token update keeps of a segment, and the slots it leaves.
LEMMA SetSlots ==
    ASSUME NEW seg \in SegInfo, NEW a \in Token, NEW b \in Token,
           NEW c \in 0..UMMU_MAX_TOKEN_NUM
    PROVE  LET new == Slots(seg, a, b, c)
           IN  /\ new \in SegInfo /\ new.left = seg.left /\ new.right = seg.right
               /\ new.token_check = seg.token_check
               /\ new.tok0 = a /\ new.tok1 = b /\ new.token_count = c
  BY DEF SegInfo, Slots, UMMU_MAX_TOKEN_NUM

\* Adding a token keeps the bounds of a segment and counts two tokens.
LEMMA AddKeepsSegment ==
    ASSUME NEW seg \in SegInfo, NEW k \in Token
    PROVE  LET new == AddTokenval(k, seg)
           IN  /\ new \in SegInfo /\ new.left = seg.left /\ new.right = seg.right
               /\ new.token_check = seg.token_check
               /\ new.token_count = UMMU_MAX_TOKEN_NUM
<1>1. AddTokenval(k, seg) = Slots(seg, seg.tok0, k, UMMU_MAX_TOKEN_NUM)
  BY DEF AddTokenval, Slots, SegInfo
<1>2. seg.tok0 \in Token /\ UMMU_MAX_TOKEN_NUM \in 0..UMMU_MAX_TOKEN_NUM
  BY DEF SegInfo, UMMU_MAX_TOKEN_NUM
<1> QED BY <1>1, <1>2, SetSlots

\* Removing a token that is in a slot keeps the bounds of a segment and leaves
\* the other token in both slots.
LEMMA RemoveKeepsSegment ==
    ASSUME NEW seg \in SegInfo, NEW k \in {seg.tok0, seg.tok1}
    PROVE  LET new == ummu_remove_tokenval(k, seg)
           IN  /\ new \in SegInfo /\ new.left = seg.left /\ new.right = seg.right
               /\ new.token_check = seg.token_check
               /\ new.token_count = 1 /\ new.tok0 = new.tok1
<1>1. /\ seg.tok0 \in Token /\ seg.tok1 \in Token
      /\ 1 \in 0..UMMU_MAX_TOKEN_NUM
  BY DEF SegInfo, UMMU_MAX_TOKEN_NUM
<1>2. CASE seg.tok0 = k
  <2>1. ummu_remove_tokenval(k, seg) = Slots(seg, seg.tok1, seg.tok1, 1)
    BY <1>2 DEF ummu_remove_tokenval, Slots, SegInfo
  <2> QED BY <1>1, <2>1, SetSlots
<1>3. CASE seg.tok0 # k
  <2>1. ummu_remove_tokenval(k, seg) = Slots(seg, seg.tok0, seg.tok0, 1)
    BY <1>3 DEF ummu_remove_tokenval, Slots, SegInfo
  <2> QED BY <1>1, <2>1, SetSlots
<1> QED BY <1>2, <1>3

\* ummu_update_info dispatches on the operation.
LEMMA UpdateInfoCases ==
    ASSUME NEW op, NEW table, NEW d
    PROVE  /\ op = UMMU_GRANT =>
                 ummu_update_info(op, table, d) = ummu_insert_new_addr(table, d)
           /\ op \in {UMMU_ADD_TOKEN, UMMU_REMOVE_TOKEN} =>
                 ummu_update_info(op, table, d) = ummu_token_update(table, d, op)
           /\ op = UMMU_UNGRANT =>
                 ummu_update_info(op, table, d) = ummu_delete_addr(table, d)
  BY DEF ummu_update_info, UMMU_GRANT, UMMU_ADD_TOKEN, UMMU_REMOVE_TOKEN, UMMU_UNGRANT

-----------------------------------------------------------------------------
(* The decisions: what each answer of the two checks says of the table.    *)

\* ummu_grant_check answers GRANT only for a free range, and ADD_TOKEN only
\* for a match that holds one token.
LEMMA GrantDecision ==
    ASSUME NEW table, Ordered(table), NEW d, d.base \in Nat, d.size - 1 \in Nat
    PROVE  LET find == ummu_find_seg(d.base, d.size - 1, table)
               op == ummu_grant_check(table, d)
           IN  \/ op = UMMU_OP_END
               \/ op = UMMU_GRANT /\ find.comp = RANGE_NOT_EXIST
               \/ /\ op = UMMU_ADD_TOKEN /\ find.comp = RANGE_MATCH
                  /\ \A seg : find.data = {seg} =>
                        seg.token_check = 1 /\ seg.token_count = 1
<1> DEFINE find == ummu_find_seg(d.base, d.size - 1, table)
<1>1. find.comp \in {RANGE_MATCH, RANGE_OVERLAP, RANGE_NOT_EXIST}
  BY DEF ummu_find_seg
<1>2. CASE find.comp = RANGE_MATCH
  <2>1. PICK seg \in table : find.data = {seg}
    BY <1>2, MatchIsUnique
  <2>2. ummu_grant_check(table, d) = ummu_table_param_check(seg, d)
    BY <1>2, <2>1 DEF ummu_grant_check, RANGE_MATCH, RANGE_NOT_EXIST
  <2>3. \A t : find.data = {t} => t = seg
    BY <2>1
  <2> QED BY <1>2, <2>2, <2>3 DEF ummu_table_param_check
<1>3. CASE find.comp = RANGE_NOT_EXIST
  BY <1>3 DEF ummu_grant_check, RANGE_MATCH, RANGE_NOT_EXIST
<1>4. CASE find.comp = RANGE_OVERLAP
  BY <1>4 DEF ummu_grant_check, RANGE_MATCH, RANGE_NOT_EXIST, RANGE_OVERLAP
<1> QED BY <1>1, <1>2, <1>3, <1>4

\* ummu_ungrant_check answers UNGRANT and REMOVE_TOKEN only for a match, and
\* REMOVE_TOKEN only for a token in one of its slots.
LEMMA UngrantDecision ==
    ASSUME NEW table, Ordered(table), NEW u, u.base \in Nat, u.size - 1 \in Nat
    PROVE  LET find == ummu_find_seg(u.base, u.size - 1, table)
               op == ummu_ungrant_check(table, u)
           IN  \/ op = UMMU_OP_END
               \/ op = UMMU_UNGRANT /\ find.comp = RANGE_MATCH
               \/ /\ op = UMMU_REMOVE_TOKEN /\ find.comp = RANGE_MATCH
                  /\ \A seg : find.data = {seg} =>
                        seg.token_check # 0 /\ u.tokenval \in {seg.tok0, seg.tok1}
<1> DEFINE find == ummu_find_seg(u.base, u.size - 1, table)
<1>1. CASE find.comp = RANGE_MATCH
  <2>1. PICK seg \in table : find.data = {seg}
    BY <1>1, MatchIsUnique
  <2>2. ummu_ungrant_check(table, u) = ummu_ungrant_param_check(seg, u)
    BY <1>1, <2>1 DEF ummu_ungrant_check
  <2>3. \A t : find.data = {t} => t = seg
    BY <2>1
  <2> QED BY <1>1, <2>2, <2>3 DEF ummu_ungrant_param_check
<1>2. CASE find.comp # RANGE_MATCH
  BY <1>2 DEF ummu_ungrant_check
<1> QED BY <1>1, <1>2

-----------------------------------------------------------------------------
(* The inductive invariant.                                                *)

\* The invariant gives the search the ordered table it needs.
LEMMA IInvOrdered == IInv => Ordered(segs)
  BY DEF IInv, TypeOK, NoOverlap, Ordered

\* Adding a new segment that is disjoint from the others keeps the invariant.
LEMMA InsertKeeps ==
    ASSUME IInv, NEW r \in GrantReq, ummu_check_data(r),
           LET d == ummu_perm_data_preproc(r)
           IN  /\ segs' = segs \cup {NewSeg(d)}
               /\ \A e \in segs : \/ e.right < NewSeg(d).left
                                  \/ NewSeg(d).right < e.left
    PROVE  IInv'
<1> DEFINE d == ummu_perm_data_preproc(r)
           n == NewSeg(d)
<1>1. /\ n \in SegInfo /\ n.left <= n.right /\ n.right <= MaxAddr
      /\ n.left % Page = 0
      /\ n.token_count = n.token_check /\ n.tok0 = n.tok1
      /\ n.token_check \in {0, 1}
  <2>1. /\ d.base \in Nat /\ d.size - 1 \in Nat /\ d.base + (d.size - 1) \in Nat
        /\ d.base + (d.size - 1) <= MaxAddr /\ d.base % Page = 0
        /\ d.attr \in Attr /\ d.token_check \in {0, 1} /\ d.tokenval \in Token
    BY CheckedRequest
  <2> HIDE DEF d
  <2>2. d.base <= d.base + (d.size - 1)
    BY <2>1
  <2> QED BY <2>1, <2>2, TokenAssumption DEF NewSeg, SegInfo, UMMU_MAX_TOKEN_NUM
<1> HIDE DEF n
<1>2. segs' = segs \cup {n} /\ \A e \in segs : e.right < n.left \/ n.right < e.left
  BY DEF n
<1>3. TypeOK'
  BY <1>1, <1>2 DEF IInv, TypeOK
<1>4. NoOverlap'
  BY <1>1, <1>2 DEF IInv, NoOverlap
<1>5. TokenSlots'
  BY <1>1, <1>2 DEF IInv, TokenSlots, UMMU_MAX_TOKEN_NUM
<1> QED BY <1>3, <1>4, <1>5 DEF IInv

\* Replacing a segment by one with the same bounds and consistent token slots
\* keeps the invariant.
LEMMA ReplaceKeeps ==
    ASSUME IInv, NEW seg \in segs, NEW new \in SegInfo,
           new.left = seg.left, new.right = seg.right,
           new.token_check = 1, new.token_count \in {1, UMMU_MAX_TOKEN_NUM},
           new.token_count = 1 => new.tok0 = new.tok1,
           segs' = (segs \ {seg}) \cup {new}
    PROVE  IInv'
<1>1. TypeOK'
  BY DEF IInv, TypeOK
<1>2. NoOverlap'
  BY DEF IInv, NoOverlap
<1>3. TokenSlots'
  BY DEF IInv, TokenSlots, UMMU_MAX_TOKEN_NUM
<1> QED BY <1>1, <1>2, <1>3 DEF IInv

\* A grant preserves the invariant.
LEMMA GrantKeeps ==
    ASSUME IInv, NEW r \in GrantReq, ummu_grant(r)
    PROVE  IInv'
<1> DEFINE d == ummu_perm_data_preproc(r)
           op == ummu_grant_check(segs, d)
           find == ummu_find_seg(d.base, d.size - 1, segs)
<1>1. /\ ummu_check_data(r) /\ op # UMMU_OP_END
      /\ segs' = ummu_update_info(op, segs, d).table
  BY DEF ummu_grant
<1>2. d.base \in Nat /\ d.size - 1 \in Nat /\ d.tokenval \in Token
  BY <1>1, CheckedRequest
<1>3. Ordered(segs)
  BY IInvOrdered
<1> HIDE DEF d, op
<1>4. CASE op = UMMU_GRANT /\ find.comp = RANGE_NOT_EXIST
  <2>1. ummu_update_info(op, segs, d) = ummu_insert_new_addr(segs, d)
    BY <1>4, UpdateInfoCases
  <2>2. /\ ummu_insert_new_addr(segs, d) =
               [ret |-> "ok", table |-> segs \cup {NewSeg(d)}]
        /\ \A e \in segs : e.right < NewSeg(d).left \/ NewSeg(d).right < e.left
    BY <1>2, <1>3, <1>4, InsertSucceeds
  <2>3. segs' = segs \cup {NewSeg(d)}
    BY <1>1, <2>1, <2>2
  <2> QED BY <1>1, <2>2, <2>3, InsertKeeps DEF d
<1>5. CASE /\ op = UMMU_ADD_TOKEN /\ find.comp = RANGE_MATCH
           /\ \A seg : find.data = {seg} => seg.token_check = 1 /\ seg.token_count = 1
  <2>1. ummu_update_info(op, segs, d) = ummu_token_update(segs, d, op)
    BY <1>5, UpdateInfoCases
  <2>2. find.comp = RANGE_MATCH
    BY <1>5
  <2>3. PICK seg \in segs : TokenUpdated(segs, d, op, seg)
    BY <1>2, <1>3, <2>2, TokenUpdateOfMatch
  <2>4. /\ find.data = {seg}
        /\ ummu_token_update(segs, d, op) =
               [ret |-> "ok", table |-> (segs \ {seg}) \cup {Updated(seg, d, op)}]
    BY <2>3 DEF TokenUpdated
  <2>5. seg \in SegInfo /\ seg.token_check = 1
    BY <1>5, <2>4 DEF IInv, TypeOK
  <2>6. Updated(seg, d, op) = AddTokenval(d.tokenval, seg)
    BY <1>5 DEF Updated, UMMU_ADD_TOKEN, UMMU_REMOVE_TOKEN
  <2>7. segs' = (segs \ {seg}) \cup {AddTokenval(d.tokenval, seg)}
    BY <1>1, <2>1, <2>4, <2>6
  <2>8. UMMU_MAX_TOKEN_NUM # 1
    BY DEF UMMU_MAX_TOKEN_NUM
  <2> QED BY <1>2, <2>5, <2>7, <2>8, AddKeepsSegment, ReplaceKeeps
<1> QED BY <1>1, <1>2, <1>3, <1>4, <1>5, GrantDecision DEF op

\* An ungrant preserves the invariant.
LEMMA UngrantKeeps ==
    ASSUME IInv, NEW u \in UngrantReq, ummu_ungrant(u)
    PROVE  IInv'
<1> DEFINE op == ummu_ungrant_check(segs, u)
           find == ummu_find_seg(u.base, u.size - 1, segs)
<1>1. /\ ummu_ungrant_data_check(u) /\ op # UMMU_OP_END
      /\ segs' = ummu_update_info(op, segs, u).table
  BY DEF ummu_ungrant
<1>2. u.base \in Nat /\ u.size - 1 \in Nat /\ u.tokenval \in Token
  BY <1>1, CheckedUngrant
<1>3. Ordered(segs)
  BY IInvOrdered
<1> HIDE DEF op
<1>4. CASE op = UMMU_UNGRANT /\ find.comp = RANGE_MATCH
  <2>1. ummu_update_info(op, segs, u) = ummu_delete_addr(segs, u)
    BY <1>4, UpdateInfoCases
  <2>2. PICK seg \in segs : ummu_delete_addr(segs, u) =
                                [ret |-> "ok", table |-> segs \ {seg}]
    BY <1>2, <1>3, <1>4, DeleteRemovesMatch
  <2>3. segs' \subseteq segs
    BY <1>1, <2>1, <2>2
  <2> QED BY <2>3 DEF IInv, TypeOK, NoOverlap, TokenSlots
<1>5. CASE /\ op = UMMU_REMOVE_TOKEN /\ find.comp = RANGE_MATCH
           /\ \A seg : find.data = {seg} =>
                 seg.token_check # 0 /\ u.tokenval \in {seg.tok0, seg.tok1}
  <2>1. ummu_update_info(op, segs, u) = ummu_token_update(segs, u, op)
    BY <1>5, UpdateInfoCases
  <2>2. find.comp = RANGE_MATCH
    BY <1>5
  <2>3. PICK seg \in segs : TokenUpdated(segs, u, op, seg)
    BY <1>2, <1>3, <2>2, TokenUpdateOfMatch
  <2>4. /\ find.data = {seg}
        /\ ummu_token_update(segs, u, op) =
               [ret |-> "ok", table |-> (segs \ {seg}) \cup {Updated(seg, u, op)}]
    BY <2>3 DEF TokenUpdated
  <2>5. /\ seg \in SegInfo /\ seg.token_check = 1
        /\ u.tokenval \in {seg.tok0, seg.tok1}
    BY <1>5, <2>4 DEF IInv, TypeOK, SegInfo
  <2>6. Updated(seg, u, op) = ummu_remove_tokenval(u.tokenval, seg)
    BY <1>5 DEF Updated
  <2>7. segs' = (segs \ {seg}) \cup {ummu_remove_tokenval(u.tokenval, seg)}
    BY <1>1, <2>1, <2>4, <2>6
  <2> QED BY <2>5, <2>7, RemoveKeepsSegment, ReplaceKeeps
<1> QED BY <1>1, <1>2, <1>3, <1>4, <1>5, UngrantDecision DEF op

\* The inductive invariant holds in every reachable state.
THEOREM IInvInvariant == Spec => []IInv
<1>1. Init => IInv
  BY DEF Init, IInv, TypeOK, NoOverlap, TokenSlots
<1>2. IInv /\ [Next]_segs => IInv'
  <2> SUFFICES ASSUME IInv, [Next]_segs PROVE IInv'
    OBVIOUS
  <2>1. CASE \E r \in GrantReq : ummu_grant(r)
    BY <2>1, GrantKeeps
  <2>2. CASE \E u \in UngrantReq : ummu_ungrant(u)
    BY <2>2, UngrantKeeps
  <2>3. CASE ummu_free_tid
    BY <2>3 DEF ummu_free_tid, IInv, TypeOK, NoOverlap, TokenSlots
  <2>4. CASE UNCHANGED segs
    BY <2>4 DEF IInv, TypeOK, NoOverlap, TokenSlots
  <2> QED BY <2>1, <2>2, <2>3, <2>4 DEF Next
<1> QED BY <1>1, <1>2, PTL DEF Spec

-----------------------------------------------------------------------------
(* The properties.                                                         *)

\* Every recorded segment is well formed, whatever the callers pass.
THEOREM TypeCorrect == Spec => []TypeOK
  BY IInvInvariant, PTL DEF IInv

\* Recorded segments never overlap, although ModCmp orders only ranges that
\* do not overlap and every request is looked up with an arbitrary range.
THEOREM SegmentsDisjoint == Spec => []NoOverlap
  BY IInvInvariant, PTL DEF IInv

\* The token slots and the token count of every segment agree.
THEOREM TokenSlotsConsistent == Spec => []TokenSlots
  BY IInvInvariant, PTL DEF IInv

\* What the checks decide the updates can do: in ummu_grant and in
\* ummu_ungrant_data the error path after the table was changed is only
\* reached by a failed allocation.
THEOREM UpdatesSucceed == Spec => []UpdateFollowsCheck
<1>1. IInv => UpdateFollowsCheck
  <2> SUFFICES ASSUME IInv PROVE UpdateFollowsCheck
    OBVIOUS
  <2>1. Ordered(segs)
    BY IInvOrdered
  <2>2. ASSUME NEW r \in GrantReq, ummu_check_data(r),
               ummu_grant_check(segs, ummu_perm_data_preproc(r)) # UMMU_OP_END
        PROVE  ummu_update_info(ummu_grant_check(segs, ummu_perm_data_preproc(r)),
                                segs, ummu_perm_data_preproc(r)).ret = "ok"
    <3> DEFINE d == ummu_perm_data_preproc(r)
               op == ummu_grant_check(segs, d)
               find == ummu_find_seg(d.base, d.size - 1, segs)
    <3>1. d.base \in Nat /\ d.size - 1 \in Nat
      BY <2>2, CheckedRequest
    <3>2. op # UMMU_OP_END
      BY <2>2
    <3> HIDE DEF d
    <3>3. \/ op = UMMU_GRANT /\ find.comp = RANGE_NOT_EXIST
          \/ op = UMMU_ADD_TOKEN /\ find.comp = RANGE_MATCH
      BY <2>1, <3>1, <3>2, GrantDecision
    <3> HIDE DEF op
    <3>4. CASE op = UMMU_GRANT /\ find.comp = RANGE_NOT_EXIST
      <4>1. ummu_insert_new_addr(segs, d) = [ret |-> "ok", table |-> segs \cup {NewSeg(d)}]
        BY <2>1, <3>1, <3>4, InsertSucceeds
      <4>2. ummu_update_info(op, segs, d).ret = "ok"
        BY <3>4, <4>1, UpdateInfoCases
      <4> QED BY <4>2 DEF d, op
    <3>5. CASE op = UMMU_ADD_TOKEN /\ find.comp = RANGE_MATCH
      <4>1. PICK seg \in segs : TokenUpdated(segs, d, op, seg)
        BY <2>1, <3>1, <3>5, TokenUpdateOfMatch
      <4>2. ummu_update_info(op, segs, d).ret = "ok"
        BY <3>5, <4>1, UpdateInfoCases DEF TokenUpdated
      <4> QED BY <4>2 DEF d, op
    <3> QED BY <3>3, <3>4, <3>5
  <2>3. ASSUME NEW u \in UngrantReq, ummu_ungrant_data_check(u),
               ummu_ungrant_check(segs, u) # UMMU_OP_END
        PROVE  LET op == ummu_ungrant_check(segs, u)
                   upd == ummu_update_info(op, segs, u)
               IN  /\ upd.ret = "ok"
                   /\ op = UMMU_UNGRANT =>
                        upd.table = {s \in segs : ~(/\ s.left = u.base
                                                    /\ s.right = u.base + (u.size - 1))}
    <3> DEFINE op == ummu_ungrant_check(segs, u)
               find == ummu_find_seg(u.base, u.size - 1, segs)
    <3>1. u.base \in Nat /\ u.size - 1 \in Nat
      BY <2>3, CheckedUngrant
    <3>2. op # UMMU_OP_END
      BY <2>3
    <3>3. \/ op = UMMU_UNGRANT /\ find.comp = RANGE_MATCH
          \/ op = UMMU_REMOVE_TOKEN /\ find.comp = RANGE_MATCH
      BY <2>1, <3>1, <3>2, UngrantDecision
    <3> HIDE DEF op
    <3>4. CASE op = UMMU_UNGRANT /\ find.comp = RANGE_MATCH
      <4>1. PICK seg \in segs :
                /\ seg.left = u.base /\ seg.right = u.base + (u.size - 1)
                /\ ummu_delete_addr(segs, u) = [ret |-> "ok", table |-> segs \ {seg}]
        BY <2>1, <3>1, <3>4, DeleteRemovesMatch
      <4>2. \A s \in segs : s.left = seg.left /\ s.right = seg.right => s = seg
        BY DEF IInv, NoOverlap, TypeOK, SegInfo
      <4>3. ummu_update_info(op, segs, u) = [ret |-> "ok", table |-> segs \ {seg}]
        BY <3>4, <4>1, UpdateInfoCases
      <4>4. segs \ {seg} = {s \in segs : ~(/\ s.left = u.base
                                           /\ s.right = u.base + (u.size - 1))}
        BY <4>1, <4>2
      <4> QED BY <4>3, <4>4 DEF op
    <3>5. CASE op = UMMU_REMOVE_TOKEN /\ find.comp = RANGE_MATCH
      <4>1. PICK seg \in segs : TokenUpdated(segs, u, op, seg)
        BY <2>1, <3>1, <3>5, TokenUpdateOfMatch
      <4>2. ummu_update_info(op, segs, u).ret = "ok" /\ op # UMMU_UNGRANT
        BY <3>5, <4>1, UpdateInfoCases DEF TokenUpdated, UMMU_REMOVE_TOKEN, UMMU_UNGRANT
      <4> QED BY <4>2 DEF op
    <3> QED BY <3>3, <3>4, <3>5
  <2> QED BY <2>2, <2>3 DEF UpdateFollowsCheck
<1> QED BY <1>1, IInvInvariant, PTL

\* The page that contains address a starts at a multiple of the page size; two
\* multiples in the same page are equal.
LEMMA OneMultiplePerPage ==
    ASSUME NEW a \in Nat, NEW b \in Nat, NEW p \in Nat \ {0},
           a * p < (b + 1) * p, b * p <= a * p
    PROVE  a = b
<1>1. a < b + 1
  <2>1. SUFFICES ASSUME b + 1 <= a PROVE FALSE
    OBVIOUS
  <2>2. PICK c \in Nat : a = (b + 1) + c
    <3>1. a - (b + 1) \in Nat
      BY <2>1
    <3> QED BY <3>1
  <2>3. a * p = (b + 1) * p + c * p /\ c * p >= 0
    BY <2>2
  <2> QED BY <2>3
<1>2. b <= a
  <2>1. SUFFICES ASSUME a + 1 <= b PROVE FALSE
    OBVIOUS
  <2>2. PICK c \in Nat : b = (a + 1) + c
    <3>1. b - (a + 1) \in Nat
      BY <2>1
    <3> QED BY <3>1
  <2>3. b * p = a * p + p + c * p /\ c * p >= 0
    BY <2>2
  <2> QED BY <2>3
<1> QED BY <1>1, <1>2

\* A page holds addresses of at most one segment: the last level of the table,
\* which has one node per page, never has to split a node.
THEOREM PagesNotShared == Spec => []NoSharedPage
<1>1. ASSUME IInv, NEW s \in segs, NEW t \in segs, s.right < t.left,
             NEW k \in Nat, k * Page <= s.right, t.left < (k + 1) * Page
      PROVE  FALSE
  <2>1. t.left \in Nat /\ s.right \in Nat /\ t.left % Page = 0 /\ Page \in Nat \ {0}
    BY <1>1, AddrAssumption DEF IInv, TypeOK, SegInfo
  <2>2. PICK q \in Nat : t.left = q * Page
    <3>1. \A a \in Nat, p \in Nat \ {0} :
              a = ((a \div p) * p) + (a % p) /\ a \div p \in Nat
      OBVIOUS
    <3>2. /\ t.left = ((t.left \div Page) * Page) + (t.left % Page)
          /\ t.left \div Page \in Nat
      BY <2>1, <3>1
    <3> DEFINE q == t.left \div Page
    <3>3. q \in Nat /\ t.left = (q * Page) + 0
      BY <2>1, <3>2
    <3> HIDE DEF q
    <3>4. t.left = q * Page
      BY <2>1, <3>3
    <3> QED BY <3>3, <3>4
  <2>3. q * Page < (k + 1) * Page /\ k * Page <= q * Page
    BY <1>1, <2>1, <2>2
  <2>4. q = k
    BY <2>1, <2>3, OneMultiplePerPage
  <2> QED BY <1>1, <2>1, <2>2, <2>4
<1>2. IInv => NoSharedPage
  <2> SUFFICES ASSUME IInv, NEW s \in segs, NEW t \in segs, s # t,
                      NEW k \in 0..(MaxAddr \div Page),
                      s.left < (k + 1) * Page, k * Page <= s.right,
                      t.left < (k + 1) * Page, k * Page <= t.right
               PROVE  FALSE
    BY DEF NoSharedPage
  <2>1. s.right < t.left \/ t.right < s.left
    BY DEF IInv, NoOverlap
  <2>2. k \in Nat
    BY AddrAssumption
  <2> QED BY <1>1, <2>1, <2>2
<1> QED BY <1>2, IInvInvariant, PTL

-----------------------------------------------------------------------------
(* What a call leaves alone.                                               *)

\* The new table differs from the old one only in segments that are exactly
\* the range of the request.
OnlyRange(base, size, D, A) ==
    /\ segs' = (segs \ D) \cup A
    /\ \A s \in D \cup A : s.left = base /\ s.right = base + (size - 1)

\* A grant adds or replaces a segment that is exactly its range.
LEMMA GrantChangesRange ==
    ASSUME IInv, NEW r \in GrantReq, ummu_grant(r)
    PROVE  \E D, A : OnlyRange(r.base, r.size, D, A)
<1> DEFINE d == ummu_perm_data_preproc(r)
           op == ummu_grant_check(segs, d)
           find == ummu_find_seg(d.base, d.size - 1, segs)
<1>1. /\ ummu_check_data(r) /\ op # UMMU_OP_END
      /\ segs' = ummu_update_info(op, segs, d).table
  BY DEF ummu_grant
<1>2. /\ d.base \in Nat /\ d.size - 1 \in Nat /\ d.tokenval \in Token
      /\ d.base = r.base /\ d.size = r.size
  BY <1>1, CheckedRequest
<1>3. Ordered(segs)
  BY IInvOrdered
<1> HIDE DEF d
<1>4. \/ op = UMMU_GRANT /\ find.comp = RANGE_NOT_EXIST
      \/ op = UMMU_ADD_TOKEN /\ find.comp = RANGE_MATCH
  BY <1>1, <1>2, <1>3, GrantDecision
<1> HIDE DEF op
<1>5. CASE op = UMMU_GRANT /\ find.comp = RANGE_NOT_EXIST
  <2>1. ummu_update_info(op, segs, d) = [ret |-> "ok", table |-> segs \cup {NewSeg(d)}]
    BY <1>2, <1>3, <1>5, UpdateInfoCases, InsertSucceeds
  <2>2. NewSeg(d).left = d.base /\ NewSeg(d).right = d.base + (d.size - 1)
    BY DEF NewSeg
  <2>3. OnlyRange(r.base, r.size, {}, {NewSeg(d)})
    BY <1>1, <1>2, <2>1, <2>2 DEF OnlyRange
  <2> QED BY <2>3
<1>6. CASE op = UMMU_ADD_TOKEN /\ find.comp = RANGE_MATCH
  <2>1. PICK seg \in segs : TokenUpdated(segs, d, op, seg)
    BY <1>2, <1>3, <1>6, TokenUpdateOfMatch
  <2>2. seg \in SegInfo
    BY DEF IInv, TypeOK
  <2>3. Updated(seg, d, op) = AddTokenval(d.tokenval, seg)
    BY <1>6 DEF Updated, UMMU_ADD_TOKEN, UMMU_REMOVE_TOKEN
  <2>4. /\ Updated(seg, d, op).left = seg.left
        /\ Updated(seg, d, op).right = seg.right
    BY <1>2, <2>2, <2>3, AddKeepsSegment
  <2>5. segs' = (segs \ {seg}) \cup {Updated(seg, d, op)}
    BY <1>1, <1>6, <2>1, UpdateInfoCases DEF TokenUpdated
  <2>6. OnlyRange(r.base, r.size, {seg}, {Updated(seg, d, op)})
    BY <1>2, <2>1, <2>4, <2>5 DEF OnlyRange, TokenUpdated
  <2> QED BY <2>6
<1> QED BY <1>4, <1>5, <1>6

\* An ungrant removes or replaces a segment that is exactly its range.
LEMMA UngrantChangesRange ==
    ASSUME IInv, NEW u \in UngrantReq, ummu_ungrant(u)
    PROVE  \E D, A : OnlyRange(u.base, u.size, D, A)
<1> DEFINE op == ummu_ungrant_check(segs, u)
           find == ummu_find_seg(u.base, u.size - 1, segs)
<1>1. /\ ummu_ungrant_data_check(u) /\ op # UMMU_OP_END
      /\ segs' = ummu_update_info(op, segs, u).table
  BY DEF ummu_ungrant
<1>2. u.base \in Nat /\ u.size - 1 \in Nat
  BY <1>1, CheckedUngrant
<1>3. Ordered(segs)
  BY IInvOrdered
<1>4. \/ op = UMMU_UNGRANT /\ find.comp = RANGE_MATCH
      \/ /\ op = UMMU_REMOVE_TOKEN /\ find.comp = RANGE_MATCH
         /\ \A seg : find.data = {seg} => u.tokenval \in {seg.tok0, seg.tok1}
  BY <1>1, <1>2, <1>3, UngrantDecision
<1> HIDE DEF op
<1>5. CASE op = UMMU_UNGRANT /\ find.comp = RANGE_MATCH
  <2>1. PICK seg \in segs :
            /\ seg.left = u.base /\ seg.right = u.base + (u.size - 1)
            /\ ummu_delete_addr(segs, u) = [ret |-> "ok", table |-> segs \ {seg}]
    BY <1>2, <1>3, <1>5, DeleteRemovesMatch
  <2>2. segs' = segs \ {seg}
    BY <1>1, <1>5, <2>1, UpdateInfoCases
  <2>3. OnlyRange(u.base, u.size, {seg}, {})
    BY <2>1, <2>2 DEF OnlyRange
  <2> QED BY <2>3
<1>6. CASE /\ op = UMMU_REMOVE_TOKEN /\ find.comp = RANGE_MATCH
           /\ \A seg : find.data = {seg} => u.tokenval \in {seg.tok0, seg.tok1}
  <2>1. PICK seg \in segs : TokenUpdated(segs, u, op, seg)
    BY <1>2, <1>3, <1>6, TokenUpdateOfMatch
  <2>2. seg \in SegInfo /\ u.tokenval \in {seg.tok0, seg.tok1}
    BY <1>6, <2>1 DEF IInv, TypeOK, TokenUpdated
  <2>3. Updated(seg, u, op) = ummu_remove_tokenval(u.tokenval, seg)
    BY <1>6 DEF Updated
  <2>4. /\ Updated(seg, u, op).left = seg.left
        /\ Updated(seg, u, op).right = seg.right
    BY <2>2, <2>3, RemoveKeepsSegment
  <2>5. segs' = (segs \ {seg}) \cup {Updated(seg, u, op)}
    BY <1>1, <1>6, <2>1, UpdateInfoCases DEF TokenUpdated
  <2>6. OnlyRange(u.base, u.size, {seg}, {Updated(seg, u, op)})
    BY <2>1, <2>4, <2>5 DEF OnlyRange, TokenUpdated
  <2> QED BY <2>6
<1> QED BY <1>4, <1>5, <1>6

\* A change confined to the range of a request is not seen outside it.
LEMMA OutsideUntouched ==
    ASSUME NEW base \in Nat, NEW size \in Nat, NEW D, NEW A,
           OnlyRange(base, size, D, A)
    PROVE  Outside(segs, base, size)' = Outside(segs, base, size)
<1>1. \A s \in D \cup A : ~(s.left < base \/ s.right > base + (size - 1))
  BY DEF OnlyRange
<1> QED BY <1>1 DEF OnlyRange, Outside

\* No call changes a segment outside the range it was given.
THEOREM CallsStayInRange == Spec => StaysInRange
<1> DEFINE A ==
      /\ \A r \in GrantReq :
            Outside(segs, r.base, r.size)' # Outside(segs, r.base, r.size)
            => ~ummu_grant(r)
      /\ \A u \in UngrantReq :
            Outside(segs, u.base, u.size)' # Outside(segs, u.base, u.size)
            => ~ummu_ungrant(u)
<1>1. IInv => A
  <2> SUFFICES ASSUME IInv PROVE A
    OBVIOUS
  <2>1. ASSUME NEW r \in GrantReq, ummu_grant(r)
        PROVE  Outside(segs, r.base, r.size)' = Outside(segs, r.base, r.size)
    <3>1. r.base \in Nat /\ r.size \in Nat
      BY InputAssumption DEF GrantReq
    <3>2. PICK D, N : OnlyRange(r.base, r.size, D, N)
      BY <2>1, GrantChangesRange
    <3> QED BY <3>1, <3>2, OutsideUntouched
  <2>2. ASSUME NEW u \in UngrantReq, ummu_ungrant(u)
        PROVE  Outside(segs, u.base, u.size)' = Outside(segs, u.base, u.size)
    <3>1. u.base \in Nat /\ u.size \in Nat
      BY InputAssumption DEF UngrantReq
    <3>2. PICK D, N : OnlyRange(u.base, u.size, D, N)
      BY <2>2, UngrantChangesRange
    <3> QED BY <3>1, <3>2, OutsideUntouched
  <2> QED BY <2>1, <2>2
<1> QED BY <1>1, IInvInvariant, PTL DEF StaysInRange

-----------------------------------------------------------------------------
(* Revoking one of two tokens.                                             *)

\* An ungrant by token that is carried out on a segment with two different
\* tokens is a REMOVE_TOKEN, and its token is one of the two.
LEMMA RevokeDecision ==
    ASSUME IInv, NEW u \in UngrantReq, NEW s \in segs, ummu_ungrant(u),
           u.bytoken = 1, s.tok0 # s.tok1,
           s.left = u.base, s.right = u.base + (u.size - 1)
    PROVE  /\ ummu_ungrant_check(segs, u) = UMMU_REMOVE_TOKEN
           /\ ummu_find_seg(u.base, u.size - 1, segs).comp = RANGE_MATCH
           /\ ummu_find_seg(u.base, u.size - 1, segs).data = {s}
           /\ u.tokenval \in {s.tok0, s.tok1}
<1> DEFINE find == ummu_find_seg(u.base, u.size - 1, segs)
<1>1. ummu_ungrant_data_check(u) /\ ummu_ungrant_check(segs, u) # UMMU_OP_END
  BY DEF ummu_ungrant
<1>2. u.base \in Nat /\ u.size - 1 \in Nat
  BY <1>1, CheckedUngrant
<1>3. MapFind(segs, MkRange(u.base, u.size - 1)) = {s}
  <2>1. Ordered(segs)
    BY IInvOrdered
  <2>2. \A n \in Nat : MapFind(segs, MkRange(s.left, n)) = {s}
    BY <2>1, KeyAtSegment
  <2> QED BY <1>2, <2>2
<1>4. find.comp = RANGE_MATCH /\ find.data = {s}
  <2>1. Exactly({s}, u.base, u.size - 1) = {s}
    BY DEF Exactly
  <2> QED BY <1>3, <2>1 DEF ummu_find_seg
<1>5. ummu_ungrant_check(segs, u) = ummu_ungrant_param_check(s, u)
  BY <1>4 DEF ummu_ungrant_check
<1>6. s.token_count # 1
  <2>1. s \in SegInfo /\ (s.token_count < UMMU_MAX_TOKEN_NUM => s.tok0 = s.tok1)
    BY DEF IInv, TypeOK, TokenSlots
  <2> QED BY <2>1 DEF SegInfo, UMMU_MAX_TOKEN_NUM
<1>7. /\ ummu_ungrant_param_check(s, u) = UMMU_REMOVE_TOKEN
      /\ u.tokenval \in {s.tok0, s.tok1}
  BY <1>1, <1>5, <1>6 DEF ummu_ungrant_param_check
<1> QED BY <1>4, <1>5, <1>7

\* Removing one of two different tokens leaves the other one in both slots.
LEMMA RemoveLeavesOther ==
    ASSUME NEW s \in SegInfo, NEW k \in {s.tok0, s.tok1}, s.tok0 # s.tok1
    PROVE  LET t == ummu_remove_tokenval(k, s)
           IN  /\ t.attr = s.attr
               /\ {t.tok0, t.tok1} = {s.tok0, s.tok1} \ {k}
  BY DEF ummu_remove_tokenval, SegInfo

\* Ungranting by one of two different tokens revokes that token and leaves
\* the segment granted, with its attribute and the other token.
THEOREM TokensRevoked == Spec => TokenRevoked
<1> DEFINE A ==
      \A u \in UngrantReq : \A s \in segs :
         /\ u.bytoken = 1 /\ s.token_check = 1 /\ s.tok0 # s.tok1
         /\ s.left = u.base /\ s.right = u.base + (u.size - 1)
         /\ ummu_ungrant(u)
         => \E t \in segs' : /\ t.left = s.left /\ t.right = s.right
                             /\ t.attr = s.attr /\ t.token_check = 1
                             /\ {t.tok0, t.tok1} = {s.tok0, s.tok1} \ {u.tokenval}
<1>1. IInv => A
  <2> SUFFICES ASSUME IInv, NEW u \in UngrantReq, NEW s \in segs,
                      u.bytoken = 1, s.token_check = 1, s.tok0 # s.tok1,
                      s.left = u.base, s.right = u.base + (u.size - 1),
                      ummu_ungrant(u)
               PROVE  \E t \in segs' :
                          /\ t.left = s.left /\ t.right = s.right
                          /\ t.attr = s.attr /\ t.token_check = 1
                          /\ {t.tok0, t.tok1} = {s.tok0, s.tok1} \ {u.tokenval}
    OBVIOUS
  <2> DEFINE op == ummu_ungrant_check(segs, u)
             t == ummu_remove_tokenval(u.tokenval, s)
  <2>1. /\ ummu_ungrant_data_check(u)
        /\ segs' = ummu_update_info(op, segs, u).table
    BY DEF ummu_ungrant
  <2>2. u.base \in Nat /\ u.size - 1 \in Nat /\ Ordered(segs)
    BY <2>1, CheckedUngrant, IInvOrdered
  <2>3. /\ op = UMMU_REMOVE_TOKEN
        /\ ummu_find_seg(u.base, u.size - 1, segs).comp = RANGE_MATCH
        /\ ummu_find_seg(u.base, u.size - 1, segs).data = {s}
        /\ u.tokenval \in {s.tok0, s.tok1}
    BY RevokeDecision
  <2> HIDE DEF op
  <2>4. PICK seg \in segs : TokenUpdated(segs, u, op, seg)
    BY <2>2, <2>3, TokenUpdateOfMatch
  <2>5. seg = s
    BY <2>3, <2>4 DEF TokenUpdated
  <2>6. t \in segs'
    BY <2>1, <2>3, <2>4, <2>5, UpdateInfoCases DEF TokenUpdated, Updated
  <2>7. s \in SegInfo
    BY DEF IInv, TypeOK
  <2>8. /\ t.left = s.left /\ t.right = s.right /\ t.token_check = s.token_check
        /\ t.attr = s.attr /\ {t.tok0, t.tok1} = {s.tok0, s.tok1} \ {u.tokenval}
    BY <2>3, <2>7, RemoveKeepsSegment, RemoveLeavesOther
  <2> QED BY <2>6, <2>8
<1> QED BY <1>1, IInvInvariant, PTL DEF TokenRevoked

-----------------------------------------------------------------------------
(* Whole pages, and other spans, in a range.                               *)

\* Multiplication keeps the order.
LEMMA Multiples ==
    ASSUME NEW p \in Nat, NEW a \in Nat, NEW b \in Nat, a <= b
    PROVE  a * p <= b * p
<1>1. PICK c \in Nat : b = a + c
  <2>1. b - a \in Nat
    OBVIOUS
  <2> QED BY <2>1
<1>2. b * p = a * p + c * p /\ c * p >= 0
  BY <1>1
<1> QED BY <1>2

\* A number is its quotient and its remainder.
LEMMA Remainder ==
    ASSUME NEW p \in Nat, p > 0, NEW a \in Nat
    PROVE  a = p * (a \div p) + (a % p)
  OBVIOUS

\* Quotient and remainder, with their bounds.
LEMMA Division ==
    ASSUME NEW p \in Nat \ {0}, NEW a \in Nat
    PROVE  /\ a \div p \in Nat /\ a % p \in 0 .. p - 1
           /\ (a \div p) * p <= a /\ a < (a \div p) * p + p
           /\ a = (a \div p) * p + (a % p)
<1>1. a \div p \in Nat
  OBVIOUS
<1>2. a % p \in 0 .. p - 1
  OBVIOUS
<1>3. a = p * (a \div p) + (a % p)
  BY Remainder
<1>4. p * (a \div p) <= a /\ a < p * (a \div p) + p
  OBVIOUS
<1>5. p * (a \div p) = (a \div p) * p
  BY <1>1
<1> QED BY <1>1, <1>2, <1>3, <1>4, <1>5

\* Division keeps the order.
LEMMA QuotientMonotone ==
    ASSUME NEW p \in Nat \ {0}, NEW a \in Nat, NEW b \in Nat, a <= b
    PROVE  a \div p <= b \div p
<1> DEFINE d == a \div p
           e == b \div p
<1>1. d \in Nat /\ e \in Nat /\ d * p <= a /\ b < e * p + p
  BY Division
<1> HIDE DEF d, e
<1>2. ASSUME e < d PROVE FALSE
  <2>1. (e + 1) * p <= d * p
    BY <1>1, <1>2, Multiples
  <2>2. (e + 1) * p = e * p + p
    BY <1>1
  <2>3. e * p \in Nat /\ d * p \in Nat
    BY <1>1
  <2> QED BY <1>1, <2>1, <2>2, <2>3
<1> QED BY <1>1, <1>2 DEF d, e

\* a is in the same span of p addresses as q, an address of the range that is
\* rounded out to whole spans: by m at its start, to the size z.
SpanOf(a, q, p, base, size, m, z) ==
    /\ p \in Nat \ {0} /\ base \in Nat /\ size \in Nat /\ a \in Nat /\ q \in Nat
    /\ base <= q /\ q <= base + size - 1 /\ a \div p = q \div p
    /\ m = base % p /\ z = (((size + m) + p - 1) \div p) * p

\* A range rounded out has all of every span it touches.
LEMMA RoundedOut ==
    ASSUME NEW a, NEW q, NEW p, NEW base, NEW size, NEW m, NEW z,
           SpanOf(a, q, p, base, size, m, z)
    PROVE  base - m \in Nat /\ z \in Nat \ {0} /\ base - m <= a /\ a <= (base - m) + z - 1
<1>0. /\ p \in Nat \ {0} /\ base \in Nat /\ size \in Nat /\ a \in Nat /\ q \in Nat
      /\ base <= q /\ q <= base + size - 1 /\ a \div p = q \div p
      /\ m = base % p /\ z = (((size + m) + p - 1) \div p) * p
  BY Zenon DEF SpanOf
<1> DEFINE b == base \div p
           d == q \div p
           w == (size + m) + p - 1
           e == w \div p
<1>1. b \in Nat /\ m \in 0 .. p - 1 /\ base = b * p + m
  BY <1>0, Division
<1>2. d \in Nat /\ d * p <= q
  BY <1>0, Division
<1>3. d * p <= a /\ a < d * p + p
  BY <1>0, Division
<1>4. b <= d
  BY <1>0, QuotientMonotone
<1> HIDE DEF b, d
<1>5. w \in Nat
  BY <1>0, <1>1
<1>6. w = (size + m) + p - 1
  OBVIOUS
<1> HIDE DEF w
<1>7. e \in Nat /\ w < e * p + p
  BY <1>0, <1>5, Division
<1> HIDE DEF e
<1>8. b * p \in Nat /\ d * p \in Nat /\ e * p \in Nat /\ (b + e) * p = b * p + e * p
      /\ (d + 1) * p = d * p + p
  BY <1>0, <1>1, <1>2, <1>7
<1>9. b * p <= d * p
  BY <1>0, <1>1, <1>2, <1>4, Multiples
<1>10. d + 1 <= b + e
  <2> SUFFICES ASSUME b + e <= d PROVE FALSE
    BY <1>0, <1>1, <1>2, <1>7
  <2>1. (b + e) * p <= d * p
    BY <1>0, <1>1, <1>2, <1>7, Multiples
  <2> QED BY <1>0, <1>1, <1>2, <1>6, <1>7, <1>8, <2>1
<1>11. (d + 1) * p <= (b + e) * p
  BY <1>0, <1>1, <1>2, <1>7, <1>10, Multiples
<1>12. base - m \in Nat /\ e * p \in Nat \ {0} /\ base - m <= a /\ a <= (base - m) + e * p - 1
  BY <1>0, <1>1, <1>3, <1>8, <1>9, <1>11
<1> QED BY <1>0, <1>12 DEF w, e

-----------------------------------------------------------------------------
(* What a call that was let through does to the segments, in one place for *)
(* the proofs about the table.                                             *)

\* The request is for exactly this range.
Meant(seg, d) == seg.left = d.base /\ seg.right = d.base + d.size - 1

\* Non-empty ranges that start on a page and have no address in common.
Apart(T) ==
    /\ \A s \in T : /\ s.left \in Nat /\ s.right \in Nat /\ s.left <= s.right
                    /\ s.right <= MaxAddr /\ s.left % Page = 0
    /\ \A s, t \in T : s # t => s.right < t.left \/ t.right < s.left

\* t is seg with the tokens a and b, c of them.
WithTokens(seg, t, a, b, c) ==
    /\ t.left = seg.left /\ t.right = seg.right /\ t.attr = seg.attr /\ t.token_check = 1
    /\ t.tok0 = a /\ t.tok1 = b /\ t.token_count = c

\* The segments are apart.
LEMMA IInvApart == IInv => Apart(segs)
  BY DEF IInv, TypeOK, NoOverlap, Apart, SegInfo

\* Segments that are apart have no page in common.
LEMMA ApartPages ==
    ASSUME NEW T, Apart(T), NEW s \in T, NEW t \in T, NEW a \in s.left .. s.right,
           NEW b \in t.left .. t.right, a \div Page = b \div Page
    PROVE  s = t
<1>1. ASSUME NEW v \in T, NEW w \in T, NEW c \in v.left .. v.right, NEW e \in w.left .. w.right,
             c \div Page = e \div Page, v.right < w.left
      PROVE  FALSE
  <2> DEFINE p == Page
             q == w.left \div p
  <2>1. /\ p \in Nat \ {0} /\ c \in Nat /\ e \in Nat /\ v.right \in Nat /\ w.left \in Nat
        /\ c <= v.right /\ w.left <= e /\ w.left % p = 0
    BY <1>1, AddrAssumption DEF Apart
  <2> HIDE DEF p
  <2>2. q \in Nat /\ w.left = q * p + (w.left % p) /\ q <= e \div p
    BY <2>1, Division, QuotientMonotone
  <2>3. c \div p = e \div p
    BY <1>1 DEF p
  <2> DEFINE d == c \div p
  <2>4. d \in Nat /\ d * p <= c /\ q <= d
    BY <2>1, <2>2, <2>3, Division
  <2> HIDE DEF q, d
  <2>5. q * p <= d * p /\ q * p \in Nat /\ d * p \in Nat
    BY <2>1, <2>2, <2>4, Multiples
  <2>6. w.left = q * p
    BY <2>1, <2>2, <2>5
  <2> QED BY <1>1, <2>1, <2>4, <2>5, <2>6
<1>2. \A u, v \in T : u # v => u.right < v.left \/ v.right < u.left
  BY DEF Apart
<1> QED BY <1>1, <1>2

\* A grant adds the segment asked for, apart from the others, or a token to a
\* segment that has one.
LEMMA GrantOutcome ==
    ASSUME IInv, NEW r \in GrantReq, ummu_check_data(r),
           ummu_grant_check(segs, ummu_perm_data_preproc(r)) # UMMU_OP_END
    PROVE  LET d == ummu_perm_data_preproc(r)
               op == ummu_grant_check(segs, d)
               new == ummu_update_info(op, segs, d).table
           IN  \/ /\ op = UMMU_GRANT /\ \E s : /\ new = segs \cup {s} /\ s \notin segs
                                               /\ Meant(s, d) /\ Apart(segs \cup {s})
                                               /\ s.attr = d.attr /\ s.token_check = d.token_check
                                               /\ d.token_check = 1 =>
                                                    /\ s.tok0 = d.tokenval /\ s.tok1 = d.tokenval
                                                    /\ s.token_count = 1
               \/ /\ op = UMMU_ADD_TOKEN
                  /\ \E seg \in segs : \E t :
                       /\ new = (segs \ {seg}) \cup {t} /\ Meant(seg, d)
                       /\ seg.token_check = 1 /\ seg.token_count = 1
                       /\ WithTokens(seg, t, seg.tok0, d.tokenval, UMMU_MAX_TOKEN_NUM)
<1> DEFINE d == ummu_perm_data_preproc(r)
           op == ummu_grant_check(segs, d)
           find == ummu_find_seg(d.base, d.size - 1, segs)
           new == ummu_update_info(op, segs, d).table
<1>1. /\ d.base \in Nat /\ d.size \in Nat /\ d.size - 1 \in Nat /\ d.tokenval \in Token
      /\ d.base + (d.size - 1) \in Nat /\ d.base + (d.size - 1) <= MaxAddr /\ d.base % Page = 0
      /\ d.base + (d.size - 1) = d.base + d.size - 1 /\ d.token_check \in {0, 1}
  BY CheckedRequest
<1>2. Ordered(segs) /\ Apart(segs) /\ op # UMMU_OP_END
  BY IInvOrdered, IInvApart
<1> HIDE DEF d, op, new
<1>4. CASE op = UMMU_GRANT /\ find.comp = RANGE_NOT_EXIST
  <2> DEFINE s == NewSeg(d)
  <2>1. new = ummu_insert_new_addr(segs, d).table
    BY <1>4, UpdateInfoCases DEF new
  <2>2. /\ ummu_insert_new_addr(segs, d) = [ret |-> "ok", table |-> segs \cup {s}]
        /\ \A e \in segs : e.right < s.left \/ s.right < e.left
    BY <1>1, <1>2, <1>4, InsertSucceeds
  <2>3. new = segs \cup {s}
    BY <2>1, <2>2
  <2>4. /\ s.left = d.base /\ s.right = d.base + d.size - 1
        /\ s.attr = d.attr /\ s.token_check = d.token_check /\ s.token_count = d.token_check
        /\ d.token_check = 1 => s.tok0 = d.tokenval /\ s.tok1 = d.tokenval
    BY <1>1 DEF NewSeg
  <2> HIDE DEF s
  <2>5. s \notin segs
    BY <1>1, <2>2, <2>4
  <2>6. Apart(segs \cup {s})
    BY <1>1, <1>2, <2>2, <2>4 DEF Apart
  <2> QED BY <1>4, <2>3, <2>4, <2>5, <2>6 DEF Meant, d, op, new
<1>5. CASE /\ op = UMMU_ADD_TOKEN /\ find.comp = RANGE_MATCH
           /\ \A seg : find.data = {seg} => seg.token_check = 1 /\ seg.token_count = 1
  <2>1. new = ummu_token_update(segs, d, op).table
    BY <1>5, UpdateInfoCases DEF new
  <2>2. find.comp = RANGE_MATCH
    BY <1>5
  <2>3. PICK seg \in segs : TokenUpdated(segs, d, op, seg)
    BY <1>1, <1>2, <2>2, TokenUpdateOfMatch
  <2> DEFINE t == Updated(seg, d, op)
  <2>4. /\ find.data = {seg} /\ seg.left = d.base /\ seg.right = d.base + (d.size - 1)
        /\ ummu_token_update(segs, d, op) = [ret |-> "ok", table |-> (segs \ {seg}) \cup {t}]
    BY <2>3 DEF TokenUpdated
  <2>5. seg \in SegInfo /\ seg.token_check = 1 /\ seg.token_count = 1
    BY <1>5, <2>4 DEF IInv, TypeOK
  <2>6. t = [seg EXCEPT !.tok1 = d.tokenval, !.token_count = UMMU_MAX_TOKEN_NUM]
    BY <1>5 DEF Updated, AddTokenval, UMMU_ADD_TOKEN, UMMU_REMOVE_TOKEN
  <2>7. WithTokens(seg, t, seg.tok0, d.tokenval, UMMU_MAX_TOKEN_NUM)
    BY <2>5, <2>6 DEF WithTokens, SegInfo
  <2> HIDE DEF t
  <2>8. new = (segs \ {seg}) \cup {t} /\ Meant(seg, d)
    BY <1>1, <2>1, <2>4 DEF Meant
  <2> QED BY <1>5, <2>5, <2>7, <2>8 DEF d, op, new
<1> QED BY <1>1, <1>2, <1>4, <1>5, GrantDecision DEF op

\* An ungrant takes away the segment it names, or one of its tokens.
LEMMA UngrantOutcome ==
    ASSUME IInv, NEW u \in UngrantReq, ummu_ungrant_data_check(u),
           ummu_ungrant_check(segs, u) # UMMU_OP_END
    PROVE  LET op == ummu_ungrant_check(segs, u)
               new == ummu_update_info(op, segs, u).table
           IN  \E seg \in segs :
                 /\ Meant(seg, u)
                 /\ \/ op = UMMU_UNGRANT /\ new = segs \ {seg}
                    \/ /\ op = UMMU_REMOVE_TOKEN
                       /\ seg.token_check = 1 /\ u.tokenval \in {seg.tok0, seg.tok1}
                       /\ \E t : LET kept == IF seg.tok0 = u.tokenval THEN seg.tok1 ELSE seg.tok0
                                 IN  /\ new = (segs \ {seg}) \cup {t}
                                     /\ WithTokens(seg, t, kept, kept, 1)
<1> DEFINE op == ummu_ungrant_check(segs, u)
           find == ummu_find_seg(u.base, u.size - 1, segs)
           new == ummu_update_info(op, segs, u).table
<1>1. /\ u.base \in Nat /\ u.size \in Nat /\ u.size - 1 \in Nat /\ u.tokenval \in Token
      /\ u.base + (u.size - 1) = u.base + u.size - 1
  BY CheckedUngrant
<1>2. Ordered(segs) /\ op # UMMU_OP_END
  BY IInvOrdered
<1> HIDE DEF op, new
<1>4. CASE op = UMMU_UNGRANT /\ find.comp = RANGE_MATCH
  <2>1. new = ummu_delete_addr(segs, u).table
    BY <1>4, UpdateInfoCases DEF new
  <2>2. PICK seg \in segs : /\ seg.left = u.base /\ seg.right = u.base + (u.size - 1)
                            /\ ummu_delete_addr(segs, u) = [ret |-> "ok", table |-> segs \ {seg}]
    BY <1>1, <1>2, <1>4, DeleteRemovesMatch
  <2>3. new = segs \ {seg} /\ Meant(seg, u)
    BY <1>1, <2>1, <2>2 DEF Meant
  <2> QED BY <1>4, <2>3 DEF op, new
<1>5. CASE /\ op = UMMU_REMOVE_TOKEN /\ find.comp = RANGE_MATCH
           /\ \A seg : find.data = {seg} =>
                 seg.token_check # 0 /\ u.tokenval \in {seg.tok0, seg.tok1}
  <2>1. new = ummu_token_update(segs, u, op).table
    BY <1>5, UpdateInfoCases DEF new
  <2>2. find.comp = RANGE_MATCH
    BY <1>5
  <2>3. PICK seg \in segs : TokenUpdated(segs, u, op, seg)
    BY <1>1, <1>2, <2>2, TokenUpdateOfMatch
  <2> DEFINE t == Updated(seg, u, op)
             kept == IF seg.tok0 = u.tokenval THEN seg.tok1 ELSE seg.tok0
  <2>4. /\ find.data = {seg} /\ seg.left = u.base /\ seg.right = u.base + (u.size - 1)
        /\ ummu_token_update(segs, u, op) = [ret |-> "ok", table |-> (segs \ {seg}) \cup {t}]
    BY <2>3 DEF TokenUpdated
  <2>5. seg \in SegInfo /\ seg.token_check = 1 /\ u.tokenval \in {seg.tok0, seg.tok1}
    BY <1>5, <2>4 DEF IInv, TypeOK, SegInfo
  <2>6. t = ummu_remove_tokenval(u.tokenval, seg)
    BY <1>5 DEF Updated
  <2>7. WithTokens(seg, t, kept, kept, 1)
    BY <2>5, <2>6 DEF WithTokens, SegInfo, ummu_remove_tokenval
  <2> HIDE DEF t
  <2>8. new = (segs \ {seg}) \cup {t} /\ Meant(seg, u)
    BY <1>1, <2>1, <2>4 DEF Meant
  <2> QED BY <1>5, <2>5, <2>7, <2>8 DEF op, new
<1> QED BY <1>1, <1>2, <1>4, <1>5, UngrantDecision DEF op
==============================================================================
