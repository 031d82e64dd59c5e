----------------------------- MODULE CoreProofs -----------------------------
(***************************************************************************)
(* Two parts of crates/core that stand alone: the slab every arena of the  *)
(* engine is built on, and the resolution of contracts.                    *)
(***************************************************************************)
EXTENDS Slab, Resolution, Induction

-----------------------------------------------------------------------------
(***************************************************************************)
(* A slab of any capacity and any generation limit implements Registry.    *)
(*                                                                         *)
(* The heart of it is that `insert` never meets a slot whose handle was    *)
(* issued before, which rests on the shape of the free list: it links only *)
(* fresh slots, and no two links meet.  That the list is a path through    *)
(* all of them is shown with the path itself, which insert shortens and    *)
(* remove extends at the front.                                            *)
(***************************************************************************)

Fresh(i) == ~Occupied(i) /\ HandleAt(i) \notin issued

LinksFresh ==
  /\ free_head # NIL => Fresh(free_head)
  /\ \A i \in Index : Fresh(i) /\ slots[i].next # NIL =>
       Fresh(slots[i].next) /\ slots[i].next # free_head

LinksNeverMeet ==
  \A i, j \in Index :
    Fresh(i) /\ Fresh(j) /\ slots[i].next # NIL /\ slots[i].next = slots[j].next => i = j

\* Exactly the generations below the slot's own have been issued, and its own unless fresh.
IssuedInOrder ==
  /\ \A h \in issued : h.generation <= slots[h.index].generation
  /\ \A h \in Handle : h.generation < slots[h.index].generation => h \in issued
  /\ \A i \in Index : Occupied(i) => HandleAt(i) \in issued
  /\ \A i \in Index : Retired(i) => slots[i].generation = MaxGeneration

LiveCounted == live = Cardinality({i \in Index : Occupied(i)})

SlabInv ==
  /\ SlabTypeOK
  /\ LinksFresh
  /\ LinksNeverMeet
  /\ IssuedInOrder
  /\ LiveCounted

-----------------------------------------------------------------------------
LEMMA IndexFinite == IsFiniteSet(Index)
BY FS_Interval, SlabConstants DEF Index

\* A handle is a pair of integers and nothing more.
LEMMA HandleIsItsParts ==
  ASSUME NEW h \in Handle
  PROVE  h = [index |-> h.index, generation |-> h.generation]
BY DEF Handle

\* Resolving a handle is holding the current handle of an occupied slot.
LEMMA GetResolves ==
  ASSUME SlabTypeOK, NEW h \in Handle, Get(h) # Vacant
  PROVE  /\ h.index \in Index
         /\ h.generation = slots[h.index].generation
         /\ Occupied(h.index)
         /\ h = HandleAt(h.index)
BY SlabConstants DEF SlabTypeOK, Get, Handle, HandleAt, Occupied

LEMMA SlabStarts == SlabInit => SlabInv
<1> SUFFICES ASSUME SlabInit PROVE SlabInv
  OBVIOUS
<1> USE SlabConstants DEF SlabInit, Index
<1>1. 0 \in Generation
  BY DEF Generation
<1>2. SlabTypeOK
  BY <1>1 DEF SlabTypeOK, Slot
<1>3. \A i \in Index : Fresh(i)
  BY DEF Fresh, Occupied
<1>4. LinksFresh
  <2>1. free_head # NIL => Fresh(free_head)
    BY <1>3
  <2>2. ASSUME NEW i \in Index, slots[i].next # NIL
        PROVE  slots[i].next \in Index /\ slots[i].next # free_head
    BY <2>2
  <2> QED
    BY <1>3, <2>1, <2>2 DEF LinksFresh
<1>5. LinksNeverMeet
  BY DEF LinksNeverMeet
<1>6. IssuedInOrder
  BY DEF IssuedInOrder, Handle, Generation, Occupied, Retired
<1>7. LiveCounted
  <2>1. {i \in Index : Occupied(i)} = {}
    BY DEF Occupied
  <2> QED
    BY <2>1, FS_EmptySet DEF LiveCounted
<1> QED
  BY <1>2, <1>4, <1>5, <1>6, <1>7 DEF SlabInv

-----------------------------------------------------------------------------
LEMMA InsertKeeps ==
  ASSUME SlabInv, NEW v \in Values, Insert(v)
  PROVE  SlabInv'
<1> USE SlabConstants
<1>0. PICK f : f = free_head
  OBVIOUS
<1>1. /\ f \in Index /\ Fresh(f) /\ HandleAt(f) \notin issued
      /\ v # Vacant
      /\ slots[f].generation \in Generation
  BY <1>0 DEF SlabInv, SlabTypeOK, Insert, LinksFresh, Fresh, Slot
<1>2. /\ slots' \in [Index -> Slot]
      /\ slots'[f] = [generation |-> slots[f].generation, content |-> v, next |-> NIL]
      /\ \A i \in Index \ {f} : slots'[i] = slots[i]
  BY <1>0, <1>1 DEF SlabInv, SlabTypeOK, Insert, Slot
<1>3. SlabTypeOK'
  <2>1. HandleAt(f) \in Handle
    BY <1>1 DEF HandleAt, Handle
  <2>2. free_head' \in Index \cup {NIL} /\ live' \in Nat /\ issued' \subseteq Handle
    BY <1>0, <1>1, <2>1 DEF SlabInv, SlabTypeOK, Insert, Slot
  <2> QED
    BY <1>2, <2>2 DEF SlabTypeOK
<1>4. /\ Occupied(f)'
      /\ \A i \in Index : HandleAt(i)' = HandleAt(i)
      /\ \A i \in Index \ {f} : Occupied(i)' <=> Occupied(i)
      /\ \A i \in Index \ {f} : HandleAt(i) # HandleAt(f)
  BY <1>1, <1>2 DEF Occupied, HandleAt
<1>5. /\ ~Fresh(f)'
      /\ \A i \in Index \ {f} : Fresh(i)' <=> Fresh(i)
  BY <1>0, <1>1, <1>4 DEF Fresh, Insert
<1>6. PICK g : g = free_head'
  OBVIOUS
<1>7. LinksFresh'
  <2>1. ASSUME NEW i \in Index, Fresh(i)', slots'[i].next # NIL
        PROVE  Fresh(slots[i].next)' /\ slots'[i].next # g
    <3>1. i # f /\ Fresh(i) /\ slots'[i] = slots[i]
      BY <2>1, <1>2, <1>5
    <3>2. PICK k \in Index \ {f} : k = slots[i].next /\ Fresh(k)
      BY <3>1, <2>1, <1>0, <1>1 DEF SlabInv, LinksFresh, SlabTypeOK, Slot
    <3>3. k # slots[f].next
      BY <3>1, <3>2, <2>1, <1>1 DEF SlabInv, LinksNeverMeet
    <3>4. Fresh(k)' /\ slots'[i].next = k
      BY <3>1, <3>2, <1>5
    <3> QED
      BY <3>3, <3>4, <1>0, <1>6 DEF Insert, Fresh, Occupied, HandleAt
  <2>2. g # NIL => Fresh(g)'
    <3> HAVE g # NIL
    <3>1. g = slots[f].next /\ g # f /\ Fresh(g)
      BY <1>0, <1>1, <1>6 DEF SlabInv, LinksFresh, Insert
    <3>2. g \in Index
      BY <3>1, <1>1 DEF SlabInv, SlabTypeOK, Slot
    <3> QED
      BY <3>1, <3>2, <1>5
  <2> QED
    BY <2>1, <2>2, <1>6 DEF LinksFresh, Fresh, Occupied, HandleAt
<1>8. LinksNeverMeet'
  <2> SUFFICES ASSUME NEW i \in Index, NEW j \in Index, Fresh(i)', Fresh(j)',
                      slots'[i].next # NIL, slots'[i].next = slots'[j].next
               PROVE  i = j
    BY DEF LinksNeverMeet
  <2>1. i # f /\ j # f /\ Fresh(i) /\ Fresh(j)
    BY <1>5
  <2>2. slots'[i] = slots[i] /\ slots'[j] = slots[j]
    BY <1>2, <2>1
  <2> QED
    BY <2>1, <2>2 DEF SlabInv, LinksNeverMeet
<1>9. IssuedInOrder'
  <2>1. \A i \in Index : slots'[i].generation = slots[i].generation
    BY <1>2
  <2>2. \A h \in issued' : h.generation <= slots'[h.index].generation
    <3>1. ASSUME NEW h \in issued PROVE h.generation <= slots'[h.index].generation
      BY <3>1, <2>1 DEF SlabInv, IssuedInOrder, SlabTypeOK, Handle
    <3>2. HandleAt(f).generation <= slots'[HandleAt(f).index].generation
      BY <1>1, <1>2 DEF HandleAt, Generation
    <3> QED
      BY <1>0, <3>1, <3>2 DEF Insert
  <2>3. \A h \in Handle : h.generation < slots'[h.index].generation => h \in issued'
    BY <2>1 DEF SlabInv, IssuedInOrder, Handle, Insert
  <2>4. \A i \in Index : Occupied(i)' => HandleAt(i)' \in issued'
    BY <1>0, <1>4 DEF SlabInv, IssuedInOrder, Insert
  <2>5. \A i \in Index : Retired(i)' => slots'[i].generation = MaxGeneration
    <3> SUFFICES ASSUME NEW i \in Index, Retired(i)' PROVE slots'[i].generation = MaxGeneration
      OBVIOUS
    <3>1. i # f /\ Retired(i)
      BY <1>0, <1>4 DEF Retired, Insert
    <3> QED
      BY <3>1, <2>1 DEF SlabInv, IssuedInOrder
  <2> QED
    BY <2>2, <2>3, <2>4, <2>5 DEF IssuedInOrder
<1>10. LiveCounted'
  <2> DEFINE O == {i \in Index : Occupied(i)}
  <2>1. IsFiniteSet(O)
    BY IndexFinite, FS_Subset
  <2>2. {i \in Index : Occupied(i)'} = O \cup {f} /\ f \notin O
    BY <1>1, <1>4 DEF Fresh
  <2>3. Cardinality(O \cup {f}) = Cardinality(O) + 1
    BY <2>1, <2>2, FS_AddElement
  <2>4. live' = Cardinality({i \in Index : Occupied(i)'})
    BY <2>2, <2>3 DEF SlabInv, LiveCounted, Insert
  <2> QED
    BY <2>4 DEF LiveCounted, Index
<1> QED
  BY <1>3, <1>7, <1>8, <1>9, <1>10 DEF SlabInv

-----------------------------------------------------------------------------
LEMMA RemoveKeeps ==
  ASSUME SlabInv, NEW h \in issued, SlabRemove(h)
  PROVE  SlabInv'
<1> USE SlabConstants
<1>1. h \in Handle
  BY DEF SlabInv, SlabTypeOK
<1>2. PICK f \in Index, g \in Generation :
        /\ f = h.index /\ g = h.generation
        /\ g = slots[f].generation /\ Occupied(f) /\ h = HandleAt(f)
  BY <1>1, GetResolves DEF SlabInv, SlabRemove, Handle
<1>3. /\ Bumped(g) \in Generation
      /\ Reusable(g) => Bumped(g) = g + 1
      /\ ~Reusable(g) => Bumped(g) = g /\ g = MaxGeneration
  BY DEF Bumped, Reusable, Generation
<1>4. PICK n : n = IF Reusable(g) THEN free_head ELSE NIL
  OBVIOUS
<1>5. /\ slots' \in [Index -> Slot]
      /\ slots'[f] = [generation |-> Bumped(g), content |-> Vacant, next |-> n]
      /\ \A i \in Index \ {f} : slots'[i] = slots[i]
  BY <1>2, <1>3, <1>4 DEF SlabInv, SlabTypeOK, SlabRemove, Slot, Freed
<1>6. PICK e : e = free_head'
  OBVIOUS
<1>7. /\ e = IF Reusable(g) THEN f ELSE free_head
      /\ issued' = issued
  BY <1>2, <1>6 DEF SlabRemove
<1>8. live \in Nat \ {0} /\ live' = live - 1
  <2> DEFINE O == {i \in Index : Occupied(i)}
  <2>1. IsFiniteSet(O) /\ f \in O
    BY <1>2, IndexFinite, FS_Subset
  <2>2. Cardinality(O) \in Nat /\ Cardinality(O) # 0
    BY <2>1, FS_CardinalityType, FS_EmptySet
  <2> QED
    BY <2>2 DEF SlabInv, LiveCounted, SlabRemove
<1>9. SlabTypeOK'
  BY <1>5, <1>6, <1>7, <1>8 DEF SlabInv, SlabTypeOK
<1>10. /\ ~Occupied(f)'
       /\ \A i \in Index \ {f} : HandleAt(i)' = HandleAt(i) /\ (Occupied(i)' <=> Occupied(i))
       /\ \A i \in Index \ {f} : Fresh(i)' <=> Fresh(i)
  BY <1>5, <1>7 DEF Occupied, HandleAt, Fresh
<1>11. ~Fresh(f) /\ (Fresh(f)' <=> Reusable(g))
  <2>1. ~Fresh(f)
    BY <1>2 DEF Fresh
  <2>2. HandleAt(f)' = [index |-> f, generation |-> Bumped(g)]
    BY <1>5 DEF HandleAt
  <2>3. ASSUME Reusable(g) PROVE HandleAt(f)' \notin issued
    BY <2>2, <2>3, <1>2, <1>3 DEF SlabInv, IssuedInOrder, Generation
  <2>4. ASSUME ~Reusable(g) PROVE HandleAt(f)' \in issued
    BY <2>2, <2>4, <1>2, <1>3 DEF HandleAt
  <2> QED
    BY <2>1, <2>3, <2>4, <1>7, <1>10 DEF Fresh
<1>12. LinksFresh'
  <2>1. e # NIL => Fresh(e)'
    <3>1. CASE Reusable(g)
      BY <3>1, <1>7, <1>11
    <3>2. CASE ~Reusable(g)
      <4> HAVE e # NIL
      <4>1. e \in Index \ {f} /\ Fresh(e)
        BY <3>2, <1>7, <1>11 DEF SlabInv, LinksFresh, SlabTypeOK
      <4> QED
        BY <4>1, <1>10
    <3> QED
      BY <3>1, <3>2
  <2>2. ASSUME NEW i \in Index, Fresh(i)', slots'[i].next # NIL
        PROVE  \E k \in Index : slots'[i].next = k /\ Fresh(k)' /\ k # e
    <3>1. CASE i = f
      <4>1. Reusable(g) /\ slots'[i].next = free_head /\ e = f
        BY <2>2, <3>1, <1>4, <1>5, <1>7, <1>11
      <4>2. PICK k \in Index : k = free_head /\ Fresh(k)
        BY <2>2, <4>1 DEF SlabInv, LinksFresh, SlabTypeOK
      <4> QED
        BY <4>1, <4>2, <1>10, <1>11
    <3>2. CASE i # f
      <4>1. Fresh(i) /\ slots'[i] = slots[i]
        BY <3>2, <1>5, <1>10, <2>2
      <4>2. PICK k \in Index : k = slots[i].next /\ Fresh(k) /\ k # free_head
        BY <4>1, <2>2 DEF SlabInv, LinksFresh, SlabTypeOK, Slot
      <4>3. k # f
        BY <4>2, <1>11
      <4> QED
        BY <4>1, <4>2, <4>3, <1>7, <1>10
    <3> QED
      BY <3>1, <3>2
  <2> QED
    BY <2>1, <2>2, <1>6 DEF LinksFresh, Fresh, Occupied, HandleAt
<1>13. LinksNeverMeet'
  <2> SUFFICES ASSUME NEW i \in Index, NEW j \in Index, Fresh(i)', Fresh(j)',
                      slots'[i].next # NIL, slots'[i].next = slots'[j].next
               PROVE  i = j
    BY DEF LinksNeverMeet
  <2>1. ASSUME NEW k \in Index, k # f, Fresh(k)', slots'[k].next # NIL
        PROVE  Fresh(k) /\ slots'[k].next = slots[k].next /\ slots'[k].next # free_head
    BY <2>1, <1>5, <1>10 DEF SlabInv, LinksFresh
  <2>2. Fresh(f)' => slots'[f].next = free_head
    BY <1>4, <1>5, <1>11
  <2>3. CASE i # f /\ j # f
    BY <2>1, <2>3 DEF SlabInv, LinksNeverMeet
  <2>4. CASE i = f \/ j = f
    BY <2>1, <2>2, <2>4
  <2> QED
    BY <2>3, <2>4
<1>14. IssuedInOrder'
  <2>1. /\ slots'[f].generation = Bumped(g)
        /\ \A i \in Index \ {f} : slots'[i].generation = slots[i].generation
    BY <1>5
  <2>2. \A k \in issued' : k.generation <= slots'[k.index].generation
    <3> SUFFICES ASSUME NEW k \in issued PROVE k.generation <= slots'[k.index].generation
      BY <1>7
    <3>1. k \in Handle /\ k.generation <= slots[k.index].generation
      BY DEF SlabInv, IssuedInOrder, SlabTypeOK
    <3>2. CASE k.index = f
      BY <3>1, <3>2, <2>1, <1>2, <1>3 DEF Handle, Generation
    <3>3. CASE k.index # f
      BY <3>1, <3>3, <2>1 DEF Handle
    <3> QED
      BY <3>2, <3>3
  <2>3. \A k \in Handle : k.generation < slots'[k.index].generation => k \in issued'
    <3> SUFFICES ASSUME NEW k \in Handle, k.generation < slots'[k.index].generation
                 PROVE  k \in issued
      BY <1>7
    <3>1. CASE k.index = f
      <4>1. k.generation < g \/ k.generation = g
        BY <3>1, <2>1, <1>3 DEF Handle, Generation
      <4>2. k.generation = g => k = h
        BY <3>1, <1>1, <1>2, HandleIsItsParts
      <4> QED
        BY <4>1, <4>2, <3>1, <1>2 DEF SlabInv, IssuedInOrder
    <3>2. CASE k.index # f
      BY <3>2, <2>1 DEF SlabInv, IssuedInOrder, Handle
    <3> QED
      BY <3>1, <3>2
  <2>4. \A i \in Index : Occupied(i)' => HandleAt(i)' \in issued'
    <3> SUFFICES ASSUME NEW i \in Index, Occupied(i)' PROVE HandleAt(i)' \in issued
      BY <1>7
    <3>1. i # f /\ Occupied(i) /\ HandleAt(i)' = HandleAt(i)
      BY <1>10
    <3> QED
      BY <3>1 DEF SlabInv, IssuedInOrder
  <2>5. \A i \in Index : Retired(i)' => slots'[i].generation = MaxGeneration
    <3> SUFFICES ASSUME NEW i \in Index, Retired(i)' PROVE slots'[i].generation = MaxGeneration
      OBVIOUS
    <3>1. CASE i = f
      BY <3>1, <2>1, <1>3, <1>7, <1>11 DEF Retired, Fresh
    <3>2. CASE i # f
      BY <3>2, <2>1, <1>7, <1>10 DEF Retired, SlabInv, IssuedInOrder
    <3> QED
      BY <3>1, <3>2
  <2> QED
    BY <2>2, <2>3, <2>4, <2>5 DEF IssuedInOrder
<1>15. LiveCounted'
  <2> DEFINE O == {i \in Index : Occupied(i)}
  <2>1. IsFiniteSet(O) /\ f \in O
    BY <1>2, IndexFinite, FS_Subset
  <2>2. {i \in Index : Occupied(i)'} = O \ {f}
    BY <1>10
  <2>3. Cardinality(O \ {f}) = Cardinality(O) - 1
    BY <2>1, FS_RemoveElement
  <2>4. live' = Cardinality({i \in Index : Occupied(i)'})
    BY <2>2, <2>3, <1>8 DEF SlabInv, LiveCounted
  <2> QED
    BY <2>4 DEF LiveCounted, Index
<1> QED
  BY <1>9, <1>12, <1>13, <1>14, <1>15 DEF SlabInv

-----------------------------------------------------------------------------
LEMMA GetMutKeeps ==
  ASSUME SlabInv, NEW h \in issued, NEW v \in Values, GetMut(h, v)
  PROVE  SlabInv'
<1> USE SlabConstants
<1>1. h \in Handle
  BY DEF SlabInv, SlabTypeOK
<1>2. PICK f \in Index : f = h.index /\ Occupied(f)
  BY <1>1, GetResolves DEF SlabInv, GetMut, Handle
<1>3. v # Vacant
  OBVIOUS
<1>4. /\ slots' \in [Index -> Slot]
      /\ slots'[f] = [generation |-> slots[f].generation, content |-> v, next |-> slots[f].next]
      /\ \A i \in Index \ {f} : slots'[i] = slots[i]
  BY <1>2 DEF SlabInv, SlabTypeOK, GetMut, Slot
<1>5. /\ free_head' = free_head /\ live' = live /\ issued' = issued
      /\ \A i \in Index : /\ slots'[i].next = slots[i].next
                           /\ slots'[i].generation = slots[i].generation
  BY <1>4 DEF GetMut
<1>6. \A i \in Index : /\ Occupied(i)' <=> Occupied(i)
                       /\ HandleAt(i)' = HandleAt(i)
                       /\ Fresh(i)' <=> Fresh(i)
                       /\ Retired(i)' <=> Retired(i)
  BY <1>2, <1>3, <1>4, <1>5 DEF Occupied, HandleAt, Fresh, Retired
<1>7. SlabTypeOK'
  BY <1>4, <1>5 DEF SlabInv, SlabTypeOK
<1>8. PICK e : e = free_head
  OBVIOUS
<1>9. LinksFresh'
  <2>1. e # NIL => Fresh(e)'
    BY <1>6, <1>8 DEF SlabInv, LinksFresh, SlabTypeOK
  <2>2. ASSUME NEW i \in Index, Fresh(i)', slots'[i].next # NIL
        PROVE  \E k \in Index : slots'[i].next = k /\ Fresh(k)' /\ k # e
    <3>1. PICK k \in Index : k = slots[i].next /\ Fresh(k) /\ k # e
      BY <2>2, <1>5, <1>6, <1>8 DEF SlabInv, LinksFresh, SlabTypeOK, Slot
    <3> QED
      BY <3>1, <1>5, <1>6
  <2> QED
    BY <2>1, <2>2, <1>5, <1>8 DEF LinksFresh, Fresh, Occupied, HandleAt
<1>10. LinksNeverMeet'
  BY <1>5, <1>6 DEF SlabInv, LinksNeverMeet
<1>11. IssuedInOrder'
  BY <1>5, <1>6 DEF SlabInv, IssuedInOrder, SlabTypeOK, Handle
<1>12. LiveCounted'
  <2>1. {i \in Index : Occupied(i)'} = {i \in Index : Occupied(i)}
    BY <1>6
  <2> QED
    BY <2>1, <1>5 DEF SlabInv, LiveCounted, Index
<1> QED
  BY <1>7, <1>9, <1>10, <1>11, <1>12 DEF SlabInv

LEMMA SlabInvHolds == SlabSpec => []SlabInv
<1>1. SlabInv /\ [SlabNext]_slabVars => SlabInv'
  <2> SUFFICES ASSUME SlabInv, [SlabNext]_slabVars PROVE SlabInv'
    OBVIOUS
  <2>1. CASE SlabNext
    BY <2>1, InsertKeeps, GetMutKeeps, RemoveKeeps DEF SlabNext
  <2>2. CASE UNCHANGED slabVars
    BY <2>2 DEF slabVars, SlabInv, SlabTypeOK, LinksFresh, LinksNeverMeet, IssuedInOrder,
               LiveCounted, Fresh, Retired, Occupied, HandleAt
  <2> QED
    BY <2>1, <2>2
<1> QED
  BY <1>1, SlabStarts, PTL DEF SlabSpec

-----------------------------------------------------------------------------
\* Every slot, link, count and handle stays in its type, whatever is inserted and removed.
THEOREM SlabTypeCorrect == SlabSpec => []SlabTypeOK
BY SlabInvHolds, PTL DEF SlabInv

\* The count is the number of occupied slots, and a retired slot has spent its generations.
THEOREM CapacityIsAccounted == SlabSpec => []CapacityAccounted
<1>1. SlabInv => CapacityAccounted
  <2> SUFFICES ASSUME SlabInv PROVE CapacityAccounted
    OBVIOUS
  <2> USE SlabConstants
  <2>1. ASSUME NEW i \in Index, Retired(i)
        PROVE  {h \in issued : h.index = i} = [index : {i}, generation : Generation]
    <3> DEFINE A == {h \in issued : h.index = i}
               B == [index : {i}, generation : Generation]
    <3>1. slots[i].generation = MaxGeneration /\ HandleAt(i) \in issued
      BY <2>1 DEF SlabInv, IssuedInOrder, Retired
    <3>2. ASSUME NEW h \in A PROVE h \in B
      <4>1. h \in Handle
        BY DEF SlabInv, SlabTypeOK
      <4> QED
        BY <4>1 DEF Handle
    <3>3. ASSUME NEW h \in B PROVE h \in A
      <4>1. h \in Handle /\ h.index = i
        BY DEF Handle
      <4>2. CASE h.generation = MaxGeneration
        BY <3>1, <4>1, <4>2, HandleIsItsParts DEF HandleAt
      <4>3. CASE h.generation # MaxGeneration
        BY <3>1, <4>1, <4>3 DEF SlabInv, IssuedInOrder, Handle, Generation
      <4> QED
        BY <4>1, <4>2, <4>3
    <3> QED
      BY <3>2, <3>3
  <2> QED
    BY <2>1 DEF CapacityAccounted, SlabInv, LiveCounted
<1> QED
  BY <1>1, SlabInvHolds, PTL

-----------------------------------------------------------------------------
\* Storing under the free head issues a handle that names nothing yet.
LEMMA InsertIssues ==
  ASSUME SlabInv, NEW v \in Values, Insert(v)
  PROVE  \E h \in Handle : RegistryView!Issue(h, v)
<1> USE SlabConstants
<1>1. PICK f \in Index : f = free_head /\ Fresh(f)
  BY DEF SlabInv, SlabTypeOK, LinksFresh, Insert
<1>2. PICK h \in Handle : h = HandleAt(f) /\ h.index = f /\ h.generation = slots[f].generation
  <2>1. HandleAt(f) \in Handle
    BY DEF SlabInv, SlabTypeOK, Slot, HandleAt, Handle
  <2> QED
    BY <2>1 DEF HandleAt
<1>3. h \notin issued /\ issued' = issued \cup {h}
  BY <1>1, <1>2 DEF Fresh, Insert
<1>4. /\ slots'[f].content = v /\ slots'[f].generation = slots[f].generation
      /\ \A i \in Index \ {f} : slots'[i] = slots[i]
      /\ slots[f].content = Vacant
  BY <1>1 DEF SlabInv, SlabTypeOK, Insert, Slot, Fresh, Occupied
<1>5. ASSUME NEW k \in Handle PROVE Get(k)' = IF k = h THEN v ELSE Get(k)
  <2>1. k = h <=> k.index = f /\ k.generation = slots[f].generation
    BY <1>2, HandleIsItsParts
  <2>2. k.index \in Index
    BY DEF Handle
  <2> QED
    BY <1>4, <2>1, <2>2 DEF Get
<1> QED
  BY <1>2, <1>3, <1>5 DEF RegistryView!Issue

LEMMA GetMutOverwrites ==
  ASSUME SlabInv, NEW h \in issued, NEW v \in Values, GetMut(h, v)
  PROVE  h \in Handle /\ RegistryView!Overwrite(h, v)
<1>1. h \in Handle /\ Get(h) # Vacant
  BY DEF SlabInv, SlabTypeOK, GetMut
<1>2. PICK f \in Index : f = h.index /\ h.generation = slots[f].generation
  BY <1>1, GetResolves DEF SlabInv
<1>3. /\ slots'[f].content = v /\ slots'[f].generation = slots[f].generation
      /\ \A i \in Index \ {f} : slots'[i] = slots[i]
  BY <1>2 DEF SlabInv, SlabTypeOK, GetMut, Slot
<1>4. ASSUME NEW k \in Handle PROVE Get(k)' = IF k = h THEN v ELSE Get(k)
  <2>1. k = h <=> k.index = f /\ k.generation = slots[f].generation
    BY <1>1, <1>2, HandleIsItsParts
  <2>2. k.index \in Index
    BY DEF Handle
  <2>3. CASE k = h
    BY <1>3, <2>1, <2>3 DEF Get
  <2>4. CASE k # h /\ k.index = f
    BY <1>3, <2>1, <2>4 DEF Get
  <2>5. CASE k # h /\ k.index # f
    BY <1>3, <2>2, <2>5 DEF Get
  <2> QED
    BY <2>3, <2>4, <2>5
<1> QED
  BY <1>1, <1>4 DEF RegistryView!Overwrite, GetMut

LEMMA RemoveWithdraws ==
  ASSUME SlabInv, NEW h \in issued, SlabRemove(h)
  PROVE  h \in Handle /\ RegistryView!Withdraw(h)
<1> USE SlabConstants
<1>1. h \in Handle /\ Get(h) # Vacant
  BY DEF SlabInv, SlabTypeOK, SlabRemove
<1>2. PICK f \in Index : f = h.index /\ h.generation = slots[f].generation
  BY <1>1, GetResolves DEF SlabInv
<1>3. /\ slots'[f].content = Vacant
      /\ \A i \in Index \ {f} : slots'[i] = slots[i]
  BY <1>2 DEF SlabInv, SlabTypeOK, SlabRemove, Freed, Slot
<1>4. ASSUME NEW k \in Handle PROVE Get(k)' = IF k = h THEN Vacant ELSE Get(k)
  <2>1. k = h <=> k.index = f /\ k.generation = slots[f].generation
    BY <1>1, <1>2, HandleIsItsParts
  <2>2. k.index \in Index
    BY DEF Handle
  <2>3. CASE k.index = f
    BY <1>3, <2>1, <2>3 DEF Get
  <2>4. CASE k.index # f
    BY <1>2, <1>3, <2>2, <2>4 DEF Get
  <2> QED
    BY <2>3, <2>4
<1> QED
  BY <1>1, <1>4 DEF RegistryView!Withdraw, SlabRemove

\* A slab is a registry: no handle is issued twice, and none names a later occupant.
THEOREM SlabImplementsRegistry == SlabSpec => ImplementsRegistry
<1>1. SlabInit => RegistryView!RegistryInit
  <2> SUFFICES ASSUME SlabInit, NEW h \in Handle PROVE Get(h) = Vacant
    BY DEF SlabInit, RegistryView!RegistryInit
  <2> QED
    BY DEF SlabInit, Get, Handle
<1>2. SlabInv /\ [SlabNext]_slabVars => [RegistryView!RegistryNext]_(RegistryView!registryVars)
  <2> SUFFICES ASSUME SlabInv, [SlabNext]_slabVars
               PROVE  RegistryView!RegistryNext \/ UNCHANGED RegistryView!registryVars
    OBVIOUS
  <2>1. CASE SlabNext
    BY <2>1, InsertIssues, GetMutOverwrites, RemoveWithdraws DEF SlabNext, RegistryView!RegistryNext
  <2>2. CASE UNCHANGED slabVars
    BY <2>2 DEF slabVars, RegistryView!registryVars, Get
  <2> QED
    BY <2>1, <2>2
<1> QED
  BY <1>1, <1>2, SlabInvHolds, PTL DEF SlabSpec, ImplementsRegistry, RegistryView!RegistrySpec

-----------------------------------------------------------------------------
(* The free list is a path *)

\* The first k places of p spell the list out: it starts at free_head, each slot links to
\* the next, the last to nothing, none is passed twice, and they are the fresh slots.
SpelledBy(p, k) ==
  /\ k \in Nat /\ p \in [1 .. k -> Index]
  /\ \A m, n \in 1 .. k : p[m] = p[n] => m = n
  /\ free_head = IF k = 0 THEN NIL ELSE p[1]
  /\ \A n \in 1 .. k : slots[p[n]].next = IF n = k THEN NIL ELSE p[n + 1]
  /\ \A n \in 1 .. k : Fresh(p[n])
  /\ \A i \in Index : Fresh(i) => \E n \in 1 .. k : p[n] = i

FreeListIsPath == \E k \in Nat : \E p \in [1 .. k -> Index] : SpelledBy(p, k)

LEMMA InitIsPath == SlabInit => FreeListIsPath
<1> SUFFICES ASSUME SlabInit PROVE FreeListIsPath
  OBVIOUS
<1> DEFINE p == [n \in 1 .. Capacity |-> n - 1]
<1>1. Capacity \in Nat /\ p \in [1 .. Capacity -> Index]
  BY SlabConstants DEF Index
<1>2. free_head = IF Capacity = 0 THEN NIL ELSE p[1]
  BY SlabConstants DEF SlabInit
<1>3. \A n \in 1 .. Capacity : slots[p[n]].next = IF n = Capacity THEN NIL ELSE p[n + 1]
  <2> TAKE n \in 1 .. Capacity
  <2>1. p[n] = n - 1 /\ n - 1 \in Index /\ (n # Capacity => p[n + 1] = n)
    BY SlabConstants DEF Index
  <2>2. slots[n - 1].next = IF n < Capacity THEN n ELSE NIL
    BY <2>1, SlabConstants DEF SlabInit
  <2> QED BY <2>1, <2>2, SlabConstants
<1>4. \A i \in Index : Fresh(i)
  BY DEF SlabInit, Fresh, Occupied
<1>5. \A i \in Index : i + 1 \in 1 .. Capacity /\ p[i + 1] = i
  BY SlabConstants DEF Index
<1>6. SpelledBy(p, Capacity)
  BY <1>1, <1>2, <1>3, <1>4, <1>5 DEF SpelledBy
<1> QED BY <1>1, <1>6 DEF FreeListIsPath

\* Insert takes the first slot off the path.
LEMMA InsertTakesFirst ==
  ASSUME SlabInv, FreeListIsPath, NEW v \in Values, Insert(v)
  PROVE  FreeListIsPath'
<1>0. PICK k \in Nat : \E p \in [1 .. k -> Index] : SpelledBy(p, k)
  BY DEF FreeListIsPath
<1>1. PICK p \in [1 .. k -> Index] : SpelledBy(p, k)
  BY <1>0
<1>2. k # 0 /\ free_head = p[1] /\ p[1] \in Index /\ k - 1 \in Nat
  BY <1>1 DEF Insert, SpelledBy
<1> DEFINE f == p[1]
           q == [n \in 1 .. k - 1 |-> p[n + 1]]
<1>3. /\ v # Vacant
      /\ \A i \in Index : slots'[i].generation = slots[i].generation
      /\ \A i \in Index \ {f} : slots'[i] = slots[i]
      /\ slots'[f].content = v
      /\ free_head' = slots[f].next
      /\ issued' = issued \cup {HandleAt(f)}
  <2>1. slots' = [slots EXCEPT ![f].content = v, ![f].next = NIL] /\ free_head' = slots[f].next
        /\ issued' = issued \cup {HandleAt(f)}
    BY <1>2 DEF Insert
  <2> QED BY <1>2, <2>1, SlabConstants DEF SlabInv, SlabTypeOK, Slot
<1>4. ~Fresh(f)' /\ \A i \in Index \ {f} : Fresh(i)' <=> Fresh(i)
  <2>1. Occupied(f)'
    BY <1>3 DEF Occupied
  <2>2. \A i \in Index \ {f} : HandleAt(i)' = HandleAt(i) /\ (Occupied(i)' <=> Occupied(i))
                                /\ HandleAt(i) # HandleAt(f)
    BY <1>2, <1>3 DEF Occupied, HandleAt
  <2> QED BY <1>3, <2>1, <2>2 DEF Fresh
<1>5. q \in [1 .. k - 1 -> Index] /\ \A n \in 1 .. k - 1 : q[n] = p[n + 1] /\ q[n] # f
  BY <1>1, <1>2 DEF SpelledBy
<1> HIDE DEF f, q
<1>6. \A m, n \in 1 .. k - 1 : q[m] = q[n] => m = n
  <2> SUFFICES ASSUME NEW m \in 1 .. k - 1, NEW n \in 1 .. k - 1, q[m] = q[n] PROVE m = n
    OBVIOUS
  <2>1. m + 1 \in 1 .. k /\ n + 1 \in 1 .. k /\ p[m + 1] = p[n + 1]
    BY <1>2, <1>5
  <2>2. m + 1 = n + 1
    BY <1>1, <2>1 DEF SpelledBy
  <2> QED BY <2>2
<1>7. free_head' = IF k - 1 = 0 THEN NIL ELSE q[1]
  <2>1. slots[p[1]].next = IF 1 = k THEN NIL ELSE p[2]
    BY <1>1, <1>2 DEF SpelledBy
  <2> QED BY <1>2, <1>3, <1>5, <2>1 DEF f
<1>8. \A n \in 1 .. k - 1 : slots'[q[n]].next = IF n = k - 1 THEN NIL ELSE q[n + 1]
  <2> TAKE n \in 1 .. k - 1
  <2>1. n + 1 \in 1 .. k /\ q[n] = p[n + 1] /\ slots'[q[n]] = slots[q[n]]
    BY <1>2, <1>3, <1>5
  <2>2. slots[p[n + 1]].next = IF n + 1 = k THEN NIL ELSE p[(n + 1) + 1]
    BY <1>1, <2>1 DEF SpelledBy
  <2>3. n # k - 1 => n + 1 \in 1 .. k - 1 /\ q[n + 1] = p[(n + 1) + 1]
    BY <1>2, <1>5
  <2> QED BY <1>2, <2>1, <2>2, <2>3
<1>9. \A n \in 1 .. k - 1 : Fresh(q[n])'
  <2> TAKE n \in 1 .. k - 1
  <2>1. n + 1 \in 1 .. k /\ q[n] = p[n + 1] /\ q[n] \in Index \ {f}
    BY <1>2, <1>5
  <2> QED BY <1>1, <1>4, <2>1 DEF SpelledBy
<1>10. ASSUME NEW i \in Index, Fresh(i)' PROVE \E n \in 1 .. k - 1 : q[n] = i
  <2>1. i # f /\ Fresh(i)
    BY <1>4, <1>10
  <2>2. PICK n \in 1 .. k : p[n] = i
    BY <1>1, <2>1 DEF SpelledBy
  <2>3. n - 1 \in 1 .. k - 1 /\ (n - 1) + 1 = n
    BY <1>2, <2>1, <2>2 DEF f
  <2> QED BY <1>5, <2>2, <2>3
<1>11. SpelledBy(q, k - 1)'
  BY <1>2, <1>5, <1>6, <1>7, <1>8, <1>9, <1>10 DEF SpelledBy
<1> QED BY <1>2, <1>5, <1>11 DEF FreeListIsPath

\* A slot that is freed and can be used again goes to the front; one that is retired is
\* left out.
LEMMA RemovePrepends ==
  ASSUME SlabInv, FreeListIsPath, NEW h \in issued, SlabRemove(h)
  PROVE  FreeListIsPath'
<1> USE SlabConstants
<1>0. PICK k \in Nat : \E p \in [1 .. k -> Index] : SpelledBy(p, k)
  BY DEF FreeListIsPath
<1>1. PICK p \in [1 .. k -> Index] : SpelledBy(p, k)
  BY <1>0
<1>2. PICK f \in Index, g \in Generation :
        /\ f = h.index /\ g = h.generation
        /\ g = slots[f].generation /\ Occupied(f) /\ h = HandleAt(f)
  <2>1. h \in Handle
    BY DEF SlabInv, SlabTypeOK
  <2> QED BY <2>1, GetResolves DEF SlabInv, SlabRemove, Handle
<1>3. /\ Bumped(g) \in Generation
      /\ Reusable(g) => Bumped(g) = g + 1
      /\ ~Reusable(g) => Bumped(g) = g
  BY DEF Bumped, Reusable, Generation
<1>4. /\ slots'[f] = [generation |-> Bumped(g), content |-> Vacant,
                      next |-> IF Reusable(g) THEN free_head ELSE NIL]
      /\ \A i \in Index \ {f} : slots'[i] = slots[i]
      /\ free_head' = IF Reusable(g) THEN f ELSE free_head
      /\ issued' = issued
  BY <1>2 DEF SlabInv, SlabTypeOK, SlabRemove, Freed
<1>5. \A i \in Index \ {f} : Fresh(i)' <=> Fresh(i)
  BY <1>4 DEF Occupied, HandleAt, Fresh
<1>6. ~Fresh(f) /\ (Fresh(f)' <=> Reusable(g))
  <2>1. ~Fresh(f) /\ ~Occupied(f)'
    BY <1>2, <1>4 DEF Fresh, Occupied
  <2>2. HandleAt(f)' = [index |-> f, generation |-> Bumped(g)]
    BY <1>4 DEF HandleAt
  <2>3. ASSUME Reusable(g) PROVE HandleAt(f)' \notin issued
    BY <2>2, <2>3, <1>2, <1>3 DEF SlabInv, IssuedInOrder, Generation
  <2>4. ASSUME ~Reusable(g) PROVE HandleAt(f)' \in issued
    BY <2>2, <2>4, <1>2, <1>3 DEF HandleAt
  <2> QED BY <2>1, <2>3, <2>4, <1>4 DEF Fresh
<1>7. \A n \in 1 .. k : p[n] \in Index \ {f}
  BY <1>1, <1>6 DEF SpelledBy
<1>8. CASE ~Reusable(g)
  <2>1. \A n \in 1 .. k : slots'[p[n]] = slots[p[n]] /\ Fresh(p[n])'
    BY <1>1, <1>4, <1>5, <1>7 DEF SpelledBy
  <2>2. \A i \in Index : Fresh(i)' => Fresh(i)
    BY <1>5, <1>6, <1>8
  <2>3. free_head' = free_head
    BY <1>4, <1>8
  <2>4. SpelledBy(p, k)'
    BY <1>1, <2>1, <2>2, <2>3 DEF SpelledBy
  <2> QED BY <2>4 DEF FreeListIsPath
<1>9. CASE Reusable(g)
  <2> DEFINE q == [n \in 1 .. k + 1 |-> IF n = 1 THEN f ELSE p[n - 1]]
  <2>1. /\ q \in [1 .. k + 1 -> Index] /\ q[1] = f /\ k + 1 \in Nat /\ k + 1 # 0
        /\ \A n \in 1 .. k + 1 : n # 1 => n - 1 \in 1 .. k /\ q[n] = p[n - 1]
    OBVIOUS
  <2>2. \A n \in 1 .. k : q[n + 1] = p[n]
    OBVIOUS
  <2> HIDE DEF q
  <2>3. \A m, n \in 1 .. k + 1 : q[m] = q[n] => m = n
    <3> SUFFICES ASSUME NEW m \in 1 .. k + 1, NEW n \in 1 .. k + 1, q[m] = q[n] PROVE m = n
      OBVIOUS
    <3>1. CASE m = 1 \/ n = 1
      BY <1>7, <2>1, <3>1
    <3>2. CASE m # 1 /\ n # 1
      <4>1. m - 1 = n - 1
        BY <1>1, <2>1, <3>2 DEF SpelledBy
      <4> QED BY <4>1
    <3> QED BY <3>1, <3>2
  <2>4. free_head' = IF k + 1 = 0 THEN NIL ELSE q[1]
    BY <1>4, <1>9, <2>1
  <2>5. \A n \in 1 .. k + 1 : slots'[q[n]].next = IF n = k + 1 THEN NIL ELSE q[n + 1]
    <3> TAKE n \in 1 .. k + 1
    <3>1. CASE n = 1
      <4>1. slots'[f].next = free_head
        BY <1>4, <1>9
      <4>2. free_head = IF k = 0 THEN NIL ELSE p[1]
        BY <1>1 DEF SpelledBy
      <4>3. k # 0 => q[2] = p[1]
        BY <2>2
      <4> QED BY <2>1, <3>1, <4>1, <4>2, <4>3
    <3>2. CASE n # 1
      <4> DEFINE m == n - 1
      <4>1. m \in 1 .. k /\ q[n] = p[m] /\ n = m + 1 /\ slots'[p[m]] = slots[p[m]]
        BY <1>4, <1>7, <2>1, <3>2
      <4>2. slots[p[m]].next = IF m = k THEN NIL ELSE p[m + 1]
        BY <1>1, <4>1 DEF SpelledBy
      <4>3. m # k => m + 1 \in 1 .. k /\ q[(m + 1) + 1] = p[m + 1]
        BY <2>2, <4>1
      <4> HIDE DEF m
      <4> QED BY <4>1, <4>2, <4>3
    <3> QED BY <3>1, <3>2
  <2>6. \A n \in 1 .. k + 1 : Fresh(q[n])'
    <3> TAKE n \in 1 .. k + 1
    <3>1. CASE n = 1
      BY <1>6, <1>9, <2>1, <3>1
    <3>2. CASE n # 1
      BY <1>1, <1>5, <1>7, <2>1, <3>2 DEF SpelledBy
    <3> QED BY <3>1, <3>2
  <2>7. ASSUME NEW i \in Index, Fresh(i)' PROVE \E n \in 1 .. k + 1 : q[n] = i
    <3>1. CASE i = f
      BY <2>1, <3>1
    <3>2. CASE i # f
      <4>1. PICK n \in 1 .. k : p[n] = i
        BY <1>1, <1>5, <2>7, <3>2 DEF SpelledBy
      <4>2. n + 1 \in 1 .. k + 1 /\ q[n + 1] = i
        BY <2>2, <4>1
      <4> QED BY <4>2
    <3> QED BY <3>1, <3>2
  <2>8. SpelledBy(q, k + 1)'
    BY <2>1, <2>3, <2>4, <2>5, <2>6, <2>7 DEF SpelledBy
  <2> QED BY <2>1, <2>8 DEF FreeListIsPath
<1> QED BY <1>8, <1>9

LEMMA GetMutKeepsPath ==
  ASSUME SlabInv, FreeListIsPath, NEW h \in issued, NEW v \in Values, GetMut(h, v)
  PROVE  FreeListIsPath'
<1>0. PICK k \in Nat : \E p \in [1 .. k -> Index] : SpelledBy(p, k)
  BY DEF FreeListIsPath
<1>1. PICK p \in [1 .. k -> Index] : SpelledBy(p, k)
  BY <1>0
<1>2. h.index \in Index /\ Occupied(h.index) /\ v # Vacant
  <2>1. h \in Handle
    BY DEF SlabInv, SlabTypeOK
  <2> QED BY <2>1, GetResolves, SlabConstants DEF SlabInv, GetMut
<1>3. /\ free_head' = free_head /\ issued' = issued
      /\ \A i \in Index : /\ slots'[i].next = slots[i].next
                          /\ slots'[i].generation = slots[i].generation
                          /\ Occupied(i)' <=> Occupied(i)
  BY <1>2 DEF SlabInv, SlabTypeOK, GetMut, Slot, Occupied
<1>4. \A i \in Index : HandleAt(i)' = HandleAt(i)
  BY <1>3 DEF HandleAt
<1>5. \A i \in Index : Fresh(i)' <=> Fresh(i)
  BY <1>3, <1>4 DEF Fresh
<1>6. \A n \in 1 .. k : slots'[p[n]].next = slots[p[n]].next /\ (Fresh(p[n])' <=> Fresh(p[n]))
  BY <1>3, <1>5
<1>7. SpelledBy(p, k)'
  BY <1>1, <1>3, <1>5, <1>6 DEF SpelledBy
<1> QED BY <1>7 DEF FreeListIsPath

\* No path in the table is longer than the table.
LEMMA PathFits ==
  ASSUME SlabInv, NEW k \in Nat, NEW p \in [1 .. k -> Index], SpelledBy(p, k)
  PROVE  k <= Capacity
<1> SUFFICES ASSUME Capacity < k PROVE FALSE
  BY SlabConstants
<1>1. IsFiniteSet(1 .. k) /\ Cardinality(1 .. k) = k
  BY FS_Interval
<1>2. IsFiniteSet(Index) /\ Cardinality(Index) = Capacity
  <2>1. IsFiniteSet(0 .. (Capacity - 1))
        /\ Cardinality(0 .. (Capacity - 1))
             = IF 0 > Capacity - 1 THEN 0 ELSE (Capacity - 1) - 0 + 1
    BY SlabConstants, FS_Interval
  <2> QED BY <2>1, SlabConstants DEF Index
<1>3. \E m, n \in 1 .. k : m # n /\ p[m] = p[n]
  BY <1>1, <1>2, FS_PigeonHole
<1> QED BY <1>3 DEF SpelledBy

\* Walking the links from free_head follows the path and then stands still.
LEMMA WalkFollowsPath ==
  ASSUME SlabInv, NEW k \in Nat, NEW p \in [1 .. k -> Index], SpelledBy(p, k)
  PROVE  \A n \in 0 .. Capacity : FreeWalk[n] = IF n < k THEN p[n + 1] ELSE NIL
<1> DEFINE X == Index \cup {NIL}
           G == [a \in (1 .. Capacity) \X X |-> IF a[2] = NIL THEN NIL ELSE slots[a[2]].next]
           Solves(w) == w = [n \in 0 .. Capacity |->
                               IF n = 0 THEN free_head
                               ELSE IF w[n - 1] = NIL THEN NIL ELSE slots[w[n - 1]].next]
<1>1. Capacity \in Nat /\ free_head \in X
  BY SlabConstants DEF SlabInv, SlabTypeOK
<1>2. \A x \in Index : slots[x].next \in X
  BY DEF SlabInv, SlabTypeOK, Slot
<1>3. G \in [(1 .. Capacity) \X X -> X]
  BY <1>2
<1>4. \A n \in 1 .. Capacity : \A x \in X :
        G[<<n, x>>] = IF x = NIL THEN NIL ELSE slots[x].next
  OBVIOUS
<1>5. FreeWalk = CHOOSE w : Solves(w)
  BY DEF FreeWalk
<1> HIDE DEF X, G
<1>6. \E w : Solves(w)
  <2>1. PICK w \in [0 .. Capacity -> X] : Iterates(w, Capacity, free_head, G)
    BY <1>1, <1>3, IterationExists
  <2>2. \A n \in 0 .. Capacity :
          w[n] = IF n = 0 THEN free_head
                 ELSE IF w[n - 1] = NIL THEN NIL ELSE slots[w[n - 1]].next
    <3> TAKE n \in 0 .. Capacity
    <3>1. CASE n = 0
      BY <2>1, <3>1 DEF Iterates
    <3>2. CASE n # 0
      <4>1. n \in 1 .. Capacity /\ w[n - 1] \in X
        BY <1>1, <3>2
      <4> QED BY <1>4, <2>1, <3>2, <4>1 DEF Iterates
    <3> QED BY <3>1, <3>2
  <2> QED BY <2>2
<1>7. PICK w : w = FreeWalk /\ Solves(w)
  <2> HIDE DEF Solves
  <2> QED BY <1>5, <1>6
<1>8. /\ w[0] = free_head
      /\ \A n \in 1 .. Capacity : w[n] = IF w[n - 1] = NIL THEN NIL ELSE slots[w[n - 1]].next
  <2>1. w = [n \in 0 .. Capacity |-> IF n = 0 THEN free_head
                                      ELSE IF w[n - 1] = NIL THEN NIL ELSE slots[w[n - 1]].next]
    BY <1>7
  <2>2. 0 \in 0 .. Capacity /\ \A n \in 1 .. Capacity : n \in 0 .. Capacity /\ n # 0
    BY <1>1
  <2>3. \A n \in 0 .. Capacity :
          w[n] = IF n = 0 THEN free_head
                 ELSE IF w[n - 1] = NIL THEN NIL ELSE slots[w[n - 1]].next
    BY <2>1
  <2> QED BY <2>2, <2>3
<1> HIDE DEF Solves
<1> DEFINE P == {n \in Nat : n <= Capacity => w[n] = IF n < k THEN p[n + 1] ELSE NIL}
<1>9. 0 \in P
  BY <1>8 DEF SpelledBy
<1>10. ASSUME NEW n \in Nat, n \in P PROVE n + 1 \in P
  <2> SUFFICES ASSUME n + 1 <= Capacity
               PROVE  w[n + 1] = IF n + 1 < k THEN p[(n + 1) + 1] ELSE NIL
    OBVIOUS
  <2>1. n + 1 \in 1 .. Capacity /\ (n + 1) - 1 = n /\ n <= Capacity
    BY <1>1
  <2>2. w[n + 1] = IF w[n] = NIL THEN NIL ELSE slots[w[n]].next
    BY <1>8, <2>1
  <2>3. w[n] = IF n < k THEN p[n + 1] ELSE NIL
    BY <1>10, <2>1
  <2>4. CASE n < k
    <3>1. n + 1 \in 1 .. k /\ p[n + 1] \in Index
      BY <2>4
    <3>2. slots[p[n + 1]].next = IF n + 1 = k THEN NIL ELSE p[(n + 1) + 1]
      BY <3>1 DEF SpelledBy
    <3>3. p[n + 1] # NIL
      BY <3>1, SlabConstants
    <3> QED BY <2>2, <2>3, <2>4, <3>1, <3>2, <3>3
  <2>5. CASE ~(n < k)
    BY <2>2, <2>3, <2>5
  <2> QED BY <2>4, <2>5
<1>11. \A n \in Nat : n \in P
  <2> HIDE DEF P
  <2> QED BY <1>9, <1>10, NaturalInduction
<1> QED BY <1>1, <1>7, <1>11

\* Whatever was inserted and removed, the free list ends, passes no slot twice and holds
\* exactly the slots whose next handle was never issued.
THEOREM FreeListIsSound == SlabSpec => []FreeListSound
<1>1. SlabInv /\ FreeListIsPath => FreeListSound
  <2> SUFFICES ASSUME SlabInv, FreeListIsPath PROVE FreeListSound
    OBVIOUS
  <2>0. PICK k \in Nat : \E p \in [1 .. k -> Index] : SpelledBy(p, k)
    BY DEF FreeListIsPath
  <2>1. PICK p \in [1 .. k -> Index] : SpelledBy(p, k)
    BY <2>0
  <2>2. k <= Capacity /\ Capacity \in Nat
    BY <2>1, PathFits, SlabConstants
  <2>3. \A n \in 0 .. Capacity : FreeWalk[n] = IF n < k THEN p[n + 1] ELSE NIL
    BY <2>1, WalkFollowsPath
  <2>4. FreeWalk[Capacity] = NIL
    BY <2>2, <2>3
  <2>5. \A i \in Index : Fresh(i) <=> ~Occupied(i) /\ ~Retired(i)
    BY DEF Fresh, Retired
  <2>6. ASSUME NEW n \in 0 .. Capacity, FreeWalk[n] # NIL
        PROVE  FreeWalk[n] \in Index /\ Fresh(FreeWalk[n])
    <3>1. n < k /\ FreeWalk[n] = p[n + 1] /\ n + 1 \in 1 .. k
      BY <2>3, <2>6
    <3> QED BY <2>1, <3>1 DEF SpelledBy
  <2>7. ASSUME NEW i \in Index, Fresh(i) PROVE \E n \in 0 .. Capacity : FreeWalk[n] = i
    <3>1. PICK n \in 1 .. k : p[n] = i
      BY <2>1, <2>7 DEF SpelledBy
    <3>2. n - 1 \in 0 .. Capacity /\ n - 1 < k /\ (n - 1) + 1 = n
      BY <2>2
    <3> QED BY <2>3, <3>1, <3>2
  <2>8. {FreeWalk[n] : n \in 0 .. Capacity} \ {NIL}
          = {i \in Index : ~Occupied(i) /\ ~Retired(i)}
    BY <2>5, <2>6, <2>7, SlabConstants
  <2> QED BY <2>4, <2>8 DEF FreeListSound, SlabInv
<1>2. SlabInv /\ FreeListIsPath /\ [SlabNext]_slabVars => FreeListIsPath'
  <2> SUFFICES ASSUME SlabInv, FreeListIsPath, [SlabNext]_slabVars PROVE FreeListIsPath'
    OBVIOUS
  <2>1. CASE SlabNext
    BY <2>1, InsertTakesFirst, GetMutKeepsPath, RemovePrepends DEF SlabNext
  <2>2. CASE UNCHANGED slabVars
    BY <2>2 DEF slabVars, FreeListIsPath, SpelledBy, Fresh, Occupied, HandleAt
  <2> QED BY <2>1, <2>2
<1> QED BY <1>1, <1>2, InitIsPath, SlabInvHolds, PTL DEF SlabSpec

-----------------------------------------------------------------------------
(***************************************************************************)
(* From the oracle's ruling to the money: whatever is reported late, twice *)
(* or out of date, and whichever escrow and contract an intent names, an   *)
(* escrow is paid to a winner only as the oracle ruled on its contract,    *)
(* and what was decided stays decided.                                     *)
(*                                                                         *)
(* The argument is that a ruling, once final, is never replaced, so a copy *)
(* of it may travel as long as it likes: in the log, in the engine, in an  *)
(* intent on its way to custody and in an escrow already paid.             *)
(***************************************************************************)

Payload ==
  [kind : {"OracleStatusReported"}, contract : Contracts, status : OracleStatus]
    \cup [kind : {"EscrowSettled"}, escrow : Escrows, contract : Contracts]
Entry == [block : Nat, tx : Nat, index : Nat, payload : Payload]

\* The state is well typed, the log and the intents on their way included.
Typed ==
  /\ TypeOK
  /\ entries \in Seq(Entry) /\ head \in Nat /\ next_tx \in Nat
  /\ payouts \in Seq(Intent)

\* A copy of a final outcome is a copy of the ruling.
Ruled(c, s) == s.phase = "Final" => proposals[c] = s

ReportsRuled ==
  \A i \in 1..Len(entries) :
    entries[i].payload.kind = "OracleStatusReported" =>
      Ruled(entries[i].payload.contract, entries[i].payload.status)

EngineRuled == \A c \in Contracts : Ruled(c, status[c])

IntentsRuled ==
  \A i \in 1..Len(payouts) :
    payouts[i].outcome # "Void" => proposals[payouts[i].contract] = Final(payouts[i].outcome)

EscrowsRuled ==
  \A x \in Escrows : paid[x] \in {"Yes", "No"} => proposals[ContractOf[x]] = Final(paid[x])

RInv == Typed /\ ReportsRuled /\ EngineRuled /\ IntentsRuled /\ EscrowsRuled

-----------------------------------------------------------------------------
\* What an oracle knows of a contract is a record with a phase, and a final one carries
\* the outcome and nothing else.
LEMMA FinalIsItsOutcome ==
  /\ \A p \in Proposal : p.phase = "Final" => p \in {Final(o) : o \in Outcome}
  /\ \A s \in OracleStatus : s.phase = "Final" => s \in {Final(o) : o \in Outcome}
  /\ \A o \in Outcome : Final(o).phase = "Final" /\ Final(o).outcome = o
BY DEF Proposal, OracleStatus, Final, Silent, InProgress

\* What crosses the wire of a proposal is a status, final exactly when the proposal is.
LEMMA StatusIsRuled ==
  ASSUME NEW c \in Contracts, proposals[c] \in Proposal
  PROVE  /\ StatusOf(proposals[c]) \in OracleStatus
         /\ Ruled(c, StatusOf(proposals[c]))
<1>1. CASE proposals[c].phase \in {"Proposed", "Contested"}
  BY <1>1 DEF StatusOf, Ruled, OracleStatus, InProgress
<1>2. CASE proposals[c].phase \notin {"Proposed", "Contested"}
  <2>1. proposals[c] \in OracleStatus
    BY <1>2 DEF Proposal, OracleStatus
  <2> QED BY <1>2, <2>1 DEF StatusOf, Ruled
<1> QED BY <1>1, <1>2

LEMMA ResolutionStarts == Init => RInv
<1> SUFFICES ASSUME Init PROVE RInv
  OBVIOUS
<1>1. entries = <<>> /\ payouts = <<>> /\ Len(entries) = 0 /\ Len(payouts) = 0
  BY DEF Init, LogInit
<1>2. entries \in Seq(Entry) /\ payouts \in Seq(Intent)
  BY <1>1
<1>3. Silent \in Proposal /\ Silent \in OracleStatus
  BY DEF Proposal, OracleStatus
<1>4. TypeOK
  BY <1>1, <1>3, ResolutionConstants DEF Init, LogInit, TypeOK
<1>5. Typed
  BY <1>2, <1>4 DEF Init, LogInit, Typed
<1>6. EngineRuled
  BY DEF Init, EngineRuled, Ruled, Silent
<1>7. EscrowsRuled
  BY NoneIsNoOutcome DEF Init, EscrowsRuled, Outcome
<1> QED BY <1>1, <1>5, <1>6, <1>7 DEF RInv, ReportsRuled, IntentsRuled

\* A step that replaces no final proposal and moves nothing else but the oracle's state.
LEMMA RulingKeeps ==
  ASSUME RInv, NEW c \in Contracts, NEW p \in Proposal,
         proposals[c].phase # "Final", Ruling(c, p)
  PROVE  RInv'
<1>1. proposals' = [proposals EXCEPT ![c] = p]
  BY DEF Ruling
<1>2. /\ UNCHANGED <<now, oracle_now, cursor, forgets, status, payouts, paid>>
      /\ UNCHANGED <<entries, head, next_tx>>
  BY DEF Ruling, engineVars, logVars
<1>3. Typed'
  BY <1>1, <1>2 DEF RInv, Typed, TypeOK
<1>4. \A d \in Contracts : proposals[d].phase = "Final" => proposals'[d] = proposals[d]
  BY <1>1 DEF RInv, Typed, TypeOK
<1>5. ReportsRuled'
  <2> SUFFICES ASSUME NEW i \in 1..Len(entries),
                      entries[i].payload.kind = "OracleStatusReported",
                      entries[i].payload.status.phase = "Final"
               PROVE  proposals'[entries[i].payload.contract] = entries[i].payload.status
    BY <1>2 DEF ReportsRuled, Ruled
  <2>1. entries[i] \in Entry
    BY DEF RInv, Typed
  <2>2. entries[i].payload \in Payload
    BY <2>1 DEF Entry
  <2>3. entries[i].payload.contract \in Contracts
    BY <2>2 DEF Payload
  <2>4. proposals[entries[i].payload.contract] = entries[i].payload.status
    BY DEF RInv, ReportsRuled, Ruled
  <2>5. proposals[entries[i].payload.contract].phase = "Final"
    BY <2>4
  <2> QED BY <2>3, <2>4, <2>5, <1>4
<1>6. EngineRuled'
  BY <1>2, <1>4 DEF RInv, EngineRuled, Ruled
<1>7. IntentsRuled'
  <2> SUFFICES ASSUME NEW i \in 1..Len(payouts), payouts[i].outcome # "Void"
               PROVE  proposals'[payouts[i].contract] = Final(payouts[i].outcome)
    BY <1>2 DEF IntentsRuled
  <2>1. payouts[i] \in Intent
    BY DEF RInv, Typed
  <2>2. payouts[i].contract \in Contracts /\ payouts[i].outcome \in Outcome
    BY <2>1 DEF Intent
  <2>3. proposals[payouts[i].contract] = Final(payouts[i].outcome)
    BY DEF RInv, IntentsRuled
  <2> QED BY <2>2, <2>3, <1>4, FinalIsItsOutcome
<1>8. EscrowsRuled'
  <2> SUFFICES ASSUME NEW x \in Escrows, paid[x] \in {"Yes", "No"}
               PROVE  proposals'[ContractOf[x]] = Final(paid[x])
    BY <1>2 DEF EscrowsRuled
  <2>1. ContractOf[x] \in Contracts /\ paid[x] \in Outcome
    BY ResolutionConstants DEF Outcome
  <2>2. proposals[ContractOf[x]] = Final(paid[x])
    BY DEF RInv, EscrowsRuled
  <2> QED BY <2>1, <2>2, <1>4, FinalIsItsOutcome
<1> QED BY <1>3, <1>5, <1>6, <1>7, <1>8 DEF RInv

\* Propose, Contest, Finalise and Escalate each rule on what is not yet final.
LEMMA OracleKeeps ==
  ASSUME RInv, NEW c \in Contracts,
         \/ \E o \in Rulings : Propose(c, o)
         \/ Contest(c)
         \/ Finalise(c)
         \/ \E o \in Rulings, who \in Accounts : Escalate(c, o, who)
  PROVE  RInv'
<1> USE ResolutionConstants
<1>1. proposals[c] \in Proposal
  BY DEF RInv, Typed, TypeOK
<1>2. ASSUME NEW o \in Rulings, Propose(c, o) PROVE RInv'
  <2>1. [phase |-> "Proposed", outcome |-> o, window_closes |-> oracle_now + ChallengeWindow]
          \in Proposal
    BY DEF RInv, Typed, TypeOK, Proposal
  <2>2. proposals[c].phase # "Final"
    BY <1>2 DEF Propose, Silent
  <2> QED BY <1>2, <2>1, <2>2, RulingKeeps DEF Propose
<1>3. CASE Contest(c)
  <2>1. [phase |-> "Contested"] \in Proposal
    BY DEF Proposal
  <2> QED BY <1>3, <2>1, RulingKeeps DEF Contest
<1>4. CASE Finalise(c)
  <2>1. proposals[c].phase = "Proposed"
    BY <1>4 DEF Finalise, WindowElapsed
  <2>2. proposals[c].outcome \in Outcome
    BY <1>1, <2>1 DEF Proposal, Silent, Final
  <2>3. Final(proposals[c].outcome) \in Proposal
    BY <2>2 DEF Proposal
  <2> QED BY <1>4, <2>1, <2>3, RulingKeeps DEF Finalise
<1>5. ASSUME NEW o \in Rulings, NEW who \in Accounts, Escalate(c, o, who) PROVE RInv'
  <2>1. Final(o) \in Proposal
    BY DEF Proposal
  <2> QED BY <1>5, <2>1, RulingKeeps DEF Escalate
<1> QED BY <1>2, <1>3, <1>4, <1>5

\* One more entry in the log, of a well-typed payload that copies nothing but a ruling.
LEMMA WritingKeeps ==
  ASSUME RInv, NEW p \in Payload,
         p.kind = "OracleStatusReported" => Ruled(p.contract, p.status),
         Len(entries) < MaxEntries, Append1(<<p>>),
         UNCHANGED <<now, oracleVars, cursor, forgets, engineVars, paid>>
  PROVE  RInv'
<1> DEFINE e == [block |-> head, tx |-> next_tx, index |-> 0, payload |-> p]
<1>1. e \in Entry /\ e.payload = p
  BY DEF RInv, Typed, Entry
<1>2. [i \in DOMAIN <<p>> |-> [block |-> head, tx |-> next_tx + i - 1, index |-> 0,
                               payload |-> <<p>>[i]]] = <<e>>
  BY DEF RInv, Typed
<1>3. entries' = Append(entries, e) /\ head' = head /\ next_tx' = next_tx + 1
  <2>1. entries' = entries \o <<e>> /\ head' = head /\ next_tx' = next_tx + 1
    BY <1>2 DEF Append1
  <2>2. entries \o <<e>> = Append(entries, e)
    BY <1>1 DEF RInv, Typed
  <2> QED BY <2>1, <2>2
<1>4. /\ entries' \in Seq(Entry)
      /\ Len(entries') = Len(entries) + 1
      /\ \A i \in 1..Len(entries') : \/ i \in 1..Len(entries) /\ entries'[i] = entries[i]
                                     \/ entries'[i] = e
  BY <1>1, <1>3 DEF RInv, Typed
<1>5. UNCHANGED <<now, oracle_now, proposals, cursor, forgets, status, payouts, paid>>
  BY DEF oracleVars, engineVars
<1>6. Typed'
  BY <1>3, <1>4, <1>5, ResolutionConstants DEF RInv, Typed, TypeOK
<1>7. ReportsRuled'
  BY <1>1, <1>4, <1>5 DEF RInv, ReportsRuled, Ruled
<1> QED BY <1>5, <1>6, <1>7 DEF RInv, EngineRuled, Ruled, IntentsRuled, EscrowsRuled

LEMMA ReportKeeps ==
  ASSUME RInv, NEW c \in Contracts, Report(c)
  PROVE  RInv'
<1> DEFINE p == Reported(c, StatusOf(proposals[c]))
<1>1. StatusOf(proposals[c]) \in OracleStatus /\ Ruled(c, StatusOf(proposals[c]))
  BY StatusIsRuled DEF RInv, Typed, TypeOK
<1>2. /\ p \in Payload
      /\ p.contract = c /\ p.status = StatusOf(proposals[c])
  BY <1>1 DEF Reported, Payload
<1> QED BY <1>1, <1>2, WritingKeeps DEF Report

LEMMA RequestKeeps ==
  ASSUME RInv, NEW x \in Escrows, NEW c \in Contracts, RequestEscrowSettlement(x, c)
  PROVE  RInv'
<1>1. EscrowSettled(x, c) \in Payload /\ EscrowSettled(x, c).kind = "EscrowSettled"
  BY DEF EscrowSettled, Payload
<1> QED BY <1>1, WritingKeeps DEF RequestEscrowSettlement

-----------------------------------------------------------------------------
\* The outcome an intent takes from the engine is the ruling, or a void.
LEMMA OutcomeRuled ==
  ASSUME RInv, NEW c \in Contracts, NEW o \in OutcomeOf(c)
  PROVE  /\ o \in Outcome
         /\ o # "Void" => proposals[c] = Final(o)
<1>1. CASE status[c].phase = "Final"
  <2>1. status[c] \in OracleStatus /\ o = status[c].outcome
    BY <1>1 DEF OutcomeOf, RInv, Typed, TypeOK
  <2>2. status[c] = Final(o) /\ o \in Outcome
    BY <1>1, <2>1, FinalIsItsOutcome
  <2> QED BY <1>1, <2>2 DEF RInv, EngineRuled, Ruled
<1>2. CASE status[c].phase # "Final"
  BY <1>2 DEF OutcomeOf, Outcome
<1> QED BY <1>1, <1>2

\* A report moves the engine forwards only, to a copy of what the oracle ruled.
LEMMA ReportStep ==
  ASSUME RInv, NEW c \in Contracts, NEW s \in OracleStatus, Ruled(c, s),
         ReportOracleStatus(c, s)
  PROVE  /\ status' \in [Contracts -> OracleStatus]
         /\ \A d \in Contracts : Ruled(d, status'[d])
         /\ payouts' = payouts
BY DEF ReportOracleStatus, RInv, Typed, TypeOK, EngineRuled, Ruled

\* A request for payout leaves at most one intent more, and that carries the ruling.
LEMMA SettleStep ==
  ASSUME RInv, NEW x \in Escrows, NEW c \in Contracts, SettleEscrow(x, c)
  PROVE  /\ status' = status
         /\ payouts' \in Seq(Intent)
         /\ \A i \in 1..Len(payouts') : payouts'[i].outcome # "Void" =>
              proposals[payouts'[i].contract] = Final(payouts'[i].outcome)
<1>1. CASE payouts' = payouts
  BY <1>1 DEF SettleEscrow, RInv, Typed, IntentsRuled
<1>2. ASSUME NEW o \in OutcomeOf(c),
             payouts' = Append(payouts, [escrow |-> x, contract |-> c, outcome |-> o])
      PROVE  /\ payouts' \in Seq(Intent)
             /\ \A i \in 1..Len(payouts') : payouts'[i].outcome # "Void" =>
                  proposals[payouts'[i].contract] = Final(payouts'[i].outcome)
  <2> DEFINE intent == [escrow |-> x, contract |-> c, outcome |-> o]
  <2>1. /\ intent \in Intent /\ intent.contract = c /\ intent.outcome = o
        /\ o # "Void" => proposals[c] = Final(o)
    BY OutcomeRuled DEF Intent
  <2>2. payouts \in Seq(Intent)
    BY DEF RInv, Typed
  <2>3. /\ payouts' \in Seq(Intent)
        /\ \A i \in 1..Len(payouts') : \/ i \in 1..Len(payouts) /\ payouts'[i] = payouts[i]
                                       \/ payouts'[i] = intent
    BY <1>2, <2>1, <2>2
  <2> QED BY <2>1, <2>3 DEF RInv, IntentsRuled
<1> QED BY <1>1, <1>2 DEF SettleEscrow

LEMMA DeliverKeeps ==
  ASSUME RInv, Deliver
  PROVE  RInv'
<1> DEFINE p == entries[cursor + 1].payload
<1>1. /\ cursor + 1 \in 1..Len(entries) /\ cursor' = cursor + 1
      /\ UNCHANGED <<now, oracle_now, proposals, forgets, paid, entries, head, next_tx>>
  BY DEF Deliver, oracleVars, logVars, RInv, Typed, TypeOK
<1>2. p \in Payload
  <2>1. entries[cursor + 1] \in Entry
    BY <1>1 DEF RInv, Typed
  <2> QED BY <2>1 DEF Entry
<1>3. CASE p.kind = "OracleStatusReported" /\ ReportOracleStatus(p.contract, p.status)
  <2>1. p.contract \in Contracts /\ p.status \in OracleStatus
    BY <1>2, <1>3 DEF Payload
  <2>2. Ruled(p.contract, p.status)
    BY <1>1, <1>3 DEF RInv, ReportsRuled
  <2>3. /\ status' \in [Contracts -> OracleStatus]
        /\ \A d \in Contracts : Ruled(d, status'[d])
        /\ payouts' = payouts
    BY <1>3, <2>1, <2>2, ReportStep
  <2>4. Typed'
    BY <1>1, <2>3 DEF RInv, Typed, TypeOK
  <2>5. EngineRuled'
    BY <1>1, <2>3 DEF EngineRuled, Ruled
  <2> QED BY <1>1, <2>3, <2>4, <2>5 DEF RInv, ReportsRuled, Ruled, IntentsRuled, EscrowsRuled
<1>4. CASE p.kind = "EscrowSettled" /\ SettleEscrow(p.escrow, p.contract)
  <2>1. p.escrow \in Escrows /\ p.contract \in Contracts
    BY <1>2, <1>4 DEF Payload
  <2>2. /\ status' = status
        /\ payouts' \in Seq(Intent)
        /\ \A i \in 1..Len(payouts') : payouts'[i].outcome # "Void" =>
             proposals[payouts'[i].contract] = Final(payouts'[i].outcome)
    BY <1>4, <2>1, SettleStep
  <2>3. Typed'
    BY <1>1, <2>2 DEF RInv, Typed, TypeOK
  <2>4. IntentsRuled'
    BY <1>1, <2>2 DEF IntentsRuled
  <2> QED BY <1>1, <2>2, <2>3, <2>4 DEF RInv, ReportsRuled, EngineRuled, Ruled, EscrowsRuled
<1> QED BY <1>3, <1>4 DEF Deliver

\* Custody pays what the intent says only to an escrow of the contract it names.
LEMMA PayoutKeeps ==
  ASSUME RInv, ApplyPayout
  PROVE  RInv'
<1> DEFINE i == Head(payouts)
<1>1. UNCHANGED <<now, oracle_now, proposals, cursor, forgets, status, entries, head, next_tx>>
  BY DEF ApplyPayout, oracleVars, logVars
<1>2. /\ payouts \in Seq(Intent) /\ payouts # <<>> /\ payouts' = Tail(payouts)
      /\ i = payouts[1] /\ 1 \in 1..Len(payouts)
  BY DEF ApplyPayout, RInv, Typed
<1>3. /\ payouts' \in Seq(Intent)
      /\ \A k \in 1..Len(payouts') : k + 1 \in 1..Len(payouts) /\ payouts'[k] = payouts[k + 1]
  BY <1>2
<1>4. /\ i \in Intent
      /\ i.outcome # "Void" => proposals[i.contract] = Final(i.outcome)
  BY <1>2 DEF RInv, IntentsRuled
<1>5. \/ paid' = paid
      \/ ContractOf[i.escrow] = i.contract /\ paid' = [paid EXCEPT ![i.escrow] = i.outcome]
  BY DEF ApplyPayout, Payable
<1>6. paid' \in [Escrows -> Outcome \cup {None}]
  BY <1>4, <1>5 DEF RInv, Typed, TypeOK, Intent
<1>7. Typed'
  BY <1>1, <1>3, <1>6 DEF RInv, Typed, TypeOK
<1>8. IntentsRuled'
  BY <1>1, <1>3 DEF RInv, IntentsRuled
<1>9. EscrowsRuled'
  <2> SUFFICES ASSUME NEW x \in Escrows, paid'[x] \in {"Yes", "No"}
               PROVE  proposals[ContractOf[x]] = Final(paid'[x])
    BY <1>1 DEF EscrowsRuled
  <2>1. CASE paid'[x] = paid[x]
    BY <2>1 DEF RInv, EscrowsRuled
  <2>2. CASE paid'[x] # paid[x]
    <3>1. x = i.escrow /\ paid'[x] = i.outcome /\ ContractOf[x] = i.contract
      BY <1>4, <1>5, <2>2 DEF RInv, Typed, TypeOK, Intent
    <3> QED BY <1>4, <3>1
  <2> QED BY <2>1, <2>2
<1> QED BY <1>1, <1>7, <1>8, <1>9 DEF RInv, ReportsRuled, EngineRuled, Ruled

\* Time, and a reader that starts over, decide nothing.
LEMMA TickKeeps ==
  ASSUME RInv, Tick \/ ForgetEverything \/ UNCHANGED vars
  PROVE  RInv'
<1>1. UNCHANGED <<proposals, status, payouts, paid, entries, head, next_tx>>
  BY DEF Tick, ForgetEverything, vars, oracleVars, engineVars, logVars
<1>2. /\ now' \in 0..MaxTime /\ oracle_now' \in 0..MaxTime /\ cursor' \in 0..Len(entries)
  BY ResolutionConstants
  DEF Tick, ForgetEverything, vars, oracleVars, RInv, Typed, TypeOK
<1>3. Typed'
  BY <1>1, <1>2 DEF RInv, Typed, TypeOK
<1> QED BY <1>1, <1>3 DEF RInv, ReportsRuled, EngineRuled, Ruled, IntentsRuled, EscrowsRuled

LEMMA NextKeeps == RInv /\ [Next]_vars => RInv'
<1> SUFFICES ASSUME RInv, [Next]_vars PROVE RInv'
  OBVIOUS
<1>1. CASE Tick \/ ForgetEverything \/ UNCHANGED vars
  BY <1>1, TickKeeps
<1>2. ASSUME NEW c \in Contracts,
             \/ \E o \in Rulings : Propose(c, o)
             \/ Contest(c)
             \/ Finalise(c)
             \/ \E o \in Rulings, who \in Accounts : Escalate(c, o, who)
      PROVE  RInv'
  BY <1>2, OracleKeeps
<1>3. ASSUME NEW c \in Contracts, Report(c) PROVE RInv'
  BY <1>3, ReportKeeps
<1>4. ASSUME NEW x \in Escrows, NEW c \in Contracts, RequestEscrowSettlement(x, c) PROVE RInv'
  BY <1>4, RequestKeeps
<1>5. CASE Deliver
  BY <1>5, DeliverKeeps
<1>6. CASE ApplyPayout
  BY <1>6, PayoutKeeps
<1> QED BY <1>1, <1>2, <1>3, <1>4, <1>5, <1>6 DEF Next

LEMMA RInvHolds == Spec => []RInv
BY ResolutionStarts, NextKeeps, PTL DEF Spec

-----------------------------------------------------------------------------
\* The engine's belief and every payout to a winner are the oracle's ruling, in every
\* reachable state: replays, late intents and intents that name the wrong contract included.
THEOREM PayoutsFollowTheRuling == Spec => []PaidAsRuled
<1>1. RInv => PaidAsRuled
  BY FinalIsItsOutcome
  DEF RInv, Typed, EngineRuled, Ruled, EscrowsRuled, PaidAsRuled
<1> QED BY <1>1, RInvHolds, PTL

\* A report never takes the engine back, and an escrow once paid is not paid again.
LEMMA DecisionStep ==
  ASSUME RInv, [Next]_vars
  PROVE  /\ \A c \in Contracts : status'[c] = status[c] \/ Rank(status'[c]) > Rank(status[c])
         /\ \A x \in Escrows : paid[x] # None => paid'[x] = paid[x]
<1>1. CASE status' = status /\ paid' = paid
  BY <1>1
<1>2. CASE Deliver
  <2>1. paid' = paid
    BY <1>2 DEF Deliver
  <2>2. CASE status' = status
    BY <2>1, <2>2
  <2>3. ASSUME NEW c, NEW s, MayReport(c, s), status' = [status EXCEPT ![c] = s]
        PROVE  \A d \in Contracts : status'[d] = status[d] \/ Rank(status'[d]) > Rank(status[d])
    BY <2>3 DEF MayReport, RInv, Typed, TypeOK
  <2> QED BY <1>2, <2>1, <2>2, <2>3 DEF Deliver, ReportOracleStatus, SettleEscrow
<1>3. CASE ApplyPayout
  BY <1>3 DEF ApplyPayout, Payable, RInv, Typed, TypeOK
<1> QED
  BY <1>1, <1>2, <1>3
  DEF Next, Tick, Propose, Contest, Finalise, Escalate, Ruling, Report,
      RequestEscrowSettlement, ForgetEverything, vars, engineVars

\* What was decided stays decided, through any number of replays of the log.
THEOREM DecidedForGood == Spec => DecisionsStand
BY RInvHolds, DecisionStep, PTL DEF Spec, DecisionsStand

-----------------------------------------------------------------------------
(* Intents to void *)

\* While the engine knows the oracle is working on c, a request for payout adds no intent
\* to void c, and custody taking an intent leaves no more of them than there were.
LEMMA UnwindStep ==
  ASSUME RInv, [Next]_vars, NEW c \in Contracts, status[c] = InProgress
  PROVE  Cardinality(VoidIntents(c)') <= Cardinality(VoidIntents(c))
<1>1. /\ payouts \in Seq(Intent) /\ Len(payouts) \in Nat /\ DOMAIN payouts = 1 .. Len(payouts)
      /\ entries \in Seq(Entry)
  BY DEF RInv, Typed
<1>2. IsFiniteSet(VoidIntents(c)) /\ Cardinality(VoidIntents(c)) \in Nat
  <2>1. IsFiniteSet(1 .. Len(payouts)) /\ VoidIntents(c) \subseteq 1 .. Len(payouts)
    BY <1>1, FS_Interval DEF VoidIntents
  <2> QED BY <2>1, FS_Subset, FS_CardinalityType
<1>3. ASSUME VoidIntents(c)' \subseteq VoidIntents(c)
      PROVE  Cardinality(VoidIntents(c)') <= Cardinality(VoidIntents(c))
  BY <1>2, <1>3, FS_Subset
<1>4. CASE payouts' = payouts
  <2>1. VoidIntents(c)' = VoidIntents(c)
    BY <1>4 DEF VoidIntents
  <2> QED BY <1>3, <2>1
<1>5. ASSUME NEW x, NEW d, SettleEscrow(x, d), ~(payouts' = payouts), d \in Contracts, x \in Escrows
      PROVE  VoidIntents(c)' \subseteq VoidIntents(c)
  <2>1. PICK o \in OutcomeOf(d) :
          payouts' = Append(payouts, [escrow |-> x, contract |-> d, outcome |-> o])
    BY <1>5 DEF SettleEscrow
  <2>2. d # c
    BY DEF OutcomeOf, Stalled, InProgress, Silent
  <2> DEFINE intent == [escrow |-> x, contract |-> d, outcome |-> o]
  <2>3. intent \in Intent /\ intent.contract = d
    BY <1>5, OutcomeRuled DEF Intent
  <2> HIDE DEF intent
  <2>4. /\ DOMAIN payouts' = 1 .. Len(payouts) + 1
        /\ payouts'[Len(payouts) + 1] = intent
        /\ \A i \in 1 .. Len(payouts) : payouts'[i] = payouts[i]
    BY <1>1, <2>1, <2>3 DEF intent
  <2>5. ASSUME NEW i \in VoidIntents(c)' PROVE i \in VoidIntents(c)
    <3>1. i \in 1 .. Len(payouts) + 1 /\ payouts'[i].contract = c /\ payouts'[i].outcome = "Void"
      BY <2>4 DEF VoidIntents
    <3>2. i # Len(payouts) + 1
      BY <2>2, <2>3, <2>4, <3>1
    <3>3. i \in 1 .. Len(payouts)
      BY <1>1, <3>1, <3>2
    <3> QED BY <1>1, <2>4, <3>1, <3>3 DEF VoidIntents
  <2> QED BY <2>5
<1>6. CASE Deliver
  <2> DEFINE p == entries[cursor + 1].payload
  <2>1. p \in Payload
    <3>1. cursor + 1 \in 1 .. Len(entries)
      BY <1>6 DEF Deliver, RInv, Typed, TypeOK
    <3>2. entries[cursor + 1] \in Entry
      BY <1>1, <3>1
    <3> QED BY <3>2 DEF Entry
  <2>2. \/ payouts' = payouts
        \/ p.kind = "EscrowSettled" /\ SettleEscrow(p.escrow, p.contract)
    BY <1>6 DEF Deliver, ReportOracleStatus
  <2>3. p.kind = "EscrowSettled" => p.escrow \in Escrows /\ p.contract \in Contracts
    BY <2>1 DEF Payload
  <2> HIDE DEF p
  <2> QED BY <1>3, <1>4, <1>5, <2>2, <2>3
<1>7. CASE ApplyPayout
  <2>1. /\ payouts # <<>> /\ payouts' = Tail(payouts)
    BY <1>7 DEF ApplyPayout
  <2>2. /\ DOMAIN payouts' = 1 .. Len(payouts) - 1
        /\ \A i \in 1 .. Len(payouts) - 1 : i + 1 \in 1 .. Len(payouts)
                                             /\ payouts'[i] = payouts[i + 1]
    BY <1>1, <2>1
  <2> DEFINE f == [i \in VoidIntents(c)' |-> i + 1]
  <2>3. \A i \in VoidIntents(c)' : i \in Nat /\ i + 1 \in VoidIntents(c)
    BY <1>1, <2>2 DEF VoidIntents
  <2>4. f \in Injection(VoidIntents(c)', VoidIntents(c))
    BY <2>3 DEF Injection, IsInjective
  <2> HIDE DEF f
  <2> QED BY <1>2, <2>4, FS_Injection
<1>8. payouts' = payouts \/ Deliver \/ ApplyPayout
  BY DEF Next, Tick, Propose, Contest, Finalise, Escalate, Ruling, Report,
         RequestEscrowSettlement, ForgetEverything, vars, engineVars
<1> QED BY <1>4, <1>6, <1>7, <1>8

\* Contesting buys no unwind: the stall exit is closed from the moment the engine hears
\* that the oracle is working, whatever was asked for or replayed before.
THEOREM NoUnwindWhileWorking == Spec => ContestingBuysNoUnwind
<1>1. RInv /\ [Next]_vars =>
        [\A c \in Contracts : status[c] = InProgress =>
           Cardinality(VoidIntents(c)') <= Cardinality(VoidIntents(c))]_vars
  BY UnwindStep
<1> QED BY <1>1, RInvHolds, PTL DEF Spec, ContestingBuysNoUnwind
=============================================================================
