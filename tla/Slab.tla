-------------------------------- MODULE Slab --------------------------------
(***************************************************************************)
(* The generation-counted slab of crates/core: a fixed array of slots, an  *)
(* intrusive free list threaded through the vacant ones, and handles that  *)
(* carry the generation of the slot they were issued against.              *)
(*                                                                         *)
(* Callers keep handles after they have gone stale and come back with      *)
(* them, so SlabRemove and GetMut are offered every handle ever issued.    *)
(***************************************************************************)
EXTENDS Integers, FiniteSets

CONSTANTS
  Capacity,        \* slots, fixed at construction
  MaxGeneration,   \* u32::MAX, the generation that cannot be bumped
  Values,          \* what a slot may hold
  Vacant,          \* the content of a free slot
  NIL              \* the nil link

Index == 0 .. (Capacity - 1)
Generation == 0 .. MaxGeneration

ASSUME SlabConstants ==
  /\ Capacity \in Nat /\ MaxGeneration \in Nat
  /\ Vacant \notin Values /\ NIL \notin Index

VARIABLES
  slots,       \* per index: its generation, its content and its free-list link
  free_head,
  live,        \* the count of occupied slots
  issued       \* history: every handle `insert` returned

slabVars == <<slots, free_head, live, issued>>

Slot == [generation : Generation, content : Values \cup {Vacant}, next : Index \cup {NIL}]
Handle == [index : Index, generation : Generation]

HandleAt(i) == [index |-> i, generation |-> slots[i].generation]
Occupied(i) == slots[i].content # Vacant

\* The lookup of a handle: Vacant stands for None.
Get(h) ==
  IF slots[h.index].generation = h.generation THEN slots[h.index].content ELSE Vacant

SlabInit ==
  /\ slots = [i \in Index |->
                [generation |-> 0, content |-> Vacant,
                 next |-> IF i + 1 < Capacity THEN i + 1 ELSE NIL]]
  /\ free_head = IF Capacity = 0 THEN NIL ELSE 0
  /\ live = 0
  /\ issued = {}

\* The head of the free list takes the value; its generation does not move.
Insert(v) ==
  /\ free_head # NIL
  /\ ~Occupied(free_head)
  /\ slots' = [slots EXCEPT ![free_head].content = v, ![free_head].next = NIL]
  /\ free_head' = slots[free_head].next
  /\ live' = live + 1
  /\ issued' = issued \cup {HandleAt(free_head)}

GetMut(h, v) ==
  /\ Get(h) # Vacant
  /\ slots' = [slots EXCEPT ![h.index].content = v]
  /\ UNCHANGED <<free_head, live, issued>>

\* A generation at its limit retires the slot.
Reusable(g) == g < MaxGeneration

\* Faulty variant: the slot is freed at the generation it was taken at.
BumpedNever(g) == g

Bumped(g) == IF Reusable(g) THEN g + 1 ELSE g

\* Faulty variant: the freed slot forgets the ones that were free before it.
FreedUnchained(g) == [generation |-> Bumped(g), content |-> Vacant, next |-> NIL]

\* What remove leaves in the slot, chained to the free list unless it is retired.
Freed(g) ==
  [generation |-> Bumped(g), content |-> Vacant,
   next |-> IF Reusable(g) THEN free_head ELSE NIL]

\* Faulty variant: the count stays.
RemoveUncounted(h) ==
  /\ Get(h) # Vacant
  /\ slots' = [slots EXCEPT ![h.index] = Freed(h.generation)]
  /\ free_head' = IF Reusable(h.generation) THEN h.index ELSE free_head
  /\ UNCHANGED <<live, issued>>

\* A stale handle removes nothing.
SlabRemove(h) ==
  /\ Get(h) # Vacant
  /\ slots' = [slots EXCEPT ![h.index] = Freed(h.generation)]
  /\ free_head' = IF Reusable(h.generation) THEN h.index ELSE free_head
  /\ live' = live - 1
  /\ UNCHANGED issued

SlabNext ==
  \/ \E v \in Values : Insert(v)
  \/ \E h \in issued, v \in Values : GetMut(h, v)
  \/ \E h \in issued : SlabRemove(h)

SlabSpec == SlabInit /\ [][SlabNext]_slabVars

-----------------------------------------------------------------------------
SlabTypeOK ==
  /\ slots \in [Index -> Slot]
  /\ free_head \in Index \cup {NIL}
  /\ live \in Nat
  /\ issued \subseteq Handle

\* A slot that was freed at the last generation: vacant, and its handle is spent.
Retired(i) == ~Occupied(i) /\ HandleAt(i) \in issued

\* The free list as a caller of `insert` would consume it.
FreeWalk ==
  LET walk[n \in 0 .. Capacity] ==
        IF n = 0 THEN free_head
        ELSE IF walk[n - 1] = NIL THEN NIL
        ELSE slots[walk[n - 1]].next
  IN  walk

\* The free list is a path: it ends, passes no slot twice, and reaches exactly the slots
\* whose next handle has never been issued.  An `insert` therefore succeeds whenever
\* `has_room` said so, and no removal loses a slot it did not retire.
FreeListSound ==
  /\ SlabTypeOK
  /\ FreeWalk[Capacity] = NIL
  /\ {FreeWalk[n] : n \in 0 .. Capacity} \ {NIL} = {i \in Index : ~Occupied(i) /\ ~Retired(i)}

\* `len` counts the occupied slots, and capacity is lost to retirement alone: each retired
\* slot has been through every generation there is.
CapacityAccounted ==
  /\ live = Cardinality({i \in Index : Occupied(i)})
  /\ \A i \in Index : Retired(i) =>
       {h \in issued : h.index = i} = [index : {i}, generation : Generation]

\* A handle is issued once and, once its entry is gone, never names another, through any
\* number of reuses of its slot and through the exhaustion of its generations.
RegistryView == INSTANCE Registry WITH
  Handles <- Handle, Absent <- Vacant, holds <- [h \in Handle |-> Get(h)]

ImplementsRegistry == RegistryView!RegistrySpec
=============================================================================
