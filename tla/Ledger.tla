------------------------------- MODULE Ledger -------------------------------
(***************************************************************************)
(* The claim ledger of crates/core as it is laid out: a slab of            *)
(* reservations threaded by two kinds of intrusive lists, an expiry chain  *)
(* per account and a committed list per request, with a stored total for   *)
(* each kind and a back-pointer from every owner to its claim.             *)
(*                                                                         *)
(* `ledger` is the struct; the operators on it are its private methods and *)
(* return the ledger they leave behind.  Handles are slab handles, whose   *)
(* staleness Slab treats, so a claim is named by its slot and a call with  *)
(* a handle that no longer resolves, which changes nothing, is left out.   *)
(* The slot an insertion takes is any vacant one.                          *)
(***************************************************************************)
EXTENDS Integers, FiniteSetsExt, SequencesExt

CONSTANTS
  Accounts, RequestSlots, QuoteSlots,
  ResSlots,          \* slots of the reservation slab
  Amounts, Times, Balances,
  Vacant, NIL        \* an empty slot or no owner's claim; the nil link

VARIABLE ledger

Owners == RequestSlots \cup QuoteSlots
Link == ResSlots \cup {NIL}

Account == [free : Nat, reserved : Nat, committed : Nat,
            expiry_head : Link, expiry_tail : Link]
\* `list` is the request a committed claim is on, Vacant while the claim is reserved.
Reservation == [account : Accounts, amount : Nat, owner : Owners,
                expires_at : Times \cup {Vacant}, list : RequestSlots \cup {Vacant},
                prev : Link, next : Link]
QuoteRecord == [request : RequestSlots, claim : Link]
RequestRecord == [claim : Link, committed_head : Link]
BookRecord == [account : Accounts, amount : Nat,
               expires_at : Times \cup {Vacant}, list : RequestSlots \cup {Vacant}]

ASSUME LedgerConstants ==
  /\ IsFiniteSet(ResSlots) /\ IsFiniteSet(RequestSlots) /\ IsFiniteSet(QuoteSlots)
  /\ RequestSlots \cap QuoteSlots = {}
  /\ Amounts \cup Times \cup Balances \subseteq Nat
  /\ NIL \notin ResSlots
  /\ Vacant \notin Times \cup RequestSlots
  /\ Vacant \notin Reservation \cup QuoteRecord \cup RequestRecord \cup BookRecord

LedgerInit ==
  ledger = [accounts |-> [a \in Accounts |->
              [free |-> 0, reserved |-> 0, committed |-> 0,
               expiry_head |-> NIL, expiry_tail |-> NIL]],
            reservations |-> [i \in ResSlots |-> Vacant],
            requests |-> [r \in RequestSlots |-> Vacant],
            quotes |-> [q \in QuoteSlots |-> Vacant]]

Minus(m, n) == IF m >= n THEN m - n ELSE 0

-----------------------------------------------------------------------------
\* Chain plumbing.  A nil neighbour stands for the end of the chain, whose link is the
\* account's head or tail.
PointForward(L, a, from, to) ==
  IF from = NIL THEN [L EXCEPT !.accounts[a].expiry_head = to]
  ELSE [L EXCEPT !.reservations[from].next = to]

\* Faulty variant: the tail is left where it was.
PointBackInside(L, a, from, to) ==
  IF from = NIL THEN L ELSE [L EXCEPT !.reservations[from].prev = to]

PointBack(L, a, from, to) ==
  IF from = NIL THEN [L EXCEPT !.accounts[a].expiry_tail = to]
  ELSE [L EXCEPT !.reservations[from].prev = to]

\* Faulty variant: the newest claim goes last whenever it expires.
AppendAfter(L, a, t) == L.accounts[a].expiry_tail

\* Walking back from the tail: the last claim that does not expire later than `t`.
InsertAfter(L, a, t) ==
  LET walk[n \in 0 .. Cardinality(ResSlots)] ==
        IF n = 0 THEN L.accounts[a].expiry_tail
        ELSE LET c == walk[n - 1]
             IN  IF c = NIL THEN NIL
                 ELSE IF L.reservations[c].expires_at <= t THEN c
                 ELSE L.reservations[c].prev
  IN  walk[Cardinality(ResSlots)]

SpliceAfter(L, a, i, after) ==
  LET next == IF after = NIL THEN L.accounts[a].expiry_head ELSE L.reservations[after].next
      placed == [L EXCEPT !.reservations[i].prev = after, !.reservations[i].next = next]
  IN  PointBack(PointForward(placed, a, after, i), a, next, i)

UnlinkFromChain(L, a, i) ==
  LET prev == L.reservations[i].prev
      next == L.reservations[i].next
      closed == PointBack(PointForward(L, a, prev, next), a, next, prev)
  IN  [closed EXCEPT !.reservations[i].prev = NIL, !.reservations[i].next = NIL]

\* Faulty variant: the old head does not learn its new neighbour.
LinkCommittedOneWay(L, r, i) ==
  [L EXCEPT !.reservations[i].list = r, !.reservations[i].expires_at = Vacant,
            !.reservations[i].prev = NIL,
            !.reservations[i].next = L.requests[r].committed_head,
            !.requests[r].committed_head = i]

\* Head insertion; the claim loses its expiry.
LinkIntoCommittedList(L, r, i) ==
  LET head == L.requests[r].committed_head
      linked == [L EXCEPT !.reservations[i] =
                            [@ EXCEPT !.list = r, !.expires_at = Vacant, !.prev = NIL, !.next = head],
                          !.requests[r].committed_head = i]
  IN  IF head = NIL THEN linked ELSE [linked EXCEPT !.reservations[head].prev = i]

SetOwnerClaim(L, o, claim) ==
  IF o \in QuoteSlots THEN [L EXCEPT !.quotes[o].claim = claim]
  ELSE [L EXCEPT !.requests[o].claim = claim]

-----------------------------------------------------------------------------
\* check_reservable: what is stored as claimed, and this, fit the mirrored balance.
Reservable(a, n) ==
  LET entry == ledger.accounts[a]
  IN  entry.reserved + entry.committed + n <= entry.free

\* The slot taken, the chain linked, the total raised and the owner told.
LinkClaim(L, i, a, n, t, o) ==
  LET stored == [L EXCEPT !.reservations[i] =
                   [account |-> a, amount |-> n, owner |-> o, expires_at |-> t,
                    list |-> Vacant, prev |-> NIL, next |-> NIL]]
      linked == SpliceAfter(stored, a, i, InsertAfter(stored, a, t))
  IN  SetOwnerClaim([linked EXCEPT !.accounts[a].reserved = @ + n], o, i)

\* A reserved claim leaves its chain, its total and its owner, and frees its slot.
DropReserved(L, i) ==
  LET claim == L.reservations[i]
      unlinked == SetOwnerClaim(UnlinkFromChain(L, claim.account, i), claim.owner, NIL)
  IN  [unlinked EXCEPT !.accounts[claim.account].reserved = Minus(@, claim.amount),
                       !.reservations[i] = Vacant]

IsReserved(i) == ledger.reservations[i] # Vacant /\ ledger.reservations[i].list = Vacant
IsOpen(o) == IF o \in QuoteSlots THEN ledger.quotes[o] # Vacant ELSE ledger.requests[o] # Vacant
ClaimOf(o) == IF o \in QuoteSlots THEN ledger.quotes[o].claim ELSE ledger.requests[o].claim

VacantSlots == {i \in ResSlots : ledger.reservations[i] = Vacant}

\* reserve
Reserve(o, i, a, n, t) ==
  /\ IsOpen(o)
  /\ ClaimOf(o) = NIL
  /\ Reservable(a, n)
  /\ ledger' = LinkClaim(ledger, i, a, n, t, o)

OpenQuoteReserving(q, r, i, a, n, t) ==
  /\ ledger.quotes[q] = Vacant
  /\ ledger.requests[r] # Vacant
  /\ Reservable(a, n)
  /\ LET opened == [ledger EXCEPT !.quotes[q] = [request |-> r, claim |-> NIL]]
     IN  ledger' = LinkClaim(opened, i, a, n, t, q)

OpenRequestReserving(r, i, a, n, t) ==
  /\ ledger.requests[r] = Vacant
  /\ Reservable(a, n)
  /\ LET opened == [ledger EXCEPT !.requests[r] = [claim |-> NIL, committed_head |-> NIL]]
     IN  ledger' = LinkClaim(opened, i, a, n, t, r)

\* release, and the release of the commit phase.
Release(i) ==
  /\ IsReserved(i)
  /\ ledger' = DropReserved(ledger, i)

\* The claim off its chain, shrunk to `keep` and on the list, and both totals with it.
Committed(L, i, r, keep) ==
  LET claim == L.reservations[i]
      shrunk == [UnlinkFromChain(L, claim.account, i) EXCEPT !.reservations[i].amount = keep]
  IN  [LinkIntoCommittedList(shrunk, r, i) EXCEPT
         !.accounts[claim.account].reserved = Minus(@, claim.amount),
         !.accounts[claim.account].committed = @ + keep]

\* commit, which keeps all, and the commit of the commit phase.  The engine commits a
\* claim to the request it is about: the requester's own, or one of a quote on it.
Commit(i, r, keep) ==
  /\ IsReserved(i)
  /\ ledger.requests[r] # Vacant
  /\ keep <= ledger.reservations[i].amount
  /\ LET o == ledger.reservations[i].owner
     IN  IF o \in QuoteSlots THEN ledger.quotes[o].request = r ELSE o = r
  /\ ledger' = Committed(ledger, i, r, keep)

\* Reclaims from the head of the account's chain and stops at the first live claim.
Normalised(L, a, t) ==
  LET pass[n \in 0 .. Cardinality(ResSlots)] ==
        IF n = 0 THEN L
        ELSE LET before == pass[n - 1]
                 head == before.accounts[a].expiry_head
             IN  IF head # NIL /\ before.reservations[head].expires_at <= t
                 THEN DropReserved(before, head) ELSE before
  IN  pass[Cardinality(ResSlots)]

ReleaseExpired(a, t) == ledger' = Normalised(ledger, a, t)

\* A committed claim leaves its total and its owner, and frees its slot.
DropCommitted(L, i) ==
  LET claim == L.reservations[i]
  IN  [SetOwnerClaim(L, claim.owner, NIL) EXCEPT
         !.accounts[claim.account].committed = Minus(@, claim.amount),
         !.reservations[i] = Vacant]

\* The whole list goes, each claim's successor read before its slot is freed.
Discharged(L, r) ==
  LET pass[n \in 0 .. Cardinality(ResSlots)] ==
        IF n = 0 THEN [left |-> L, cursor |-> L.requests[r].committed_head]
        ELSE LET before == pass[n - 1]
             IN  IF before.cursor = NIL THEN before
                 ELSE [left |-> DropCommitted(before.left, before.cursor),
                       cursor |-> before.left.reservations[before.cursor].next]
  IN  [pass[Cardinality(ResSlots)].left EXCEPT
         !.requests[r] = [claim |-> NIL, committed_head |-> NIL]]

\* The engine discharges a request it was settling, whose own claim is on its list.
DischargeCommitted(r) ==
  /\ ledger.requests[r] # Vacant
  /\ \E i \in ResSlots : i = ledger.requests[r].claim /\ ledger.reservations[i].list = r
  /\ ledger' = Discharged(ledger, r)

\* An owner that still holds a claim is not freed.
CloseQuote(q) ==
  /\ ledger.quotes[q] # Vacant
  /\ ledger.quotes[q].claim = NIL
  /\ ledger' = [ledger EXCEPT !.quotes[q] = Vacant]

\* The engine frees the quotes of a request before the request.
CloseRequest(r) ==
  /\ ledger.requests[r] = [claim |-> NIL, committed_head |-> NIL]
  /\ \A q \in QuoteSlots : ledger.quotes[q] # Vacant => ledger.quotes[q].request # r
  /\ ledger' = [ledger EXCEPT !.requests[r] = Vacant]

ApplyMirrorUpdate(a, n) == ledger' = [ledger EXCEPT !.accounts[a].free = n]

LedgerNext ==
  \/ \E a \in Accounts, i \in VacantSlots, n \in Amounts, t \in Times :
       \/ \E o \in Owners : Reserve(o, i, a, n, t)
       \/ \E q \in QuoteSlots, r \in RequestSlots : OpenQuoteReserving(q, r, i, a, n, t)
       \/ \E r \in RequestSlots : OpenRequestReserving(r, i, a, n, t)
  \/ \E i \in ResSlots : Release(i)
  \/ \E i \in ResSlots, r \in RequestSlots, keep \in Amounts : Commit(i, r, keep)
  \/ \E a \in Accounts, t \in Times : ReleaseExpired(a, t)
  \/ \E a \in Accounts, n \in Balances : ApplyMirrorUpdate(a, n)
  \/ \E r \in RequestSlots : DischargeCommitted(r)
  \/ \E q \in QuoteSlots : CloseQuote(q)
  \/ \E r \in RequestSlots : CloseRequest(r)

LedgerSpec == LedgerInit /\ [][LedgerNext]_ledger

-----------------------------------------------------------------------------
\* The shapes, and that a claim either expires or is on a list (reservation.rs ClaimState).
LedgerTypeOK ==
  /\ ledger.accounts \in [Accounts -> Account]
  /\ ledger.reservations \in [ResSlots -> Reservation \cup {Vacant}]
  /\ \A i \in ResSlots : LET claim == ledger.reservations[i]
                         IN  claim # Vacant => (claim.list = Vacant <=> claim.expires_at # Vacant)
  /\ ledger.requests \in [RequestSlots -> RequestRecord \cup {Vacant}]
  /\ ledger.quotes \in [QuoteSlots -> QuoteRecord \cup {Vacant}]

Slots(Test(_)) == {i \in ResSlots : ledger.reservations[i] # Vacant /\ Test(ledger.reservations[i])}
OnChain(a) == Slots(LAMBDA c : c.list = Vacant /\ c.account = a)
OnList(r) == Slots(LAMBDA c : c.list = r)
CommittedBy(a) == Slots(LAMBDA c : c.list # Vacant /\ c.account = a)
SumOf(S) == SumFunction([i \in S |-> ledger.reservations[i].amount])

\* `s` is the list from `head`, read along both its links.
LinksSpell(s, head) ==
  /\ head = IF s = <<>> THEN NIL ELSE s[1]
  /\ \A k \in 1 .. Len(s) :
       /\ ledger.reservations[s[k]].prev = IF k = 1 THEN NIL ELSE s[k - 1]
       /\ ledger.reservations[s[k]].next = IF k = Len(s) THEN NIL ELSE s[k + 1]

\* check_expiry_chains: the reserved claims of an account, each once, in order of expiry,
\* between the account's head and tail, and adding up to what is stored as reserved.
ExpiryChainsSound ==
  /\ LedgerTypeOK
  /\ \A a \in Accounts :
       LET entry == ledger.accounts[a]
       IN  /\ \E s \in SetToSeqs(OnChain(a)) :
                /\ LinksSpell(s, entry.expiry_head)
                /\ entry.expiry_tail = IF s = <<>> THEN NIL ELSE Last(s)
                /\ \A j, k \in 1 .. Len(s) : j < k =>
                     ledger.reservations[s[j]].expires_at
                       <= ledger.reservations[s[k]].expires_at
           /\ entry.reserved = SumOf(OnChain(a))

\* check_owners, from both ends: the owner of a claim is open and holds it, and what an
\* open owner holds is a claim of its own.
OwnersAgree ==
  /\ \A i \in ResSlots : LET claim == ledger.reservations[i]
                          IN  claim # Vacant => IsOpen(claim.owner) /\ ClaimOf(claim.owner) = i
  /\ \A o \in Owners : IsOpen(o) /\ ClaimOf(o) # NIL =>
       ledger.reservations[ClaimOf(o)] # Vacant /\ ledger.reservations[ClaimOf(o)].owner = o

\* check_committed_lists and check_committed_totals: every committed claim is once on the
\* list of a request that is still open, the lists add up to the stored totals, and what a
\* list frees is what its owners lose.
CommittedListsSound ==
  /\ OwnersAgree
  /\ \A r \in RequestSlots :
       IF ledger.requests[r] = Vacant THEN OnList(r) = {}
       ELSE \E s \in SetToSeqs(OnList(r)) : LinksSpell(s, ledger.requests[r].committed_head)
  /\ \A a \in Accounts : ledger.accounts[a].committed = SumOf(CommittedBy(a))

\* The claim of an owner, read through its back-pointer.
BookEntry(o) ==
  IF ~IsOpen(o) \/ ClaimOf(o) = NIL THEN Vacant
  ELSE LET claim == ledger.reservations[ClaimOf(o)]
       IN  [account |-> claim.account, amount |-> claim.amount,
            expires_at |-> claim.expires_at, list |-> claim.list]

\* The chains and totals are a book of claims: admission by stored totals is admission by
\* the claims themselves, the walk from the head that stops at the first live claim drops
\* every dead one, and a list discharges exactly the claims committed to its request.
BookView == INSTANCE ClaimBook WITH
  free <- [a \in Accounts |-> ledger.accounts[a].free],
  book <- [o \in Owners |-> BookEntry(o)]

ImplementsClaimBook == BookView!BookSpec
=============================================================================
