------------------------------- MODULE Engine -------------------------------
(***************************************************************************)
(* The matching engine of crates/core: requests, quotes, and the claims    *)
(* both sides hold against a mirrored balance.  One action is one command  *)
(* of `Engine::apply`: it normalises the accounts the command addresses,   *)
(* then either refuses or commits in one step, exactly as the single       *)
(* writer does.                                                            *)
(*                                                                         *)
(* A claim is a record held by its owner (a request slot or a quote slot); *)
(* the intrusive chains that index the same records in ledger.rs and the   *)
(* stored per-account totals are the representation of `claims` and of     *)
(* Claimed.  A leg's quote chain is a set, because it is always walked     *)
(* whole.  The side of a leg is left out: a price is the price of the side *)
(* being bought, so no decision of the engine reads the side.              *)
(***************************************************************************)
EXTENDS Integers, Sequences, FiniteSets, FiniteSetsExt

CONSTANTS
  Accounts,          \* the preallocated account mirror
  Contracts,         \* the preallocated contract table
  RequestSlots,      \* slots of the request slab
  QuoteSlots,        \* slots of the quote slab
  MaxReservations,   \* slots of the reservation slab
  MaxLegs, MaxQuotesPerLeg, EventCapacity,
  UNIT,              \* what a settled unit of size pays
  MaxQuoteTtl, MaxRequestTtl, MinHorizon, MaxSettlingTime,
  Vacant,            \* an empty slot, an absent claim, an unset field
  Requesters, Makers,                    \* the accounts that trade on each side
  Prices, Sizes, Balances, EventDates,   \* what commands may carry
  MaxTime,           \* bound: the last instant explored
  MaxArrivals        \* bound: how many quotes are admitted

VARIABLES
  now,           \* the single timestamp sampled for each command
  free,          \* mirrored balance of each account
  contracts,     \* registered event dates
  requests,      \* the request slab
  chain,         \* quotes linked on each leg of each request
  published,     \* last price published for each leg
  quotes,        \* the quote slab
  claims,        \* the reservation slab, indexed by owner
  next_arrival,  \* arrival number of the next admitted quote
  reply          \* outcome of the last command and the events it pushed

vars == <<now, free, contracts, requests, chain, published, quotes, claims,
          next_arrival, reply>>

Owners == RequestSlots \cup QuoteSlots
LegIds == 1..MaxLegs

LegSpec == [contract : Contracts, size : Nat, limit : Nat]
RequestState == {"Open", "Settling", "Escrowed", "Rejected", "SettlementFailed"}
Basket == {legs \in Seq(LegSpec) : Len(legs) \in LegIds}
Request == [requester : Accounts, deadline : Nat, legs : Basket,
            state : RequestState, settle_by : Nat]
Quote == [maker : Accounts, request : RequestSlots, leg : LegIds, price : Nat,
          size : Nat, expires_at : Nat, arrival : Nat,
          state : {"Active", "Consumed"}]
\* `list` is the request whose committed list the claim is on, Vacant while the
\* claim is reserved; a committed claim has no expiry.
Claim == [account : Accounts, amount : Nat, expires_at : Nat,
          list : RequestSlots \cup {Vacant}]

ASSUME EngineConstants ==
  /\ MaxReservations \in Nat /\ MaxLegs \in Nat \ {0} /\ MaxQuotesPerLeg \in Nat
  /\ EventCapacity \in Nat /\ UNIT \in Nat \ {0}
  /\ {MaxQuoteTtl, MaxRequestTtl, MinHorizon, MaxSettlingTime} \subseteq Nat
  /\ Prices \subseteq Nat /\ Sizes \subseteq Nat /\ Balances \subseteq Nat
  /\ EventDates \subseteq Nat /\ MaxTime \in Nat /\ MaxArrivals \in Nat
  /\ Requesters \subseteq Accounts /\ Makers \subseteq Accounts
  /\ RequestSlots \cap QuoteSlots = {}
  /\ IsFiniteSet(RequestSlots) /\ IsFiniteSet(QuoteSlots)

ASSUME VacantIsNoValue ==
  /\ Vacant \notin Claim /\ Vacant \notin Quote /\ Vacant \notin Request
  /\ Vacant \notin RequestSlots /\ Vacant \notin Nat

-----------------------------------------------------------------------------
(* Claims *)

\* The claims of a book that are held against an account.
ClaimsOf(book, a) == {o \in Owners : book[o] # Vacant /\ book[o].account = a}

\* reserved + committed of an account: what its claims hold of its balance.
Claimed(book, a) == SumFunction([o \in ClaimsOf(book, a) |-> book[o].amount])

RoomForClaim(book) ==
  Cardinality({o \in Owners : book[o] # Vacant}) < MaxReservations

\* Faulty variants, each a mistake the code could have made: they are used only to
\* show that a property would notice.
ClaimExpiredEarly(c) == c.list = Vacant /\ c.expires_at <= now + 1
ClaimExpiredThoughCommitted(c) == c.expires_at <= now

\* Half-open liveness: a reserved claim is dead from its expiry on, a committed
\* one never dies of time.
ClaimExpired(c) == c.list = Vacant /\ c.expires_at <= now

\* release_expired for every account in A: the normalisation every command
\* performs on the accounts it addresses before it decides anything.
Normalised(A) ==
  [o \in Owners |->
     IF claims[o] # Vacant /\ claims[o].account \in A /\ ClaimExpired(claims[o])
     THEN Vacant ELSE claims[o]]

\* A slab or a book with the slots in S emptied.
Without(slab, S) == [x \in DOMAIN slab |-> IF x \in S THEN Vacant ELSE slab[x]]

Reserved(a, amount, expires_at) ==
  [account |-> a, amount |-> amount, expires_at |-> expires_at, list |-> Vacant]

\* Faulty variants: the claim keeps its over-reservation; it stays off the list.
CommittedInFull(c, r, keep) ==
  [account |-> c.account, amount |-> c.amount, expires_at |-> 0, list |-> r]
CommittedOffList(c, r, keep) ==
  [account |-> c.account, amount |-> keep, expires_at |-> c.expires_at, list |-> Vacant]

\* The claim moved reserved -> committed onto r's list, keeping `keep` of it.
Committed(c, r, keep) ==
  [account |-> c.account, amount |-> keep, expires_at |-> 0, list |-> r]

-----------------------------------------------------------------------------
(* Requests, legs, selection *)

InState(r, s) == requests[r] # Vacant /\ requests[r].state = s

Requester(r) == IF requests[r] = Vacant THEN {} ELSE {requests[r].requester}

LegsOf(r) == DOMAIN requests[r].legs

\* What a requester must reserve before any price exists: every leg at its limit.
Reservation(legs) ==
  SumFunction([l \in DOMAIN legs |-> legs[l].size * legs[l].limit])

\* Faulty variant: the complement of the price, reversed.
MakerContributionReversed(leg, price) == leg.size * (price - UNIT)

MakerContribution(leg, price) == leg.size * (UNIT - price)

Live(q) == q.state = "Active" /\ now < q.expires_at

\* The candidates of a leg: live, large enough, at or better than the limit.
Eligible(slab, linked, leg) ==
  {q \in linked : /\ Live(slab[q])
                  /\ slab[q].size >= leg.size
                  /\ slab[q].price <= leg.limit}

\* Lowest price wins, and among equal prices the earliest arrival: no two quotes
\* have the same arrival, so at most one candidate is best.
Beats(p, q) == p.price < q.price \/ (p.price = q.price /\ p.arrival < q.arrival)

Best(slab, linked, leg) ==
  {q \in Eligible(slab, linked, leg) :
     \A p \in Eligible(slab, linked, leg) \ {q} : ~Beats(slab[p], slab[q])}

\* Faulty variant: a dead quote is not replaced.
LiveStandingQuote(r, l, m) ==
  {q \in chain[r][l] : quotes[q].maker = m /\ Live(quotes[q])}

\* The quote a new one from the same maker replaces: the first Active quote of
\* the maker on the chain, which is linked at its head.  At most one element.
StandingQuote(r, l, m) ==
  LET own == {q \in chain[r][l] : quotes[q].maker = m /\ quotes[q].state = "Active"}
  IN  {q \in own : \A p \in own : quotes[p].arrival <= quotes[q].arrival}

\* Faulty variant: a leg publishes once.
PublishedPriceOnce(slab, linked, leg, old) ==
  LET best == Best(slab, linked, leg)
  IN  IF best = {} \/ old # Vacant THEN old ELSE slab[CHOOSE q \in best : TRUE].price

\* The price published for a leg once the given slab and chain are in place.
PublishedPrice(slab, linked, leg, old) ==
  LET best == Best(slab, linked, leg)
  IN  IF best = {} THEN old ELSE slab[CHOOSE q \in best : TRUE].price

\* link_quote: a new quote joins the ones already on the leg.
Link(linked, q) == linked \cup {q}

\* Every quote linked on any leg of r.
LinkedOn(r) == UNION {chain[r][l] : l \in LegIds}

\* Faulty variant: quotes already dead are dropped without a notice.
LiveNotices(released, reason) ==
  {[kind |-> reason, quote |-> q, maker |-> quotes[q].maker]
     : q \in {p \in released : Live(quotes[p])}}

\* One notice per released quote: expired if it was already dead, else the reason.
Notices(released, reason) ==
  {[kind |-> IF Live(quotes[q]) THEN reason ELSE "QuoteExpired",
    quote |-> q, maker |-> quotes[q].maker] : q \in released}

-----------------------------------------------------------------------------
(* Replies *)

Accepted(events) == reply' = [ok |-> TRUE, events |-> events]
Refused(events) == reply' = [ok |-> FALSE, events |-> events]

\* A refused command leaves the normalised state.
Refuse(book) ==
  /\ claims' = book
  /\ Refused({})
  /\ UNCHANGED <<now, free, contracts, requests, chain, published, quotes, next_arrival>>

-----------------------------------------------------------------------------
Init ==
  /\ now = 0
  /\ free = [a \in Accounts |-> 0]
  /\ contracts = [c \in Contracts |-> Vacant]
  /\ requests = [r \in RequestSlots |-> Vacant]
  /\ chain = [r \in RequestSlots |-> [l \in LegIds |-> {}]]
  /\ published = [r \in RequestSlots |-> [l \in LegIds |-> Vacant]]
  /\ quotes = [q \in QuoteSlots |-> Vacant]
  /\ claims = [o \in Owners |-> Vacant]
  /\ next_arrival = 0
  /\ reply = [ok |-> TRUE, events |-> {}]

(* The monotonic clock of the venue, sampled once per command. *)
Tick ==
  /\ now < MaxTime
  /\ now' = now + 1
  /\ Accepted({})
  /\ UNCHANGED <<free, contracts, requests, chain, published, quotes, claims, next_arrival>>

(* CreditAccount: the mirror follows custody, up or down. *)
CreditAccount(a, amount) ==
  /\ free' = [free EXCEPT ![a] = amount]
  /\ claims' = Normalised({a})
  /\ Accepted({})
  /\ UNCHANGED <<now, contracts, requests, chain, published, quotes, next_arrival>>

(* RegisterContract: idempotent, but the event date is part of the identity. *)
RegisterContract(c, event_date) ==
  \/ /\ contracts[c] \in {Vacant, event_date}
     /\ contracts' = [contracts EXCEPT ![c] = event_date]
     /\ Accepted({})
     /\ UNCHANGED <<now, free, requests, chain, published, quotes, claims, next_arrival>>
  \/ /\ contracts[c] \notin {Vacant, event_date}
     /\ Refuse(claims)

(* SubmitRequest *)

LegAdmissible(leg) ==
  /\ leg.size > 0
  /\ leg.limit <= UNIT
  /\ contracts[leg.contract] # Vacant
  /\ now + MinHorizon < contracts[leg.contract]

RequestAdmissible(deadline, legs) ==
  /\ Len(legs) \in LegIds
  /\ now < deadline
  /\ deadline - now <= MaxRequestTtl
  /\ \A l \in DOMAIN legs : LegAdmissible(legs[l])
  /\ EventCapacity >= 1

\* Faulty variant: the balance is checked before the new claim is added.
ReservableBefore(book, a, amount) == Claimed(book, a) <= free[a]

\* check_reservable: the claims of an account together fit its mirrored balance.
Reservable(book, a, amount) == Claimed(book, a) + amount <= free[a]

OpenRequest(r, a, deadline, legs, book) ==
  \E amount \in 0..free[a] :
    /\ amount = Reservation(legs)
    /\ Reservable(book, a, amount)
    /\ requests[r] = Vacant
    /\ RoomForClaim(book)
    /\ requests' = [requests EXCEPT ![r] =
         [requester |-> a, deadline |-> deadline, legs |-> legs,
          state |-> "Open", settle_by |-> 0]]
    /\ claims' = [book EXCEPT ![r] = Reserved(a, amount, deadline)]
    /\ Accepted({[kind |-> "RequestOpened", request |-> r]})
    /\ UNCHANGED <<now, free, contracts, chain, published, quotes, next_arrival>>

RequestFits(a, legs, book) ==
  /\ Reservable(book, a, Reservation(legs))
  /\ \E r \in RequestSlots : requests[r] = Vacant
  /\ RoomForClaim(book)

SubmitRequest(a, deadline, legs) ==
  LET book == Normalised({a}) IN
  \/ /\ RequestAdmissible(deadline, legs)
     /\ \E r \in RequestSlots : OpenRequest(r, a, deadline, legs, book)
  \/ /\ ~(RequestAdmissible(deadline, legs) /\ RequestFits(a, legs, book))
     /\ Refuse(book)

(* RejectRequest: an explicit rejection releases every standing quote. *)
RejectAdmissible(r) ==
  InState(r, "Open") /\ Len(requests[r].legs) * MaxQuotesPerLeg <= EventCapacity

RejectRequest(r) ==
  LET book == Normalised(Requester(r)) IN
  \/ /\ RejectAdmissible(r)
     /\ quotes' = Without(quotes, LinkedOn(r))
     /\ claims' = Without(book, LinkedOn(r) \cup {r})
     /\ chain' = [chain EXCEPT ![r] = [l \in LegIds |-> {}]]
     /\ requests' = [requests EXCEPT ![r].state = "Rejected"]
     /\ Accepted(Notices(LinkedOn(r), "RequestRejected"))
     /\ UNCHANGED <<now, free, contracts, published, next_arrival>>
  \/ /\ ~RejectAdmissible(r)
     /\ Refuse(book)

(* SubmitQuote *)

QuoteAdmissible(m, r, l, price, size, expires_at) ==
  /\ InState(r, "Open")
  /\ now < requests[r].deadline
  /\ l \in LegsOf(r)
  /\ now < expires_at
  /\ expires_at - now <= MaxQuoteTtl
  /\ price <= UNIT
  /\ size >= requests[r].legs[l].size
  /\ \A s \in StandingQuote(r, l, m) : price <= quotes[s].price
  /\ StandingQuote(r, l, m) = {} => Cardinality(chain[r][l]) < MaxQuotesPerLeg
  /\ EventCapacity >= 2

\* The admitted quote goes into slot q of what the replacement left behind.
OpenQuote(q, quote, amount, slab, book, linked) ==
  LET r == quote.request
      l == quote.leg
      slab2 == [slab EXCEPT ![q] = quote]
      leg == requests[r].legs[l]
      price == PublishedPrice(slab2, Link(linked, q), leg, published[r][l])
  IN  /\ quotes' = slab2
      /\ claims' = [book EXCEPT ![q] = Reserved(quote.maker, amount, quote.expires_at)]
      /\ chain' = [chain EXCEPT ![r][l] = Link(linked, q)]
      /\ published' = [published EXCEPT ![r][l] = price]

\* open_quote_reserving can still refuse: the maker's balance, or a full slab.
QuoteFits(m, amount, slab, book) ==
  /\ Reservable(book, m, amount)
  /\ \E q \in QuoteSlots : slab[q] = Vacant
  /\ RoomForClaim(book)

\* The standing quote is released first, then the new one is opened.  When that
\* last step refuses, the release and its notice have already happened.
ReplaceAndOpen(m, r, l, price, size, expires_at, old) ==
  LET slab == Without(quotes, old)
      book == Without(Normalised({m} \cup Requester(r)), old)
      linked == chain[r][l] \ old
      amount == MakerContribution(requests[r].legs[l], price)
      quote == [maker |-> m, request |-> r, leg |-> l, price |-> price,
                size |-> size, expires_at |-> expires_at,
                arrival |-> next_arrival, state |-> "Active"]
      notices == {[kind |-> "Replaced", quote |-> q, maker |-> m] : q \in old}
  IN  /\ next_arrival' = next_arrival + 1
      /\ \/ /\ QuoteFits(m, amount, slab, book)
            /\ \E q \in QuoteSlots :
                 /\ slab[q] = Vacant
                 /\ OpenQuote(q, quote, amount, slab, book, linked)
            /\ Accepted(notices \cup
                 (IF published'[r][l] = published[r][l] THEN {} ELSE
                  {[kind |-> "BestSelectionChanged", request |-> r, leg |-> l,
                    price |-> published'[r][l]]}))
         \/ /\ ~QuoteFits(m, amount, slab, book)
            /\ quotes' = slab
            /\ claims' = book
            /\ chain' = [chain EXCEPT ![r][l] = linked]
            /\ Refused(notices)
            /\ UNCHANGED published
      /\ UNCHANGED <<now, free, contracts, requests>>

SubmitQuote(m, r, l, price, size, expires_at) ==
  \/ /\ QuoteAdmissible(m, r, l, price, size, expires_at)
     /\ ReplaceAndOpen(m, r, l, price, size, expires_at, StandingQuote(r, l, m))
  \/ /\ ~QuoteAdmissible(m, r, l, price, size, expires_at)
     /\ Refuse(Normalised({m} \cup Requester(r)))

(* CancelQuote: a rejected transition, so all it does is normalise the maker. *)
CancelQuote(q) ==
  Refuse(Normalised(IF quotes[q] = Vacant THEN {} ELSE {quotes[q].maker}))

(* AcceptRequest *)

\* One winner per leg, none of them worse than the price the requester was shown.
Plan(r, expected) ==
  {win \in [LegsOf(r) -> QuoteSlots] :
     \A l \in LegsOf(r) :
       /\ win[l] \in Best(quotes, chain[r][l], requests[r].legs[l])
       /\ quotes[win[l]].price <= expected[l]}

FillCost(r, win) ==
  SumFunction([l \in LegsOf(r) |-> requests[r].legs[l].size * quotes[win[l]].price])

AcceptAdmissible(r, expected) ==
  /\ InState(r, "Open")
  /\ now < requests[r].deadline
  /\ DOMAIN expected = LegsOf(r)
  /\ Len(requests[r].legs) * MaxQuotesPerLeg + 1 <= EventCapacity

\* The claim moves made for the winners and the requester, who keeps `total`
\* committed and gets the over-reservation back.
CommitClaims(book, r, winners, losers, total) ==
  [o \in Owners |->
     CASE o \in losers -> Vacant
       [] o \in winners /\ book[o] # Vacant -> Committed(book[o], r, book[o].amount)
       [] o = r -> Committed(book[o], r, total)
       [] OTHER -> book[o]]

CommitAccept(r, win, book) ==
  LET winners == {win[l] : l \in LegsOf(r)}
      losers == LinkedOn(r) \ winners
  IN  /\ book[r] # Vacant
      /\ \E total \in 0..book[r].amount :
           /\ total = FillCost(r, win)
           /\ claims' = CommitClaims(book, r, winners, losers, total)
      /\ quotes' = [q \in QuoteSlots |->
                      CASE q \in losers -> Vacant
                        [] q \in winners -> [quotes[q] EXCEPT !.state = "Consumed"]
                        [] OTHER -> quotes[q]]
      /\ chain' = [chain EXCEPT ![r] =
                     [l \in LegIds |-> IF l \in LegsOf(r) THEN {win[l]} ELSE {}]]
      /\ requests' = [requests EXCEPT ![r].state = "Settling",
                                      ![r].settle_by = now + MaxSettlingTime]
      /\ Accepted(Notices(losers, "Outbid") \cup
                  {[kind |-> "SubmitIntent", request |-> r]})
      /\ UNCHANGED <<now, free, contracts, published, next_arrival>>

AcceptFits(r, win, book) == book[r] # Vacant /\ FillCost(r, win) <= book[r].amount

AcceptRequest(r, expected) ==
  LET book == Normalised(Requester(r)) IN
  \/ /\ AcceptAdmissible(r, expected)
     /\ \E win \in Plan(r, expected) : CommitAccept(r, win, book)
  \/ /\ ~( /\ AcceptAdmissible(r, expected)
           /\ \E win \in Plan(r, expected) : AcceptFits(r, win, book) )
     /\ Refuse(book)

(* PollSettlement.  A request slot is never freed, so a nonce is its slot. *)

\* discharge_committed: the claims on r's committed list leave the books.
OnList(book, r) == {o \in Owners : book[o] # Vacant /\ book[o].list = r}

\* Faulty variant: quotes are closed only while their claim is still held.
ConsumedWithClaim(r, book) ==
  {q \in QuoteSlots : /\ quotes[q] # Vacant
                      /\ quotes[q].request = r
                      /\ quotes[q].state = "Consumed"
                      /\ book[q] # Vacant}

\* Faulty variant: every quote that holds no claim is closed, of whatever request.
ClaimlessQuotes(r, book) == {q \in QuoteSlots : quotes[q] # Vacant /\ book[q] = Vacant}

\* close_consumed_quotes: consumed quotes of r that hold no claim any more.  They
\* are not unlinked from the legs of r, which is terminal by now.
ConsumedBy(r, book) ==
  {q \in QuoteSlots : /\ quotes[q] # Vacant
                      /\ quotes[q].request = r
                      /\ quotes[q].state = "Consumed"
                      /\ book[q] = Vacant}

Discharge(r, book, state, events) ==
  LET book2 == Without(book, OnList(book, r))
  IN  /\ claims' = book2
      /\ quotes' = Without(quotes, ConsumedBy(r, book2))
      /\ requests' = [requests EXCEPT ![r].state = state]
      /\ Accepted(events)
      /\ UNCHANGED <<now, free, contracts, chain, published, next_arrival>>

\* No answer yet: nothing moves, however long it takes.
StillUnknown(r, book) ==
  /\ claims' = book
  /\ Accepted(IF now < requests[r].settle_by THEN {}
              ELSE {[kind |-> "SettlementStalled", request |-> r]})
  /\ UNCHANGED <<now, free, contracts, requests, chain, published, quotes, next_arrival>>

\* The events a poll may push: a notice per winning maker only when it reverted,
\* none at all while an unresolved poll is within its deadline.
PollHeadroom(r, status) ==
  CASE status = "Settled" -> 1
    [] status = "Reverted" -> Len(requests[r].legs) + 1
    [] OTHER -> IF now < requests[r].settle_by THEN 0 ELSE 1

PollSettlement(r, status) ==
  LET book == Normalised(Requester(r))
      makers == OnList(book, r) \cap QuoteSlots
  IN
  \/ /\ InState(r, "Settling")
     /\ PollHeadroom(r, status) <= EventCapacity
     /\ \/ /\ status \in {"Unknown", "Pending"}
           /\ StillUnknown(r, book)
        \/ /\ status = "Settled"
           /\ Discharge(r, book, "Escrowed", {[kind |-> "RequestEscrowed", request |-> r]})
        \/ /\ status = "Reverted"
           /\ Discharge(r, book, "SettlementFailed",
                {[kind |-> "SettlementFailed", quote |-> q, maker |-> quotes[q].maker]
                   : q \in makers} \cup {[kind |-> "RequestSettlementFailed", request |-> r]})
  \/ /\ InState(r, "Settling") => PollHeadroom(r, status) > EventCapacity
     /\ Refuse(book)

-----------------------------------------------------------------------------
Times == 0..MaxTime
LegSpecs == [contract : Contracts, size : Sizes, limit : Prices]
LegLists == UNION {[1..n -> LegSpecs] : n \in 0..MaxLegs}
Views == UNION {[1..n -> Prices] : n \in LegIds}
TxStatus == {"Unknown", "Pending", "Settled", "Reverted"}

Next ==
  \/ Tick
  \/ \E a \in Accounts, amount \in Balances : CreditAccount(a, amount)
  \/ \E c \in Contracts, date \in EventDates : RegisterContract(c, date)
  \/ \E a \in Requesters, deadline \in Times, legs \in LegLists :
       SubmitRequest(a, deadline, legs)
  \/ \E r \in RequestSlots : RejectRequest(r)
  \/ /\ next_arrival < MaxArrivals
     /\ \E m \in Makers, r \in RequestSlots, l \in LegIds, price \in Prices,
           size \in Sizes, expires_at \in Times :
          SubmitQuote(m, r, l, price, size, expires_at)
  \/ \E q \in QuoteSlots : CancelQuote(q)
  \/ \E r \in RequestSlots, expected \in Views : AcceptRequest(r, expected)
  \/ \E r \in RequestSlots, status \in TxStatus : PollSettlement(r, status)

Spec == Init /\ [][Next]_vars

-----------------------------------------------------------------------------
(* Correctness *)

TypeOK ==
  /\ now \in Nat
  /\ free \in [Accounts -> Nat]
  /\ contracts \in [Contracts -> Nat \cup {Vacant}]
  /\ requests \in [RequestSlots -> Request \cup {Vacant}]
  /\ chain \in [RequestSlots -> [LegIds -> SUBSET QuoteSlots]]
  /\ published \in [RequestSlots -> [LegIds -> Nat \cup {Vacant}]]
  /\ quotes \in [QuoteSlots -> Quote \cup {Vacant}]
  /\ claims \in [Owners -> Claim \cup {Vacant}]
  /\ next_arrival \in Nat
  /\ reply.ok \in BOOLEAN

\* A claim and its owner agree (ledger.rs check_claim_state_coherence): a reserved
\* claim backs a standing quote or an open request; a committed one backs a
\* consumed quote of a settling request, or that request itself.
ReservedClaimCoherent(o) ==
  IF o \in QuoteSlots
  THEN quotes[o] # Vacant /\ quotes[o].state = "Active"
  ELSE InState(o, "Open")

CommittedClaimCoherent(o, r) ==
  /\ InState(r, "Settling")
  /\ IF o \in QuoteSlots
     THEN quotes[o] # Vacant /\ quotes[o].state = "Consumed" /\ quotes[o].request = r
     ELSE o = r

ClaimStateCoherence ==
  \A o \in Owners : claims[o] # Vacant =>
    IF claims[o].list = Vacant THEN ReservedClaimCoherent(o)
    ELSE CommittedClaimCoherent(o, claims[o].list)

\* A quote outlives neither its request's open phase nor, once it has won, its
\* request's settlement: the accept, the rejection and the terminal polls leave
\* no quote behind that a later command could fill.
QuotesFollowTheirRequest ==
  \A q \in QuoteSlots : quotes[q] # Vacant =>
    InState(quotes[q].request,
            IF quotes[q].state = "Active" THEN "Open" ELSE "Settling")

\* The leg chains and the quote slab name each other: while a request is open or
\* settling, a leg links exactly the quotes that were made on it.
LegChainsSound ==
  \A r \in RequestSlots, l \in LegIds :
    InState(r, "Open") \/ InState(r, "Settling") =>
      chain[r][l] = {q \in QuoteSlots : /\ quotes[q] # Vacant
                                        /\ quotes[q].request = r
                                        /\ quotes[q].leg = l}

\* A live quote is backed by reserved capital of exactly its maker's contribution,
\* and an open request before its deadline by its reservation: this is what lets
\* the accept's commit phase move a winner's claim without checking for it.
LiveOffersAreBacked ==
  /\ \A q \in QuoteSlots : quotes[q] # Vacant /\ Live(quotes[q]) =>
       claims[q] = Reserved(quotes[q].maker,
                     MakerContribution(requests[quotes[q].request].legs[quotes[q].leg],
                                       quotes[q].price),
                     quotes[q].expires_at)
  /\ \A r \in RequestSlots : InState(r, "Open") /\ now < requests[r].deadline =>
       claims[r] = Reserved(requests[r].requester, Reservation(requests[r].legs),
                            requests[r].deadline)

\* An accepted basket is funded in full: one winner per leg, and the capital
\* committed by makers and requester together is the notional of the basket, to
\* the unit, until settlement is known.
SettlingFullyFunded ==
  \A r \in RequestSlots : InState(r, "Settling") =>
    /\ \A l \in LegsOf(r) : Cardinality(chain[r][l]) = 1
    /\ SumFunction([o \in OnList(claims, r) |-> claims[o].amount])
         = SumFunction([l \in LegsOf(r) |-> requests[r].legs[l].size * UNIT])

\* One standing quote per maker per leg: replacement is what bounds the slab.
OneStandingQuotePerMaker ==
  \A p, q \in QuoteSlots :
    /\ quotes[p] # Vacant /\ quotes[q] # Vacant /\ p # q
    /\ quotes[p].state = "Active" /\ quotes[q].state = "Active"
    /\ quotes[p].maker = quotes[q].maker
    => <<quotes[p].request, quotes[p].leg>> # <<quotes[q].request, quotes[q].leg>>

\* The feed is never pessimistic: publishing on arrivals alone is enough for a
\* requester never to be shown a price worse than the one they would fill at.
FeedNeverPessimistic ==
  \A r \in RequestSlots : InState(r, "Open") =>
    \A l \in LegsOf(r) : \A q \in Best(quotes, chain[r][l], requests[r].legs[l]) :
      published[r][l] # Vacant /\ published[r][l] <= quotes[q].price

\* Committed capital is moved by nothing but the answer of settlement: no expiry,
\* no normalisation, no unresolved poll releases it (engine.rs poll_settlement).
CommittedUntilAnswered ==
  [][\A o \in Owners : claims[o] # Vacant /\ claims[o].list # Vacant =>
       \/ claims'[o] = claims[o]
       \/ requests'[claims[o].list].state \in {"Escrowed", "SettlementFailed"}]_vars

\* Admission never over-claims: only a mirror update can leave an account with
\* claims above its mirrored balance (ledger.rs check_reservable).
AdmissionKeepsCoverage ==
  [][\A a \in Accounts :
       free'[a] = free[a] /\ Claimed(claims, a) <= free[a]
         => Claimed(claims', a) <= free'[a]]_vars

\* No maker loses a quote in silence: a quote released by a command, or failed by
\* settlement, is named to its maker by an event of that command.
NoSilentRelease ==
  [][\A q \in QuoteSlots :
       /\ quotes[q] # Vacant /\ quotes'[q] # quotes[q]
       /\ quotes[q].state = "Active" => quotes'[q] # [quotes[q] EXCEPT !.state = "Consumed"]
       /\ quotes[q].state = "Consumed" => requests'[quotes[q].request].state # "Escrowed"
       => \E e \in reply'.events :
            "quote" \in DOMAIN e /\ e.quote = q /\ e.maker = quotes[q].maker]_vars

\* engine.rs:208 on a refused command: the post-normalisation state is untouched,
\* so requests and quotes stand and only expired claims may be gone.
RefusalMovesNothing ==
  [][~reply'.ok =>
       /\ UNCHANGED <<requests, quotes>>
       /\ \A o \in Owners : claims'[o] # claims[o] =>
            claims'[o] = Vacant /\ ClaimExpired(claims[o])]_vars

\* No command writes more events than the buffer holds: the room each one verifies
\* before it commits covers what it then pushes, and a push past the capacity is
\* dropped in release (event.rs push), though nothing relates the capacity to
\* legs times quotes per leg.
EventsFit == Cardinality(reply.events) <= EventCapacity

\* A command other than a mirror update that names account a: the requester or the
\* maker it is sent for, or the requester of the request it addresses
\* (engine.rs touched_accounts).
CommandTouching(a) ==
  \/ \E deadline \in Times, legs \in LegLists : SubmitRequest(a, deadline, legs)
  \/ \E r \in RequestSlots : a \in Requester(r) /\ RejectRequest(r)
  \/ \E m \in Makers, r \in RequestSlots, l \in LegIds, price \in Prices,
        size \in Sizes, expires_at \in Times :
       a \in {m} \cup Requester(r) /\ SubmitQuote(m, r, l, price, size, expires_at)
  \/ \E q \in QuoteSlots : quotes[q] # Vacant /\ quotes[q].maker = a /\ CancelQuote(q)
  \/ \E r \in RequestSlots, expected \in Views : a \in Requester(r) /\ AcceptRequest(r, expected)
  \/ \E r \in RequestSlots, status \in TxStatus : a \in Requester(r) /\ PollSettlement(r, status)

\* venue.rs:309, the debug assertion of the engine thread: after every command that is
\* not a mirror update, the accounts the command names are covered by the mirror.
CoveredAfterCommand ==
  [][\A a \in Accounts : CommandTouching(a) => Claimed(claims', a) <= free'[a]]_vars

\* SPEC.md:616, a quote is irrevocable until expiry: while its request is open, a
\* live quote stays, or its maker stands on the leg with one that is at least as
\* cheap and lasts at least as long.
IrrevocableUntilExpiry ==
  [][\A q \in QuoteSlots :
       /\ quotes[q] # Vacant /\ Live(quotes[q])
       /\ requests'[quotes[q].request].state = "Open"
       => \E p \in QuoteSlots :
            /\ quotes'[p] # Vacant
            /\ quotes'[p].maker = quotes[q].maker
            /\ quotes'[p].request = quotes[q].request
            /\ quotes'[p].leg = quotes[q].leg
            /\ quotes'[p].price <= quotes[q].price
            /\ quotes'[p].expires_at >= quotes[q].expires_at]_vars

\* engine.rs:88 on LegQuoteLimitReached: a leg at its limit, which refuses every
\* further maker, holds that many live quotes.
LegLimitMeansLiveQuotes ==
  \A r \in RequestSlots, l \in LegIds :
    /\ InState(r, "Open") /\ now < requests[r].deadline
    /\ Cardinality(chain[r][l]) >= MaxQuotesPerLeg
    => \A q \in chain[r][l] : Live(quotes[q])

\* known-limitations.md on a full slab: it refuses honest traffic only as long as
\* claims stand.
FullSlabHoldsClaims ==
  (\A r \in RequestSlots : requests[r] # Vacant) => \E o \in Owners : claims[o] # Vacant
=============================================================================
