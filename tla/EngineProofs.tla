---------------------------- MODULE EngineProofs ----------------------------
(***************************************************************************)
(* Theorems about the engine, for every number of accounts, slots and legs *)
(* and every configuration, in three parts: type correctness and the       *)
(* agreement between claims, quotes, legs and requests; what a leg         *)
(* promises both sides of it; what the claims add up to.                   *)
(*                                                                         *)
(* What a claim book must satisfy is stated for an arbitrary book, because *)
(* every command works on the normalised book, never on `claims` itself.   *)
(***************************************************************************)
EXTENDS Engine, Induction

BookTyped(book) == book \in [Owners -> Claim \cup {Vacant}]

BookCoherent(book) ==
  \A o \in Owners : book[o] # Vacant =>
    IF book[o].list = Vacant THEN ReservedClaimCoherent(o)
    ELSE CommittedClaimCoherent(o, book[o].list)

QuoteBacked(book, q) ==
  book[q] = Reserved(quotes[q].maker,
              MakerContribution(requests[quotes[q].request].legs[quotes[q].leg],
                                quotes[q].price),
              quotes[q].expires_at)

RequestBacked(book, r) ==
  book[r] = Reserved(requests[r].requester, Reservation(requests[r].legs),
                     requests[r].deadline)

BookBacked(book) ==
  /\ \A q \in QuoteSlots : quotes[q] # Vacant /\ Live(quotes[q]) => QuoteBacked(book, q)
  /\ \A r \in RequestSlots :
       InState(r, "Open") /\ now < requests[r].deadline => RequestBacked(book, r)

BookInv(book) == BookTyped(book) /\ BookCoherent(book) /\ BookBacked(book)

\* Quotes sit on a leg of a request that is in the matching state.
QuotesPlaced ==
  /\ QuotesFollowTheirRequest
  /\ \A q \in QuoteSlots : quotes[q] # Vacant =>
       quotes[q].leg \in LegsOf(quotes[q].request)

\* A slot no request occupies has nothing linked on its legs.
VacantLegsEmpty ==
  \A r \in RequestSlots, l \in LegIds : requests[r] = Vacant => chain[r][l] = {}

TypeRest ==
  /\ now \in Nat
  /\ free \in [Accounts -> Nat]
  /\ contracts \in [Contracts -> Nat \cup {Vacant}]
  /\ requests \in [RequestSlots -> Request \cup {Vacant}]
  /\ chain \in [RequestSlots -> [LegIds -> SUBSET QuoteSlots]]
  /\ published \in [RequestSlots -> [LegIds -> Nat \cup {Vacant}]]
  /\ quotes \in [QuoteSlots -> Quote \cup {Vacant}]
  /\ next_arrival \in Nat
  /\ reply.ok \in BOOLEAN

IInv ==
  /\ TypeRest
  /\ QuotesPlaced
  /\ LegChainsSound
  /\ VacantLegsEmpty
  /\ BookInv(claims)

-----------------------------------------------------------------------------
(* Normalisation drops only dead reserved claims, so it keeps every book   *)
(* property: a live offer's claim expires exactly when the offer does.     *)
LEMMA NormalisedBook ==
  ASSUME IInv, NEW A
  PROVE  /\ BookInv(Normalised(A))
         /\ \A o \in Owners : Normalised(A)[o] \in {Vacant, claims[o]}
<1> DEFINE book == Normalised(A)
<1>1. \A o \in Owners :
        \/ book[o] = claims[o]
        \/ /\ book[o] = Vacant
           /\ claims[o] # Vacant
           /\ claims[o].expires_at <= now
  BY DEF Normalised, ClaimExpired
<1>2. BookTyped(book)
  BY DEF IInv, BookInv, BookTyped, Normalised
<1>3. BookCoherent(book)
  BY <1>1 DEF IInv, BookInv, BookCoherent
<1>4. BookBacked(book)
  <2>1. ASSUME NEW q \in QuoteSlots, quotes[q] # Vacant, Live(quotes[q])
        PROVE  QuoteBacked(book, q)
    <3>1. QuoteBacked(claims, q)
      BY <2>1 DEF IInv, BookInv, BookBacked
    <3>2. claims[q].expires_at = quotes[q].expires_at
      BY <3>1 DEF QuoteBacked, Reserved
    <3>3. now < claims[q].expires_at /\ now \in Nat /\ quotes[q].expires_at \in Nat
      BY <2>1, <3>2 DEF Live, IInv, TypeRest, Quote
    <3>4. book[q] = claims[q]
      BY <1>1, <3>2, <3>3 DEF Owners
    <3> QED BY <3>1, <3>4 DEF QuoteBacked
  <2>2. ASSUME NEW r \in RequestSlots, InState(r, "Open"), now < requests[r].deadline
        PROVE  RequestBacked(book, r)
    <3>1. RequestBacked(claims, r)
      BY <2>2 DEF IInv, BookInv, BookBacked
    <3>2. claims[r].expires_at = requests[r].deadline
      BY <3>1 DEF RequestBacked, Reserved
    <3>3. now < claims[r].expires_at /\ now \in Nat /\ requests[r].deadline \in Nat
      BY <2>2, <3>2 DEF InState, IInv, TypeRest, Request
    <3>4. book[r] = claims[r]
      BY <1>1, <3>2, <3>3 DEF Owners
    <3> QED BY <3>1, <3>4 DEF RequestBacked
  <2> QED BY <2>1, <2>2 DEF BookBacked
<1> QED BY <1>1, <1>2, <1>3, <1>4 DEF BookInv

(* A refused command leaves the normalised state, which is as good. *)
LEMMA RefuseStep ==
  ASSUME IInv, NEW book, BookInv(book), Refuse(book)
  PROVE  IInv'
<1>1. TypeRest'
  BY DEF IInv, TypeRest, Refuse, Refused
<1>2. QuotesPlaced' /\ LegChainsSound' /\ VacantLegsEmpty'
  BY DEF IInv, Refuse, QuotesPlaced, QuotesFollowTheirRequest, LegChainsSound,
         VacantLegsEmpty, InState, LegsOf
<1>3. BookInv(claims)'
  BY DEF Refuse, BookInv, BookTyped, BookCoherent, BookBacked, ReservedClaimCoherent,
         CommittedClaimCoherent, QuoteBacked, RequestBacked, InState, Live
<1> QED BY <1>1, <1>2, <1>3 DEF IInv

(* Time alone kills offers and never gives them a claim: a live offer was   *)
(* live a tick earlier.                                                     *)
LEMMA TickStep == ASSUME IInv, Tick PROVE IInv'
<1>1. TypeRest'
  BY DEF IInv, TypeRest, Tick, Accepted
<1>2. QuotesPlaced' /\ LegChainsSound' /\ VacantLegsEmpty'
  BY DEF IInv, Tick, QuotesPlaced, QuotesFollowTheirRequest, LegChainsSound,
         VacantLegsEmpty, InState, LegsOf
<1>3. BookTyped(claims)' /\ BookCoherent(claims)'
  BY DEF IInv, Tick, BookInv, BookTyped, BookCoherent, ReservedClaimCoherent,
         CommittedClaimCoherent, InState
<1>4. BookBacked(claims)'
  <2>1. \A t \in Nat : now' < t => now < t
    BY DEF Tick, IInv, TypeRest
  <2> QED
    BY <2>1 DEF IInv, TypeRest, BookInv, BookBacked, Tick, QuoteBacked, RequestBacked,
                Live, InState, Quote, Request
<1> QED BY <1>1, <1>2, <1>3, <1>4 DEF IInv, BookInv

(* A mirror update moves no claim but the dead ones it normalises away.     *)
LEMMA CreditStep ==
  ASSUME IInv, NEW a \in Accounts, NEW amount \in Nat, CreditAccount(a, amount)
  PROVE  IInv'
<1> DEFINE book == Normalised({a})
<1>0. BookInv(book)
  BY NormalisedBook
<1>1. TypeRest'
  BY DEF IInv, TypeRest, CreditAccount, Accepted
<1>2. QuotesPlaced' /\ LegChainsSound' /\ VacantLegsEmpty'
  BY DEF IInv, CreditAccount, QuotesPlaced, QuotesFollowTheirRequest, LegChainsSound,
         VacantLegsEmpty, InState, LegsOf
<1>3. BookInv(claims)'
  <2> HIDE DEF book
  <2>1. claims' = book /\ UNCHANGED <<now, quotes, requests>>
    BY DEF CreditAccount, book
  <2> QED
    BY <1>0, <2>1 DEF BookInv, BookTyped, BookCoherent, BookBacked, ReservedClaimCoherent,
                      CommittedClaimCoherent, QuoteBacked, RequestBacked, InState, Live
<1> QED BY <1>1, <1>2, <1>3 DEF IInv

(* Registering a contract touches no claim, and no event date is forgotten. *)
LEMMA RegisterStep ==
  ASSUME IInv, NEW c \in Contracts, NEW date \in Nat, RegisterContract(c, date)
  PROVE  IInv'
<1>1. CASE contracts[c] \notin {Vacant, date}
  BY <1>1, RefuseStep DEF RegisterContract, IInv
<1>2. CASE contracts[c] \in {Vacant, date}
  <2>2. /\ contracts' = [contracts EXCEPT ![c] = date]
        /\ reply' = [ok |-> TRUE, events |-> {}]
        /\ UNCHANGED <<now, free, requests, chain, published, quotes, claims, next_arrival>>
    BY <1>2 DEF RegisterContract, Accepted
  <2>1. TypeRest'
    BY <2>2 DEF IInv, TypeRest
  <2>3. QuotesPlaced' /\ LegChainsSound' /\ VacantLegsEmpty'
    BY <2>2 DEF IInv, QuotesPlaced, QuotesFollowTheirRequest, LegChainsSound,
                VacantLegsEmpty, InState, LegsOf
  <2>4. BookInv(claims)'
    BY <2>2 DEF IInv, BookInv, BookTyped, BookCoherent, BookBacked, ReservedClaimCoherent,
                CommittedClaimCoherent, QuoteBacked, RequestBacked, InState, Live
  <2> QED BY <2>1, <2>3, <2>4 DEF IInv
<1> QED BY <1>1, <1>2

-----------------------------------------------------------------------------
(* submit_request: a free slot gains a request and the claim that backs it, *)
(* and starts with empty legs.                                             *)
LEMMA SubmitRequestStep ==
  ASSUME IInv, NEW a \in Accounts, NEW deadline \in Nat, NEW legs \in Seq(LegSpec),
         SubmitRequest(a, deadline, legs)
  PROVE  IInv'
<1> DEFINE book == Normalised({a})
<1>0. BookInv(book) /\ \A o \in Owners : book[o] \in {Vacant, claims[o]}
  BY NormalisedBook
<1>1. CASE Refuse(book)
  BY <1>0, <1>1, RefuseStep
<1>2. ASSUME NEW r \in RequestSlots, OpenRequest(r, a, deadline, legs, book),
             legs \in Basket
      PROVE  IInv'
  <2> HIDE DEF book
  <2>1. PICK amount \in 0..free[a] :
          /\ amount = Reservation(legs)
          /\ requests[r] = Vacant
          /\ requests' = [requests EXCEPT ![r] =
               [requester |-> a, deadline |-> deadline, legs |-> legs,
                state |-> "Open", settle_by |-> 0]]
          /\ claims' = [book EXCEPT ![r] = Reserved(a, amount, deadline)]
          /\ reply' = [ok |-> TRUE, events |-> {[kind |-> "RequestOpened", request |-> r]}]
          /\ UNCHANGED <<now, free, contracts, chain, published, quotes, next_arrival>>
    BY <1>2 DEF OpenRequest, Accepted
  <2>2. requests'[r] \in Request /\ requests'[r].state = "Open"
        /\ requests'[r].requester = a /\ requests'[r].deadline = deadline
        /\ requests'[r].legs = legs
    BY <1>2, <2>1 DEF IInv, TypeRest, Request, RequestState
  <2>3. \A s \in RequestSlots : s # r => requests'[s] = requests[s]
    BY <2>1 DEF IInv, TypeRest
  <2>4. amount \in Nat
    BY <2>1 DEF IInv, TypeRest
  <2>5. r \in Owners /\ Reserved(a, amount, deadline) \in Claim
    BY <2>4 DEF Owners, Reserved, Claim
  <2>6. claims'[r] = Reserved(a, amount, deadline)
        /\ \A o \in Owners : o # r => claims'[o] = book[o]
    BY <2>1, <2>5, <1>0 DEF BookInv, BookTyped
  <2>7. requests[r] # requests'[r] /\ requests'[r] # Vacant
    BY <2>1, <2>2, VacantIsNoValue
  <2>8. TypeRest'
    <3>1. requests' \in [RequestSlots -> Request \cup {Vacant}]
      BY <2>1, <2>2 DEF IInv, TypeRest
    <3> QED BY <2>1, <3>1 DEF IInv, TypeRest
  <2>9. \A q \in QuoteSlots : quotes[q] # Vacant => quotes[q].request # r
                                 /\ quotes[q].request \in RequestSlots
    BY <2>1 DEF IInv, QuotesPlaced, QuotesFollowTheirRequest, InState, TypeRest, Quote
  <2>10. QuotesPlaced'
    BY <2>1, <2>3, <2>9 DEF IInv, QuotesPlaced, QuotesFollowTheirRequest, InState, LegsOf
  <2>11. LegChainsSound' /\ VacantLegsEmpty'
    BY <2>1, <2>3, <2>7, <2>9 DEF IInv, LegChainsSound, VacantLegsEmpty, InState
  <2>12. BookTyped(claims)'
    BY <2>1, <2>5, <1>0 DEF BookInv, BookTyped
  <2>13. BookCoherent(claims)'
    <3> SUFFICES ASSUME NEW o \in Owners, claims'[o] # Vacant
                 PROVE  IF claims'[o].list = Vacant THEN ReservedClaimCoherent(o)'
                        ELSE CommittedClaimCoherent(o, claims[o].list)'
      BY DEF BookCoherent
    <3>1. CASE o = r
      BY <3>1, <2>2, <2>6, <2>7, EngineConstants
         DEF Reserved, ReservedClaimCoherent, InState, Owners
    <3>2. CASE o # r
      <4>1. claims'[o] = book[o] /\ book[o] # Vacant
        BY <3>2, <2>6
      <4>2. IF book[o].list = Vacant THEN ReservedClaimCoherent(o)
            ELSE CommittedClaimCoherent(o, book[o].list)
        BY <1>0, <4>1 DEF BookInv, BookCoherent
      <4>3. book[o] \in Claim
        BY <1>0, <4>1 DEF BookInv, BookTyped
      <4>4. CASE book[o].list = Vacant
        BY <3>2, <4>1, <4>2, <4>4, <2>1, <2>3 DEF ReservedClaimCoherent, InState, Owners
      <4>5. CASE book[o].list # Vacant
        <5>1. book[o].list \in RequestSlots
          BY <4>3, <4>5 DEF Claim
        <5>2. book[o].list # r
          BY <4>2, <4>5, <2>1 DEF CommittedClaimCoherent, InState
        <5> QED BY <4>1, <4>2, <4>5, <5>1, <5>2, <2>1, <2>3
                   DEF CommittedClaimCoherent, InState
      <4> QED BY <4>4, <4>5
    <3> QED BY <3>1, <3>2
  <2>14. BookBacked(claims)'
    <3>1. ASSUME NEW q \in QuoteSlots, quotes'[q] # Vacant, Live(quotes[q])'
          PROVE  QuoteBacked(claims, q)'
      <4>1. QuoteBacked(book, q)
        BY <3>1, <1>0, <2>1 DEF BookInv, BookBacked, Live
      <4>2. claims'[q] = book[q]
        BY <2>6, EngineConstants DEF Owners
      <4>3. requests'[quotes[q].request] = requests[quotes[q].request]
        BY <2>3, <2>9, <3>1, <2>1
      <4> QED BY <4>1, <4>2, <4>3, <2>1 DEF QuoteBacked
    <3>2. ASSUME NEW s \in RequestSlots, InState(s, "Open")', now' < requests'[s].deadline
          PROVE  RequestBacked(claims, s)'
      <4>1. CASE s = r
        BY <4>1, <2>1, <2>2, <2>6 DEF RequestBacked
      <4>2. CASE s # r
        <5>1. RequestBacked(book, s)
          BY <3>2, <4>2, <2>1, <2>3, <1>0 DEF BookInv, BookBacked, InState
        <5> QED BY <5>1, <4>2, <2>3, <2>6 DEF RequestBacked, Owners
      <4> QED BY <4>1, <4>2
    <3> QED BY <3>1, <3>2 DEF BookBacked
  <2> QED BY <2>8, <2>10, <2>11, <2>12, <2>13, <2>14 DEF IInv, BookInv
<1> QED BY <1>1, <1>2 DEF SubmitRequest, RequestAdmissible, Basket

-----------------------------------------------------------------------------
(* Emptying quote slots and their claims together, and moving r out of the *)
(* open state, is what a rejection does.                                   *)
LEMMA RejectStep ==
  ASSUME IInv, NEW r \in RequestSlots, RejectRequest(r)
  PROVE  IInv'
<1> DEFINE book == Normalised(Requester(r))
           gone == LinkedOn(r)
<1>0. BookInv(book) /\ \A o \in Owners : book[o] \in {Vacant, claims[o]}
  BY NormalisedBook
<1>1. CASE Refuse(book)
  BY <1>0, <1>1, RefuseStep
<1>2. ASSUME InState(r, "Open"),
             quotes' = Without(quotes, gone),
             claims' = Without(book, gone \cup {r}),
             chain' = [chain EXCEPT ![r] = [l \in LegIds |-> {}]],
             requests' = [requests EXCEPT ![r].state = "Rejected"],
             reply' = [ok |-> TRUE, events |-> Notices(gone, "RequestRejected")],
             UNCHANGED <<now, free, contracts, published, next_arrival>>
      PROVE  IInv'
  <2>1. \A q \in QuoteSlots :
          q \in gone <=> quotes[q] # Vacant /\ quotes[q].request = r
    BY <1>2 DEF IInv, TypeRest, LegChainsSound, LinkedOn, Quote
  <2>2. requests[r] \in Request
    BY <1>2 DEF IInv, TypeRest, InState
  <2>3. requests'[r] \in Request /\ requests'[r].state = "Rejected"
        /\ \A s \in RequestSlots : s # r => requests'[s] = requests[s]
    BY <1>2, <2>2 DEF IInv, TypeRest, Request, RequestState
  <2>4. \A q \in QuoteSlots : quotes'[q] = IF q \in gone THEN Vacant ELSE quotes[q]
    BY <1>2 DEF Without, IInv, TypeRest
  <2> HIDE DEF book, gone
  <2>5. \A o \in Owners : claims'[o] = IF o \in gone \cup {r} THEN Vacant ELSE book[o]
    BY <1>2, <1>0 DEF Without, BookInv, BookTyped
  <2>6. TypeRest'
    <3>1. requests' \in [RequestSlots -> Request \cup {Vacant}]
      BY <1>2, <2>3 DEF IInv, TypeRest
    <3>2. quotes' \in [QuoteSlots -> Quote \cup {Vacant}]
      BY <1>2 DEF IInv, TypeRest, Without
    <3>3. chain' \in [RequestSlots -> [LegIds -> SUBSET QuoteSlots]]
      BY <1>2 DEF IInv, TypeRest
    <3> QED BY <1>2, <3>1, <3>2, <3>3 DEF IInv, TypeRest
  <2>7. \A q \in QuoteSlots : quotes'[q] # Vacant =>
          /\ quotes'[q] = quotes[q] /\ q \notin gone
          /\ quotes[q].request \in RequestSlots /\ quotes[q].request # r
          /\ requests'[quotes[q].request] = requests[quotes[q].request]
    BY <2>1, <2>3, <2>4 DEF IInv, TypeRest, Quote
  <2>8. QuotesPlaced'
    BY <2>7 DEF IInv, QuotesPlaced, QuotesFollowTheirRequest, InState, LegsOf
  <2>9. LegChainsSound'
    <3> SUFFICES ASSUME NEW s \in RequestSlots, NEW l \in LegIds,
                        (InState(s, "Open") \/ InState(s, "Settling"))'
                 PROVE  (chain[s][l] = {q \in QuoteSlots : /\ quotes[q] # Vacant
                                                           /\ quotes[q].request = s
                                                           /\ quotes[q].leg = l})'
      BY DEF LegChainsSound
    <3>1. s # r
      BY <2>3 DEF InState
    <3>2. chain'[s] = chain[s] /\ requests'[s] = requests[s]
      BY <3>1, <2>3, <1>2 DEF IInv, TypeRest
    <3>3. chain[s][l] = {q \in QuoteSlots : /\ quotes[q] # Vacant
                                            /\ quotes[q].request = s
                                            /\ quotes[q].leg = l}
      BY <3>2 DEF IInv, LegChainsSound, InState
    <3> QED BY <3>1, <3>2, <3>3, <2>1, <2>4
  <2>10. VacantLegsEmpty'
    BY <1>2, <2>3, VacantIsNoValue DEF IInv, TypeRest, VacantLegsEmpty
  <2>11. BookTyped(claims)'
    BY <1>0, <1>2 DEF BookInv, BookTyped, Without
  <2>12. BookCoherent(claims)'
    <3> SUFFICES ASSUME NEW o \in Owners, claims'[o] # Vacant
                 PROVE  IF claims'[o].list = Vacant THEN ReservedClaimCoherent(o)'
                        ELSE CommittedClaimCoherent(o, claims[o].list)'
      BY DEF BookCoherent
    <3>1. claims'[o] = book[o] /\ o \notin gone /\ o # r
      BY <2>5
    <3>2. IF book[o].list = Vacant THEN ReservedClaimCoherent(o)
          ELSE CommittedClaimCoherent(o, book[o].list)
      BY <1>0, <3>1 DEF BookInv, BookCoherent
    <3>3. book[o] \in Claim
      BY <1>0, <3>1 DEF BookInv, BookTyped
    <3>4. CASE book[o].list = Vacant
      BY <3>1, <3>2, <3>4, <2>3, <2>4 DEF ReservedClaimCoherent, InState, Owners
    <3>5. CASE book[o].list # Vacant
      <4>1. book[o].list \in RequestSlots
        BY <3>3, <3>5 DEF Claim
      <4>2. book[o].list # r
        BY <3>2, <3>5, <1>2 DEF CommittedClaimCoherent, InState
      <4> QED BY <3>1, <3>2, <3>5, <4>1, <4>2, <2>3, <2>4
                 DEF CommittedClaimCoherent, InState
    <3> QED BY <3>4, <3>5
  <2>13. BookBacked(claims)'
    <3>1. ASSUME NEW q \in QuoteSlots, quotes'[q] # Vacant, Live(quotes[q])'
          PROVE  QuoteBacked(claims, q)'
      <4>1. QuoteBacked(book, q)
        BY <3>1, <1>0, <2>7, <1>2 DEF BookInv, BookBacked, Live
      <4>2. claims'[q] = book[q]
        BY <2>5, <2>7, <3>1, EngineConstants DEF Owners
      <4> QED BY <4>1, <4>2, <2>7, <3>1 DEF QuoteBacked
    <3>2. ASSUME NEW s \in RequestSlots, InState(s, "Open")', now' < requests'[s].deadline
          PROVE  RequestBacked(claims, s)'
      <4>1. s # r /\ requests'[s] = requests[s]
        BY <3>2, <2>3 DEF InState
      <4>2. RequestBacked(book, s)
        BY <3>2, <4>1, <1>2, <1>0 DEF BookInv, BookBacked, InState
      <4>3. s \notin gone
        BY EngineConstants DEF gone, LinkedOn, IInv, TypeRest
      <4> QED BY <4>1, <4>2, <4>3, <2>5 DEF RequestBacked, Owners
    <3> QED BY <3>1, <3>2 DEF BookBacked
  <2> QED BY <2>6, <2>8, <2>9, <2>10, <2>11, <2>12, <2>13 DEF IInv, BookInv
<1> QED BY <1>1, <1>2 DEF RejectRequest, RejectAdmissible, Accepted

-----------------------------------------------------------------------------
(* Standing quotes go and at most one new quote comes, on one leg of an    *)
(* open request: both outcomes of an admitted quote have this shape.       *)
Exchange(r, l, old, added, quote, claim, book) ==
  /\ InState(r, "Open") /\ l \in LegsOf(r)
  /\ old \subseteq chain[r][l] /\ added \subseteq QuoteSlots
  /\ \A q \in old : quotes[q].state = "Active"
  /\ \A q \in added : q \in old \/ quotes[q] = Vacant
  /\ quote \in Quote
  /\ quote.request = r /\ quote.leg = l /\ quote.state = "Active"
  /\ claim \in Claim
  /\ claim = Reserved(quote.maker, MakerContribution(requests[r].legs[l], quote.price),
                      quote.expires_at)
  /\ BookInv(book)
  /\ now' = now /\ requests' = requests
  /\ chain' = [chain EXCEPT ![r][l] = (chain[r][l] \ old) \cup added]
  /\ \A q \in QuoteSlots : quotes'[q] =
       IF q \in added THEN quote ELSE IF q \in old THEN Vacant ELSE quotes[q]
  /\ claims' \in [Owners -> Claim \cup {Vacant}]
  /\ \A o \in Owners : claims'[o] =
       IF o \in added THEN claim ELSE IF o \in old THEN Vacant ELSE book[o]

(* Replacing a standing quote by another one on the same leg: quote, claim  *)
(* and link are exchanged together, so nothing is left unbacked or unlinked. *)
LEMMA ExchangeStep ==
  ASSUME IInv, TypeRest',
         NEW r \in RequestSlots, NEW l \in LegIds, NEW old, NEW added,
         NEW quote, NEW claim, NEW book, Exchange(r, l, old, added, quote, claim, book)
  PROVE  IInv'
<1> USE DEF Exchange
<1>0. r # Vacant /\ quote # Vacant /\ claim # Vacant /\ claim.list = Vacant
  BY VacantIsNoValue DEF Reserved
<1>1. /\ \A q \in old : quotes[q] # Vacant /\ quotes[q].request = r /\ quotes[q].leg = l
      /\ old \subseteq QuoteSlots
  BY DEF IInv, TypeRest, LegChainsSound
<1>2. QuotesPlaced'
  BY <1>1, <1>0 DEF IInv, QuotesPlaced, QuotesFollowTheirRequest, InState, LegsOf
<1>3. LegChainsSound'
  <2> SUFFICES ASSUME NEW s \in RequestSlots, NEW k \in LegIds,
                      (InState(s, "Open") \/ InState(s, "Settling"))'
               PROVE  (chain[s][k] = {q \in QuoteSlots : /\ quotes[q] # Vacant
                                                         /\ quotes[q].request = s
                                                         /\ quotes[q].leg = k})'
    BY DEF LegChainsSound
  <2>1. chain[s][k] = {q \in QuoteSlots : /\ quotes[q] # Vacant
                                          /\ quotes[q].request = s
                                          /\ quotes[q].leg = k}
    BY DEF IInv, LegChainsSound, InState
  <2>2. CASE s = r /\ k = l
    <3>1. chain'[s][k] = (chain[r][l] \ old) \cup added
      BY <2>2 DEF IInv, TypeRest
    <3> QED BY <2>1, <2>2, <3>1, <1>0, <1>1
  <2>3. CASE ~(s = r /\ k = l)
    <3>1. chain'[s][k] = chain[s][k]
      BY <2>3 DEF IInv, TypeRest
    <3> QED BY <2>1, <2>3, <3>1, <1>0, <1>1
  <2> QED BY <2>2, <2>3
<1>4. VacantLegsEmpty'
  BY DEF IInv, TypeRest, VacantLegsEmpty, InState
<1>5. BookTyped(claims)'
  BY DEF BookTyped
<1>6. BookCoherent(claims)'
  <2> SUFFICES ASSUME NEW o \in Owners, claims'[o] # Vacant
               PROVE  IF claims'[o].list = Vacant THEN ReservedClaimCoherent(o)'
                      ELSE CommittedClaimCoherent(o, claims[o].list)'
    BY DEF BookCoherent
  <2>1. CASE o \in added
    BY <2>1, <1>0 DEF ReservedClaimCoherent
  <2>2. CASE o \notin added
    <3>1. claims'[o] = book[o] /\ o \notin old
      BY <2>2
    <3>2. IF book[o].list = Vacant THEN ReservedClaimCoherent(o)
          ELSE CommittedClaimCoherent(o, book[o].list)
      BY <3>1 DEF BookInv, BookCoherent
    <3>3. o \in QuoteSlots => quotes'[o] = quotes[o]
      BY <2>2, <3>1
    <3> QED BY <3>1, <3>2, <3>3
               DEF ReservedClaimCoherent, CommittedClaimCoherent, InState
  <2> QED BY <2>1, <2>2
<1>7. BookBacked(claims)'
  <2>1. ASSUME NEW q \in QuoteSlots, quotes'[q] # Vacant, Live(quotes[q])'
        PROVE  QuoteBacked(claims, q)'
    <3>1. CASE q \in added
      BY <3>1 DEF QuoteBacked, Owners
    <3>2. CASE q \notin added
      <4>1. q \notin old /\ quotes'[q] = quotes[q]
        BY <3>2, <2>1
      <4>2. QuoteBacked(book, q)
        BY <4>1, <2>1 DEF BookInv, BookBacked, Live
      <4> QED BY <4>1, <4>2, <3>2 DEF QuoteBacked, Owners
    <3> QED BY <3>1, <3>2
  <2>2. ASSUME NEW s \in RequestSlots, InState(s, "Open")', now' < requests'[s].deadline
        PROVE  RequestBacked(claims, s)'
    <3>1. RequestBacked(book, s)
      BY <2>2 DEF BookInv, BookBacked, InState
    <3>2. s \notin added /\ s \notin old
      BY <1>1, EngineConstants
    <3> QED BY <3>1, <3>2 DEF RequestBacked, Owners
  <2> QED BY <2>1, <2>2 DEF BookBacked
<1> QED BY <1>2, <1>3, <1>4, <1>5, <1>6, <1>7 DEF IInv, BookInv

-----------------------------------------------------------------------------
(* A price within UNIT leaves the maker a contribution that is no debt.     *)
LEMMA ContributionType ==
  ASSUME NEW leg \in LegSpec, NEW price \in Nat, price <= UNIT
  PROVE  MakerContribution(leg, price) \in Nat
<1>1. leg.size \in Nat /\ UNIT - price \in Nat
  BY EngineConstants DEF LegSpec
<1>2. \A a, b \in Nat : a * b \in Nat
  OBVIOUS
<1> QED BY <1>1, <1>2 DEF MakerContribution

(* What a leg publishes is the price of a quote, or what it published last. *)
LEMMA PublishedPriceType ==
  ASSUME NEW slab \in [QuoteSlots -> Quote \cup {Vacant}], NEW linked \in SUBSET QuoteSlots,
         \A q \in linked : slab[q] # Vacant,
         NEW leg, NEW old \in Nat \cup {Vacant}
  PROVE  PublishedPrice(slab, linked, leg, old) \in Nat \cup {Vacant}
<1>1. Best(slab, linked, leg) \subseteq linked
  BY DEF Best, Eligible
<1>2. CASE Best(slab, linked, leg) = {}
  BY <1>2 DEF PublishedPrice
<1>3. CASE Best(slab, linked, leg) # {}
  <2> DEFINE q == CHOOSE q \in Best(slab, linked, leg) : TRUE
  <2>1. q \in linked
    BY <1>1, <1>3
  <2>2. slab[q] \in Quote
    BY <2>1
  <2>3. slab[q].price \in Nat
    BY <2>2 DEF Quote
  <2> QED BY <1>3, <2>3 DEF PublishedPrice
<1> QED BY <1>2, <1>3

(* submit_quote: an exchange when it is admitted and fits; the bare release *)
(* of the standing quote when the last step refuses.                        *)
LEMMA SubmitQuoteStep ==
  ASSUME IInv, NEW m \in Accounts, NEW r \in RequestSlots, NEW l \in LegIds,
         NEW price \in Nat, NEW size \in Nat, NEW expires_at \in Nat,
         SubmitQuote(m, r, l, price, size, expires_at)
  PROVE  IInv'
<1> DEFINE book == Normalised({m} \cup Requester(r))
           old == StandingQuote(r, l, m)
           slab == Without(quotes, old)
           book2 == Without(book, old)
           linked == chain[r][l] \ old
           amount == MakerContribution(requests[r].legs[l], price)
           quote == [maker |-> m, request |-> r, leg |-> l, price |-> price,
                     size |-> size, expires_at |-> expires_at,
                     arrival |-> next_arrival, state |-> "Active"]
<1>0. BookInv(book)
  BY NormalisedBook
<1>1. CASE Refuse(book)
  BY <1>0, <1>1, RefuseStep
<1>2. ASSUME QuoteAdmissible(m, r, l, price, size, expires_at),
             ReplaceAndOpen(m, r, l, price, size, expires_at, old)
      PROVE  IInv'
  <2>1. InState(r, "Open") /\ l \in LegsOf(r) /\ price <= UNIT
    BY <1>2 DEF QuoteAdmissible
  <2>2. requests[r].legs[l] \in LegSpec
    BY <2>1 DEF IInv, TypeRest, InState, Request, Basket, LegsOf
  <2>3. amount \in Nat
    BY <2>1, <2>2, ContributionType
  <2>4. quote \in Quote
    BY DEF Quote, IInv, TypeRest
  <2>5. old \subseteq chain[r][l] /\ \A q \in old : quotes[q].state = "Active"
    BY DEF StandingQuote
  <2>6. Reserved(m, amount, expires_at) \in Claim
    BY <2>3 DEF Reserved, Claim
  <2>7. slab \in [QuoteSlots -> Quote \cup {Vacant}]
        /\ \A q \in QuoteSlots : slab[q] = IF q \in old THEN Vacant ELSE quotes[q]
    BY DEF IInv, TypeRest, Without
  <2>8. book2 \in [Owners -> Claim \cup {Vacant}]
        /\ \A o \in Owners : book2[o] = IF o \in old THEN Vacant ELSE book[o]
    BY <1>0 DEF BookInv, BookTyped, Without
  <2>9. chain[r][l] \subseteq QuoteSlots
    BY DEF IInv, TypeRest
  <2>10. \A q \in chain[r][l] : quotes[q] # Vacant
    BY <2>1 DEF IInv, LegChainsSound
  <2> HIDE DEF book, old, slab, book2, amount
  <2>11. next_arrival' = next_arrival + 1 /\ UNCHANGED <<now, free, contracts, requests>>
    BY <1>2 DEF ReplaceAndOpen
  <2>12. CASE /\ ~QuoteFits(m, amount, slab, book2)
              /\ quotes' = slab
              /\ claims' = book2
              /\ chain' = [chain EXCEPT ![r][l] = linked]
              /\ \E e : reply' = [ok |-> FALSE, events |-> e]
              /\ UNCHANGED published
    <3>1. TypeRest'
      <4>1. chain' \in [RequestSlots -> [LegIds -> SUBSET QuoteSlots]]
        BY <2>12, <2>9 DEF IInv, TypeRest
      <4>2. reply'.ok \in BOOLEAN
        BY <2>12
      <4>3. quotes' \in [QuoteSlots -> Quote \cup {Vacant}]
        BY <2>12, <2>7
      <4> QED BY <4>1, <4>2, <4>3, <2>12, <2>11 DEF IInv, TypeRest
    <3>2. chain' = [chain EXCEPT ![r][l] = (chain[r][l] \ old) \cup {}]
      BY <2>12
    <3> DEFINE claim == Reserved(m, amount, expires_at)
    <3>3. claim = Reserved(quote.maker,
            MakerContribution(requests[r].legs[l], quote.price), quote.expires_at)
      BY DEF amount
    <3> HIDE DEF claim
    <3>4. claim \in Claim
      BY <2>6 DEF claim
    <3>5. \A q \in QuoteSlots : quotes'[q] =
            IF q \in {} THEN quote ELSE IF q \in old THEN Vacant ELSE quotes[q]
      BY <2>7, <2>12
    <3>6. claims' \in [Owners -> Claim \cup {Vacant}] /\ \A o \in Owners : claims'[o] =
            IF o \in {} THEN claim ELSE IF o \in old THEN Vacant ELSE book[o]
      BY <2>8, <2>12
    <3>7. quote.request = r /\ quote.leg = l /\ quote.state = "Active"
      OBVIOUS
    <3>8. Exchange(r, l, old, {}, quote, claim, book)
      <4> HIDE DEF quote
      <4> QED
        BY <3>2, <3>3, <3>4, <3>5, <3>6, <3>7, <2>1, <2>4, <2>5, <2>11, <1>0 DEF Exchange
    <3> QED BY <3>1, <3>8, ExchangeStep
  <2>13. ASSUME NEW q \in QuoteSlots, slab[q] = Vacant,
                OpenQuote(q, quote, amount, slab, book2, linked),
                \E e : reply' = [ok |-> TRUE, events |-> e]
         PROVE  IInv'
    <3> DEFINE slab2 == [slab EXCEPT ![q] = quote]
               paper == PublishedPrice(slab2, linked \cup {q}, requests[r].legs[l],
                                       published[r][l])
    <3>1. /\ quotes' = slab2
          /\ claims' = [book2 EXCEPT ![q] = Reserved(m, amount, expires_at)]
          /\ chain' = [chain EXCEPT ![r][l] = linked \cup {q}]
          /\ published' = [published EXCEPT ![r][l] = paper]
      BY <2>13 DEF OpenQuote, Link
    <3>2. slab2 \in [QuoteSlots -> Quote \cup {Vacant}]
          /\ slab2[q] = quote /\ \A p \in QuoteSlots : p # q => slab2[p] = slab[p]
      BY <2>7, <2>4
    <3>3. linked \cup {q} \subseteq QuoteSlots
          /\ \A p \in linked \cup {q} : slab2[p] # Vacant
      BY <3>2, <2>4, <2>7, <2>9, <2>10, VacantIsNoValue
    <3>4. paper \in Nat \cup {Vacant}
      <4>1. published[r][l] \in Nat \cup {Vacant}
        BY DEF IInv, TypeRest
      <4> HIDE DEF slab2
      <4> QED BY <3>2, <3>3, <4>1, PublishedPriceType
    <3>5. TypeRest'
      <4>1. chain' \in [RequestSlots -> [LegIds -> SUBSET QuoteSlots]]
        BY <3>1, <3>3 DEF IInv, TypeRest
      <4>2. published' \in [RequestSlots -> [LegIds -> Nat \cup {Vacant}]]
        BY <3>1, <3>4 DEF IInv, TypeRest
      <4>3. reply'.ok \in BOOLEAN
        BY <2>13
      <4>4. quotes' \in [QuoteSlots -> Quote \cup {Vacant}]
        BY <3>1, <3>2
      <4> QED BY <4>1, <4>2, <4>3, <4>4, <2>11 DEF IInv, TypeRest
    <3> DEFINE claim == Reserved(m, amount, expires_at)
               added == {q}
    <3>6. added \subseteq QuoteSlots /\ \A p \in added : p \in old \/ quotes[p] = Vacant
      BY <2>13, <2>7
    <3>7. \A p \in QuoteSlots : quotes'[p] =
            IF p \in added THEN quote ELSE IF p \in old THEN Vacant ELSE quotes[p]
      BY <3>1, <3>2, <2>7
    <3>8. claims' \in [Owners -> Claim \cup {Vacant}] /\ \A o \in Owners : claims'[o] =
            IF o \in added THEN claim ELSE IF o \in old THEN Vacant ELSE book[o]
      BY <3>1, <2>6, <2>8 DEF Owners
    <3>9. chain' = [chain EXCEPT ![r][l] = (chain[r][l] \ old) \cup added]
      BY <3>1
    <3>10. claim = Reserved(quote.maker,
             MakerContribution(requests[r].legs[l], quote.price), quote.expires_at)
      BY DEF amount
    <3>11. quote.request = r /\ quote.leg = l /\ quote.state = "Active"
      OBVIOUS
    <3>12. claim \in Claim
      BY <2>6
    <3>13. Exchange(r, l, old, added, quote, claim, book)
      <4> HIDE DEF added, claim, quote
      <4> QED
        BY <3>6, <3>7, <3>8, <3>9, <3>10, <3>11, <3>12, <2>1, <2>4, <2>5, <2>11, <1>0
           DEF Exchange
    <3> QED BY <3>5, <3>13, ExchangeStep
  <2> QED
    <3>1. CASE QuoteFits(m, amount, slab, book2)
      <4>1. PICK q \in QuoteSlots :
              slab[q] = Vacant /\ OpenQuote(q, quote, amount, slab, book2, linked)
        BY <1>2, <3>1 DEF ReplaceAndOpen, slab, book2, amount, old, book
      <4>2. \E e : reply' = [ok |-> TRUE, events |-> e]
        BY <1>2, <3>1 DEF ReplaceAndOpen, Accepted, slab, book2, amount, old, book
      <4> QED BY <4>1, <4>2, <2>13
    <3>2. CASE ~QuoteFits(m, amount, slab, book2)
      <4>1. /\ quotes' = slab
            /\ claims' = book2
            /\ chain' = [chain EXCEPT ![r][l] = linked]
            /\ UNCHANGED published
        BY <1>2, <3>2 DEF ReplaceAndOpen, slab, book2, amount, old, book
      <4>2. \E e : reply' = [ok |-> FALSE, events |-> e]
        BY <1>2, <3>2 DEF ReplaceAndOpen, Refused, slab, book2, amount, old, book
      <4> QED BY <3>2, <4>1, <4>2, <2>12
    <3> QED BY <3>1, <3>2
<1> QED BY <1>1, <1>2 DEF SubmitQuote

(* A cancellation is a refusal (engine.rs apply).                           *)
LEMMA CancelStep == ASSUME IInv, NEW q \in QuoteSlots, CancelQuote(q) PROVE IInv'
BY NormalisedBook, RefuseStep DEF CancelQuote

-----------------------------------------------------------------------------
(* The commit phase: the winner of each leg is consumed and its claim      *)
(* committed, every other quote of the request is released, and nothing    *)
(* that belongs to another request moves.                                  *)
LEMMA AcceptStep ==
  ASSUME IInv, NEW r \in RequestSlots, NEW expected, AcceptRequest(r, expected)
  PROVE  IInv'
<1> DEFINE book == Normalised(Requester(r))
<1>0. BookInv(book)
  BY NormalisedBook
<1>1. CASE Refuse(book)
  BY <1>0, <1>1, RefuseStep
<1>2. ASSUME InState(r, "Open"), NEW win \in Plan(r, expected), CommitAccept(r, win, book)
      PROVE  IInv'
  <2> DEFINE winners == {win[l] : l \in LegsOf(r)}
             losers == LinkedOn(r) \ winners
  <2>1. /\ \A l \in LegsOf(r) : win[l] \in chain[r][l] /\ win[l] \in QuoteSlots
        /\ \A l \in LegsOf(r) : quotes[win[l]].state = "Active"
    BY <1>2 DEF Plan, Best, Eligible, Live
  <2>2. requests[r] \in Request /\ LegsOf(r) \subseteq LegIds
    <3>1. requests[r] \in Request
      BY <1>2 DEF IInv, TypeRest, InState
    <3>2. requests[r].legs \in Seq(LegSpec) /\ Len(requests[r].legs) \in LegIds
      BY <3>1 DEF Request, Basket
    <3>3. LegsOf(r) = 1..Len(requests[r].legs)
      BY <3>2 DEF LegsOf
    <3> QED BY <3>1, <3>2, <3>3, EngineConstants DEF LegIds
  <2>3. \A l \in LegIds : chain[r][l] = {q \in QuoteSlots : /\ quotes[q] # Vacant
                                                            /\ quotes[q].request = r
                                                            /\ quotes[q].leg = l}
    BY <1>2 DEF IInv, LegChainsSound
  <2>4. \A q \in QuoteSlots : quotes[q] # Vacant /\ quotes[q].request = r =>
          quotes[q].leg \in LegsOf(r) /\ quotes[q].leg \in LegIds
    BY DEF IInv, QuotesPlaced, TypeRest, Quote
  <2>5. \A q \in QuoteSlots :
          q \in LinkedOn(r) <=> quotes[q] # Vacant /\ quotes[q].request = r
    BY <2>3, <2>4 DEF LinkedOn
  <2>6. r \notin winners /\ r \notin losers /\ r \in Owners
    BY <2>1, EngineConstants DEF LinkedOn, IInv, TypeRest, Owners
  <2>7. PICK total \in 0..book[r].amount : claims' = CommitClaims(book, r, winners, losers, total)
    BY <1>2 DEF CommitAccept
  <2>8. /\ quotes' = [q \in QuoteSlots |->
                        CASE q \in losers -> Vacant
                          [] q \in winners -> [quotes[q] EXCEPT !.state = "Consumed"]
                          [] OTHER -> quotes[q]]
        /\ chain' = [chain EXCEPT ![r] =
                       [l \in LegIds |-> IF l \in LegsOf(r) THEN {win[l]} ELSE {}]]
        /\ requests' = [requests EXCEPT ![r].state = "Settling",
                                        ![r].settle_by = now + MaxSettlingTime]
        /\ book[r] # Vacant
        /\ UNCHANGED <<now, free, contracts, published, next_arrival>>
    BY <1>2 DEF CommitAccept
  <2>9. \E e : reply' = [ok |-> TRUE, events |-> e]
    BY <1>2 DEF CommitAccept, Accepted
  <2> HIDE DEF book
  <2>10. /\ \A q \in QuoteSlots : q \in winners =>
              /\ quotes[q] \in Quote /\ quotes[q].request = r
              /\ quotes'[q] = [quotes[q] EXCEPT !.state = "Consumed"]
              /\ quotes'[q] # Vacant /\ quotes'[q].state = "Consumed"
              /\ quotes'[q].request = r /\ quotes'[q].leg = quotes[q].leg
         /\ \A q \in QuoteSlots : q \in losers => quotes'[q] = Vacant
         /\ \A q \in QuoteSlots : q \notin winners /\ q \notin losers =>
              quotes'[q] = quotes[q] /\ (quotes[q] # Vacant => quotes[q].request # r)
    <3>1. \A q \in QuoteSlots : q \in winners => quotes[q] # Vacant /\ quotes[q].request = r
      BY <2>1, <2>3, <2>2
    <3>2. \A q \in QuoteSlots : q \in winners => quotes[q] \in Quote
      BY <3>1 DEF IInv, TypeRest
    <3>3. \A q \in winners : q \notin losers
      OBVIOUS
    <3>4. \A q \in QuoteSlots : q \in winners =>
            quotes'[q] = [quotes[q] EXCEPT !.state = "Consumed"]
      BY <3>3, <2>8
    <3>5. \A x \in Quote : /\ [x EXCEPT !.state = "Consumed"] \in Quote
                           /\ [x EXCEPT !.state = "Consumed"].state = "Consumed"
                           /\ [x EXCEPT !.state = "Consumed"].request = x.request
                           /\ [x EXCEPT !.state = "Consumed"].leg = x.leg
      BY DEF Quote
    <3>6. \A q \in QuoteSlots : q \in losers => quotes'[q] = Vacant
      BY <2>8
    <3>7. \A q \in QuoteSlots : q \notin winners /\ q \notin losers =>
              quotes'[q] = quotes[q] /\ (quotes[q] # Vacant => quotes[q].request # r)
      BY <2>8, <2>5
    <3> HIDE DEF winners, losers
    <3>8. \A q \in QuoteSlots : q \in winners =>
            /\ quotes'[q] # Vacant /\ quotes'[q].state = "Consumed"
            /\ quotes'[q].request = r /\ quotes'[q].leg = quotes[q].leg
      <4> SUFFICES ASSUME NEW q \in QuoteSlots, q \in winners
                   PROVE  /\ quotes'[q] # Vacant /\ quotes'[q].state = "Consumed"
                          /\ quotes'[q].request = r /\ quotes'[q].leg = quotes[q].leg
        OBVIOUS
      <4> DEFINE x == quotes[q]
                 y == [x EXCEPT !.state = "Consumed"]
      <4>1. x \in Quote /\ x.request = r /\ quotes'[q] = y
        BY <3>1, <3>2, <3>4
      <4>2. y \in Quote /\ y.state = "Consumed" /\ y.request = x.request /\ y.leg = x.leg
        BY <4>1, <3>5
      <4> HIDE DEF y
      <4> QED BY <4>1, <4>2, VacantIsNoValue
    <3> QED BY <3>1, <3>2, <3>4, <3>6, <3>7, <3>8
  <2>11. /\ requests'[r] \in Request /\ requests'[r] # Vacant
         /\ requests'[r].state = "Settling" /\ requests'[r].legs = requests[r].legs
         /\ \A s \in RequestSlots : s # r => requests'[s] = requests[s]
    <3> DEFINE x == [requests[r] EXCEPT !.state = "Settling",
                                        !.settle_by = now + MaxSettlingTime]
    <3>1. requests'[r] = x /\ \A s \in RequestSlots : s # r => requests'[s] = requests[s]
      BY <2>8 DEF IInv, TypeRest
    <3>2. now + MaxSettlingTime \in Nat
      BY EngineConstants DEF IInv, TypeRest
    <3>3. x \in Request /\ x.state = "Settling" /\ x.legs = requests[r].legs
      BY <2>2, <3>2 DEF Request, RequestState
    <3> QED BY <3>1, <3>3, VacantIsNoValue
  <2>12. /\ \A o \in Owners : o \in losers => claims'[o] = Vacant
         /\ \A o \in Owners : o \in winners /\ o \notin losers =>
              claims'[o] = IF book[o] # Vacant THEN Committed(book[o], r, book[o].amount)
                           ELSE Vacant
         /\ claims'[r] = Committed(book[r], r, total)
         /\ \A o \in Owners : o \notin winners /\ o \notin losers /\ o # r =>
              claims'[o] = book[o]
    BY <2>6, <2>7, <2>8 DEF CommitClaims
  <2>13. winners \subseteq QuoteSlots /\ losers \subseteq QuoteSlots
         /\ \A o \in winners : o \notin losers
    BY <2>1, <2>3 DEF LinkedOn
  <2>14. \A l \in LegIds : chain'[r][l] = {q \in winners : quotes[q].leg = l}
    <3>1. \A l \in LegsOf(r) : quotes[win[l]].leg = l
      BY <2>1, <2>2, <2>3
    <3>2. \A l \in LegIds : chain'[r][l] = IF l \in LegsOf(r) THEN {win[l]} ELSE {}
      BY <2>8 DEF IInv, TypeRest
    <3>3. ASSUME NEW l \in LegIds, NEW q
          PROVE  q \in chain'[r][l] <=> q \in winners /\ quotes[q].leg = l
      <4>1. q \in winners <=> \E k \in LegsOf(r) : q = win[k]
        OBVIOUS
      <4>2. ASSUME q \in chain'[r][l] PROVE q \in winners /\ quotes[q].leg = l
        <5>1. l \in LegsOf(r) /\ q = win[l]
          BY <4>2, <3>2
        <5> QED BY <5>1, <4>1, <3>1
      <4>3. ASSUME q \in winners, quotes[q].leg = l PROVE q \in chain'[r][l]
        <5>1. PICK k \in LegsOf(r) : q = win[k]
          BY <4>3, <4>1
        <5>2. k = l
          BY <5>1, <4>3, <3>1
        <5> QED BY <5>1, <5>2, <3>2
      <4> QED BY <4>2, <4>3
    <3>4. ASSUME NEW l \in LegIds
          PROVE  chain'[r][l] = {q \in winners : quotes[q].leg = l}
      <4> HIDE DEF winners
      <4> QED BY <3>3, <3>4, <3>2
    <3> QED BY <3>4
  <2>15. \A s \in RequestSlots : s # r => chain'[s] = chain[s]
    BY <2>8 DEF IInv, TypeRest
  <2>16. chain' \in [RequestSlots -> [LegIds -> SUBSET QuoteSlots]]
    BY <2>1, <2>8 DEF IInv, TypeRest
  <2> HIDE DEF winners, losers
  <2>17. TypeRest'
    <3>1. requests' \in [RequestSlots -> Request \cup {Vacant}]
      BY <2>8, <2>11 DEF IInv, TypeRest
    <3>2. quotes' \in [QuoteSlots -> Quote \cup {Vacant}]
      <4>1. \A x \in Quote : [x EXCEPT !.state = "Consumed"] \in Quote
        BY DEF Quote
      <4>2. \A q \in QuoteSlots : quotes'[q] \in Quote \cup {Vacant}
        <5> SUFFICES ASSUME NEW q \in QuoteSlots PROVE quotes'[q] \in Quote \cup {Vacant}
          OBVIOUS
        <5>1. CASE q \in winners
          BY <4>1, <5>1, <2>10
        <5>2. CASE q \notin winners
          BY <5>2, <2>10 DEF IInv, TypeRest
        <5> QED BY <5>1, <5>2
      <4>3. quotes' = [q \in QuoteSlots |-> quotes'[q]]
        BY <2>8
      <4> QED BY <4>2, <4>3
    <3>3. reply'.ok \in BOOLEAN
      BY <2>9
    <3> QED BY <2>8, <2>16, <3>1, <3>2, <3>3 DEF IInv, TypeRest
  <2>18. QuotesPlaced'
    <3> SUFFICES ASSUME NEW q \in QuoteSlots, quotes'[q] # Vacant
                 PROVE  /\ InState(quotes[q].request,
                              IF quotes[q].state = "Active" THEN "Open" ELSE "Settling")'
                        /\ quotes'[q].leg \in LegsOf(quotes[q].request)'
      BY DEF QuotesPlaced, QuotesFollowTheirRequest
    <3>1. CASE q \in winners
      <4>1. quotes[q].leg \in LegsOf(r)
        BY <3>1, <2>4, <2>10, VacantIsNoValue
      <4>2. quotes'[q].state = "Consumed" /\ quotes'[q].request = r
            /\ quotes'[q].leg = quotes[q].leg
        BY <3>1, <2>10
      <4> QED BY <4>1, <4>2, <2>11 DEF InState, LegsOf
    <3>2. CASE q \notin winners
      <4>1. quotes'[q] = quotes[q] /\ quotes[q].request # r /\ quotes[q].request \in RequestSlots
        BY <3>2, <2>10 DEF IInv, TypeRest, Quote
      <4> QED BY <4>1, <2>11 DEF IInv, QuotesPlaced, QuotesFollowTheirRequest, InState, LegsOf
    <3> QED BY <3>1, <3>2
  <2>19. LegChainsSound'
    <3> SUFFICES ASSUME NEW s \in RequestSlots, NEW l \in LegIds,
                        (InState(s, "Open") \/ InState(s, "Settling"))'
                 PROVE  (chain[s][l] = {q \in QuoteSlots : /\ quotes[q] # Vacant
                                                           /\ quotes[q].request = s
                                                           /\ quotes[q].leg = l})'
      BY DEF LegChainsSound
    <3>1. CASE s = r
      <4>1. \A q \in QuoteSlots :
              q \in winners <=> quotes'[q] # Vacant /\ quotes'[q].request = r
        BY <2>10
      <4>2. \A q \in winners : q \in QuoteSlots /\ quotes'[q].leg = quotes[q].leg
        BY <2>10, <2>13
      <4>3. chain'[r][l] = {q \in winners : quotes[q].leg = l}
        BY <2>14
      <4>4. {q \in winners : quotes[q].leg = l} =
              {q \in QuoteSlots : /\ quotes'[q] # Vacant
                                  /\ quotes'[q].request = r
                                  /\ quotes'[q].leg = l}
        BY <4>1, <4>2
      <4> QED BY <3>1, <4>3, <4>4
    <3>2. CASE s # r
      <4>1. chain[s][l] = {q \in QuoteSlots : /\ quotes[q] # Vacant
                                              /\ quotes[q].request = s
                                              /\ quotes[q].leg = l}
        BY <3>2, <2>11 DEF IInv, LegChainsSound, InState
      <4>2. \A q \in QuoteSlots : q \in losers => quotes[q].request = r
        BY <2>5 DEF losers
      <4>3. \A q \in QuoteSlots : q \in winners =>
              quotes[q].request = r /\ quotes'[q].request = r
        BY <2>10
      <4>4. \A q \in QuoteSlots :
              (quotes'[q] # Vacant /\ quotes'[q].request = s /\ quotes'[q].leg = l)
              <=> (quotes[q] # Vacant /\ quotes[q].request = s /\ quotes[q].leg = l)
        BY <3>2, <4>2, <4>3, <2>10
      <4>5. chain'[s][l] = chain[s][l]
        BY <3>2, <2>15
      <4> QED BY <4>1, <4>4, <4>5
    <3> QED BY <3>1, <3>2
  <2>20. VacantLegsEmpty'
    BY <2>11, <2>15 DEF IInv, VacantLegsEmpty
  <2>21. BookTyped(claims)'
    <3>1. \A c \in Claim, n \in Nat : Committed(c, r, n) \in Claim
      BY DEF Committed, Claim
    <3>2. \A c \in Claim : c.amount \in Nat
      BY DEF Claim
    <3>3. \A o \in Owners : book[o] # Vacant => book[o] \in Claim
      BY <1>0 DEF BookInv, BookTyped
    <3>4. total \in Nat
      BY <2>6, <2>7, <2>8, <3>2, <3>3
    <3>5. \A o \in Owners : claims'[o] \in Claim \cup {Vacant}
      BY <2>6, <2>8, <2>12, <3>1, <3>2, <3>3, <3>4
    <3>6. claims' = [o \in Owners |-> claims'[o]]
      BY <2>7 DEF CommitClaims
    <3> QED BY <3>5, <3>6 DEF BookTyped
  <2>22. BookCoherent(claims)'
    <3> SUFFICES ASSUME NEW o \in Owners, claims'[o] # Vacant
                 PROVE  IF claims'[o].list = Vacant THEN ReservedClaimCoherent(o)'
                        ELSE CommittedClaimCoherent(o, claims[o].list)'
      BY DEF BookCoherent
    <3>1. CASE o \in winners \cup {r}
      <4>1. claims'[o].list = r
        <5>1. CASE o = r
          BY <5>1, <2>12 DEF Committed
        <5>2. CASE o \in winners
          <6>1. claims'[o] = Committed(book[o], r, book[o].amount)
            BY <5>2, <2>12, <2>13
          <6> QED BY <6>1 DEF Committed
        <5> QED BY <3>1, <5>1, <5>2
      <4> QED
        BY <3>1, <4>1, <2>6, <2>10, <2>11, <2>13, VacantIsNoValue, EngineConstants
           DEF CommittedClaimCoherent, InState
    <3>2. CASE o \notin winners \cup {r}
      <4>1. claims'[o] = book[o] /\ o \notin losers
        BY <3>2, <2>12
      <4>2. IF book[o].list = Vacant THEN ReservedClaimCoherent(o)
            ELSE CommittedClaimCoherent(o, book[o].list)
        BY <4>1, <1>0 DEF BookInv, BookCoherent
      <4>3. o \in QuoteSlots => quotes'[o] = quotes[o]
        BY <3>2, <4>1, <2>10
      <4>4. CASE book[o].list = Vacant
        BY <3>2, <4>1, <4>2, <4>3, <4>4, <2>11 DEF ReservedClaimCoherent, InState, Owners
      <4>5. CASE book[o].list # Vacant
        <5>1. book[o].list \in RequestSlots
          BY <4>1, <4>5, <1>0 DEF BookInv, BookTyped, Claim
        <5>2. book[o].list # r
          BY <4>2, <4>5, <1>2 DEF CommittedClaimCoherent, InState
        <5> QED BY <4>1, <4>2, <4>3, <4>5, <5>1, <5>2, <2>11
                   DEF CommittedClaimCoherent, InState
      <4> QED BY <4>4, <4>5
    <3> QED BY <3>1, <3>2
  <2>23. BookBacked(claims)'
    <3>1. ASSUME NEW q \in QuoteSlots, quotes'[q] # Vacant, Live(quotes[q])'
          PROVE  QuoteBacked(claims, q)'
      <4>1. q \notin winners /\ q \notin losers
        BY <3>1, <2>10 DEF Live
      <4>2. quotes'[q] = quotes[q] /\ quotes[q].request # r /\ quotes[q].request \in RequestSlots
        BY <3>1, <4>1, <2>10 DEF IInv, TypeRest, Quote
      <4>3. QuoteBacked(book, q)
        BY <3>1, <4>2, <2>8, <1>0 DEF BookInv, BookBacked, Live
      <4>4. claims'[q] = book[q]
        BY <4>1, <2>12, EngineConstants DEF Owners
      <4> QED BY <4>2, <4>3, <4>4, <2>11 DEF QuoteBacked
    <3>2. ASSUME NEW s \in RequestSlots, InState(s, "Open")', now' < requests'[s].deadline
          PROVE  RequestBacked(claims, s)'
      <4>1. s # r /\ requests'[s] = requests[s]
        BY <3>2, <2>11 DEF InState
      <4>2. RequestBacked(book, s)
        BY <3>2, <4>1, <2>8, <1>0 DEF BookInv, BookBacked, InState
      <4>3. s \notin winners /\ s \notin losers
        BY <2>13, EngineConstants
      <4> QED BY <4>1, <4>2, <4>3, <2>12 DEF RequestBacked, Owners
    <3> QED BY <3>1, <3>2 DEF BookBacked
  <2> QED BY <2>17, <2>18, <2>19, <2>20, <2>21, <2>22, <2>23 DEF IInv, BookInv
<1> QED BY <1>1, <1>2 DEF AcceptRequest, AcceptAdmissible

-----------------------------------------------------------------------------
(* A terminal answer discharges the committed list of r, and closes every  *)
(* quote of r: coherence says a consumed quote's claim is on that list.    *)
LEMMA DischargeStep ==
  ASSUME IInv, NEW r \in RequestSlots, NEW book, BookInv(book), InState(r, "Settling"),
         NEW state \in {"Escrowed", "SettlementFailed"}, NEW events,
         Discharge(r, book, state, events)
  PROVE  IInv'
<1> DEFINE book2 == Without(book, OnList(book, r))
           gone == ConsumedBy(r, book2)
<1>1. /\ claims' = book2
      /\ quotes' = Without(quotes, gone)
      /\ requests' = [requests EXCEPT ![r].state = state]
      /\ reply' = [ok |-> TRUE, events |-> events]
      /\ UNCHANGED <<now, free, contracts, chain, published, next_arrival>>
  BY DEF Discharge, Accepted
<1>2. \A o \in Owners : /\ claims'[o] = IF o \in OnList(book, r) THEN Vacant ELSE book[o]
                        /\ o \in OnList(book, r) <=> book[o] # Vacant /\ book[o].list = r
  BY <1>1 DEF Without, OnList, BookInv, BookTyped
<1>3. \A q \in QuoteSlots : quotes'[q] = IF q \in gone THEN Vacant ELSE quotes[q]
  BY <1>1 DEF Without, IInv, TypeRest
<1>4. \A q \in QuoteSlots : q \in gone <=> quotes[q] # Vacant /\ quotes[q].request = r
  <2>1. ASSUME NEW q \in QuoteSlots, quotes[q] # Vacant, quotes[q].request = r
        PROVE  quotes[q].state = "Consumed" /\ book2[q] = Vacant
    <3>1. quotes[q].state = "Consumed"
      BY <2>1 DEF IInv, QuotesPlaced, QuotesFollowTheirRequest, InState, TypeRest, Quote
    <3>2. book[q] # Vacant => q \in OnList(book, r)
      BY <2>1, <3>1 DEF BookInv, BookCoherent, ReservedClaimCoherent,
                        CommittedClaimCoherent, OnList, Owners
    <3>3. book2[q] = Vacant
      BY <3>2, <1>1, <1>2 DEF Owners
    <3> QED BY <3>1, <3>3
  <2> QED BY <2>1 DEF ConsumedBy
<1>5. /\ requests'[r] \in Request /\ requests'[r] # Vacant /\ requests'[r].state = state
      /\ \A s \in RequestSlots : s # r => requests'[s] = requests[s]
  <2> DEFINE x == [requests[r] EXCEPT !.state = state]
  <2>1. requests[r] \in Request
    BY DEF IInv, TypeRest, InState
  <2>2. x \in Request /\ x.state = state
    BY <2>1 DEF Request, RequestState
  <2>3. requests'[r] = x /\ \A s \in RequestSlots : s # r => requests'[s] = requests[s]
    BY <1>1 DEF IInv, TypeRest
  <2> HIDE DEF x
  <2> QED BY <2>2, <2>3, VacantIsNoValue
<1> HIDE DEF gone, book2
<1>6. TypeRest'
  <2>1. requests' \in [RequestSlots -> Request \cup {Vacant}]
    BY <1>1, <1>5 DEF IInv, TypeRest
  <2>2. quotes' \in [QuoteSlots -> Quote \cup {Vacant}]
    BY <1>1 DEF IInv, TypeRest, Without
  <2> QED BY <1>1, <2>1, <2>2 DEF IInv, TypeRest
<1>7. \A q \in QuoteSlots : quotes'[q] # Vacant =>
        /\ quotes'[q] = quotes[q]
        /\ quotes[q].request \in RequestSlots /\ quotes[q].request # r
        /\ requests'[quotes[q].request] = requests[quotes[q].request]
  BY <1>3, <1>4, <1>5 DEF IInv, TypeRest, Quote
<1>8. QuotesPlaced'
  BY <1>7 DEF IInv, QuotesPlaced, QuotesFollowTheirRequest, InState, LegsOf
<1>9. LegChainsSound'
  <2> SUFFICES ASSUME NEW s \in RequestSlots, NEW l \in LegIds,
                      (InState(s, "Open") \/ InState(s, "Settling"))'
               PROVE  (chain[s][l] = {q \in QuoteSlots : /\ quotes[q] # Vacant
                                                         /\ quotes[q].request = s
                                                         /\ quotes[q].leg = l})'
    BY DEF LegChainsSound
  <2>1. s # r /\ requests'[s] = requests[s]
    BY <1>5 DEF InState
  <2>2. chain[s][l] = {q \in QuoteSlots : /\ quotes[q] # Vacant
                                          /\ quotes[q].request = s
                                          /\ quotes[q].leg = l}
    BY <2>1 DEF IInv, LegChainsSound, InState
  <2> QED BY <2>1, <2>2, <1>1, <1>3, <1>4
<1>10. VacantLegsEmpty'
  BY <1>1, <1>5 DEF IInv, VacantLegsEmpty
<1>11. BookTyped(claims)'
  BY <1>1 DEF BookInv, BookTyped, Without, book2
<1>12. BookCoherent(claims)'
  <2> SUFFICES ASSUME NEW o \in Owners, claims'[o] # Vacant
               PROVE  IF claims'[o].list = Vacant THEN ReservedClaimCoherent(o)'
                      ELSE CommittedClaimCoherent(o, claims[o].list)'
    BY DEF BookCoherent
  <2>1. claims'[o] = book[o] /\ book[o] # Vacant /\ book[o].list # r
    BY <1>2
  <2>2. IF book[o].list = Vacant THEN ReservedClaimCoherent(o)
        ELSE CommittedClaimCoherent(o, book[o].list)
    BY <2>1 DEF BookInv, BookCoherent
  <2>3. book[o] \in Claim
    BY <2>1 DEF BookInv, BookTyped
  <2>4. CASE book[o].list = Vacant
    <3>1. CASE o \in QuoteSlots
      <4>1. quotes[o] # Vacant /\ quotes[o].state = "Active"
        BY <3>1, <2>2, <2>4 DEF ReservedClaimCoherent
      <4>2. quotes[o].request # r
        BY <4>1, <3>1 DEF IInv, QuotesPlaced, QuotesFollowTheirRequest, InState
      <4> QED BY <2>1, <2>4, <3>1, <4>1, <4>2, <1>3, <1>4 DEF ReservedClaimCoherent
    <3>2. CASE o \notin QuoteSlots
      BY <2>1, <2>2, <2>4, <3>2, <1>5 DEF ReservedClaimCoherent, InState, Owners
    <3> QED BY <3>1, <3>2
  <2>5. CASE book[o].list # Vacant
    <3>1. book[o].list \in RequestSlots
      BY <2>3, <2>5 DEF Claim
    <3> QED BY <2>1, <2>2, <2>5, <3>1, <1>3, <1>4, <1>5
               DEF CommittedClaimCoherent, InState
  <2> QED BY <2>4, <2>5
<1>13. BookBacked(claims)'
  <2>1. ASSUME NEW q \in QuoteSlots, quotes'[q] # Vacant, Live(quotes[q])'
        PROVE  QuoteBacked(claims, q)'
    <3>1. QuoteBacked(book, q)
      BY <2>1, <1>1, <1>7 DEF BookInv, BookBacked, Live
    <3>2. claims'[q] = book[q]
      BY <3>1, <1>2, VacantIsNoValue DEF QuoteBacked, Reserved, Owners
    <3> QED BY <3>1, <3>2, <2>1, <1>7 DEF QuoteBacked
  <2>2. ASSUME NEW s \in RequestSlots, InState(s, "Open")', now' < requests'[s].deadline
        PROVE  RequestBacked(claims, s)'
    <3>1. s # r /\ requests'[s] = requests[s]
      BY <2>2, <1>5 DEF InState
    <3>2. RequestBacked(book, s)
      BY <2>2, <3>1, <1>1 DEF BookInv, BookBacked, InState
    <3>3. claims'[s] = book[s]
      BY <3>2, <1>2, VacantIsNoValue DEF RequestBacked, Reserved, Owners
    <3> QED BY <3>1, <3>2, <3>3 DEF RequestBacked
  <2> QED BY <2>1, <2>2 DEF BookBacked
<1> QED BY <1>6, <1>8, <1>9, <1>10, <1>11, <1>12, <1>13 DEF IInv, BookInv

(* poll_settlement: a terminal answer discharges, any other moves nothing.  *)
LEMMA PollStep ==
  ASSUME IInv, NEW r \in RequestSlots, NEW status, PollSettlement(r, status)
  PROVE  IInv'
<1> DEFINE book == Normalised(Requester(r))
<1>0. BookInv(book)
  BY NormalisedBook
<1> HIDE DEF book
<1>1. CASE Refuse(book)
  BY <1>0, <1>1, RefuseStep
<1>2. CASE InState(r, "Settling") /\ StillUnknown(r, book)
  <2>1. claims' = book /\ (\E e : reply' = [ok |-> TRUE, events |-> e])
        /\ UNCHANGED <<now, free, contracts, requests, chain, published, quotes, next_arrival>>
    BY <1>2 DEF StillUnknown, Accepted
  <2>2. TypeRest'
    <3>1. reply'.ok \in BOOLEAN
      BY <2>1
    <3> QED BY <2>1, <3>1 DEF IInv, TypeRest
  <2>3. QuotesPlaced' /\ LegChainsSound' /\ VacantLegsEmpty'
    BY <2>1 DEF IInv, QuotesPlaced, QuotesFollowTheirRequest, LegChainsSound,
                VacantLegsEmpty, InState, LegsOf
  <2>4. BookInv(claims)'
    BY <1>0, <2>1 DEF BookInv, BookTyped, BookCoherent, BookBacked, ReservedClaimCoherent,
                      CommittedClaimCoherent, QuoteBacked, RequestBacked, InState, Live
  <2> QED BY <2>2, <2>3, <2>4 DEF IInv
<1>3. ASSUME InState(r, "Settling"), NEW state \in {"Escrowed", "SettlementFailed"},
             NEW events, Discharge(r, book, state, events)
      PROVE  IInv'
  BY <1>0, <1>3, DischargeStep
<1> QED BY <1>1, <1>2, <1>3 DEF PollSettlement, book

-----------------------------------------------------------------------------
(* The empty engine satisfies the invariant.                                *)
LEMMA InitInv == Init => IInv
<1> SUFFICES ASSUME Init PROVE IInv
  OBVIOUS
<1>1. TypeRest
  BY DEF Init, TypeRest
<1>2. /\ \A q \in QuoteSlots : quotes[q] = Vacant
      /\ \A r \in RequestSlots : requests[r] = Vacant
      /\ \A r \in RequestSlots, l \in LegIds : chain[r][l] = {}
      /\ \A o \in Owners : claims[o] = Vacant
      /\ claims \in [Owners -> Claim \cup {Vacant}]
  BY DEF Init
<1> QED
  BY <1>1, <1>2 DEF IInv, QuotesPlaced, QuotesFollowTheirRequest, LegChainsSound,
       VacantLegsEmpty, BookInv, BookTyped, BookCoherent, BookBacked, InState

(* The inputs Next draws from have the types the steps assume.              *)
LEMMA InputTypes ==
  /\ Times \subseteq Nat
  /\ \A n \in 0..MaxLegs : \A legs \in [1..n -> LegSpecs] : legs \in Seq(LegSpec)
<1>1. Times \subseteq Nat
  BY EngineConstants DEF Times
<1>2. LegSpecs \subseteq LegSpec
  BY EngineConstants DEF LegSpecs, LegSpec
<1>3. ASSUME NEW n \in 0..MaxLegs, NEW legs \in [1..n -> LegSpecs] PROVE legs \in Seq(LegSpec)
  <2>1. n \in Nat
    BY EngineConstants
  <2>2. legs \in [1..n -> LegSpec]
    BY <1>2
  <2> QED BY <2>1, <2>2
<1> QED BY <1>1, <1>3

(* One step lemma per command.                                              *)
LEMMA NextInv == IInv /\ [Next]_vars => IInv'
<1> SUFFICES ASSUME IInv, [Next]_vars PROVE IInv'
  OBVIOUS
<1> USE EngineConstants
<1>1. CASE Tick
  BY <1>1, TickStep
<1>2. CASE \E a \in Accounts, amount \in Balances : CreditAccount(a, amount)
  BY <1>2, CreditStep
<1>3. CASE \E c \in Contracts, date \in EventDates : RegisterContract(c, date)
  BY <1>3, RegisterStep
<1>4. CASE \E a \in Requesters, deadline \in Times, legs \in LegLists :
             SubmitRequest(a, deadline, legs)
  BY <1>4, InputTypes, SubmitRequestStep DEF LegLists
<1>5. CASE \E r \in RequestSlots : RejectRequest(r)
  BY <1>5, RejectStep
<1>6. CASE \E m \in Makers, r \in RequestSlots, l \in LegIds, price \in Prices,
             size \in Sizes, expires_at \in Times :
             SubmitQuote(m, r, l, price, size, expires_at)
  <2>1. PICK m \in Makers, r \in RequestSlots, l \in LegIds, price \in Prices,
             size \in Sizes, expires_at \in Times :
             SubmitQuote(m, r, l, price, size, expires_at)
    BY <1>6
  <2>2. m \in Accounts /\ price \in Nat /\ size \in Nat /\ expires_at \in Nat
    BY <2>1, InputTypes
  <2> QED BY <2>1, <2>2, SubmitQuoteStep
<1>7. CASE \E q \in QuoteSlots : CancelQuote(q)
  BY <1>7, CancelStep
<1>8. CASE \E r \in RequestSlots, expected \in Views : AcceptRequest(r, expected)
  BY <1>8, AcceptStep
<1>9. CASE \E r \in RequestSlots, status \in TxStatus : PollSettlement(r, status)
  BY <1>9, PollStep
<1>10. CASE UNCHANGED vars
  <2>1. TypeRest'
    BY <1>10 DEF vars, IInv, TypeRest
  <2>2. QuotesPlaced' /\ LegChainsSound' /\ VacantLegsEmpty'
    BY <1>10 DEF vars, IInv, QuotesPlaced, QuotesFollowTheirRequest, LegChainsSound,
                 VacantLegsEmpty, InState, LegsOf
  <2>3. BookInv(claims)'
    BY <1>10 DEF vars, IInv, BookInv, BookTyped, BookCoherent, BookBacked,
                 ReservedClaimCoherent, CommittedClaimCoherent, QuoteBacked, RequestBacked,
                 InState, Live
  <2> QED BY <2>1, <2>2, <2>3 DEF IInv
<1> QED
  BY <1>1, <1>2, <1>3, <1>4, <1>5, <1>6, <1>7, <1>8, <1>9, <1>10 DEF Next

(* The inductive invariant holds in every reachable state.                  *)
LEMMA Inductive == Spec => []IInv
BY InitInv, NextInv, PTL DEF Spec

(* Every field of the engine's state keeps its type, through every command *)
(* of Engine::apply.                                                       *)
THEOREM TypeCorrect == Spec => []TypeOK
<1>1. IInv => TypeOK
  BY DEF IInv, TypeRest, BookInv, BookTyped, TypeOK
<1> QED BY <1>1, Inductive, PTL

(* A claim and its owner never disagree (check_claim_state_coherence).     *)
THEOREM ClaimsCoherent == Spec => []ClaimStateCoherence
<1>1. IInv => ClaimStateCoherence
  BY DEF IInv, BookInv, BookCoherent, ClaimStateCoherence
<1> QED BY <1>1, Inductive, PTL

(* No quote outlives the phase of the request it was made on.              *)
THEOREM NoStrandedQuote == Spec => []QuotesFollowTheirRequest
<1>1. IInv => QuotesFollowTheirRequest
  BY DEF IInv, QuotesPlaced
<1> QED BY <1>1, Inductive, PTL

(* The legs of an open or settling request link exactly its quotes.        *)
THEOREM ChainsSound == Spec => []LegChainsSound
<1>1. IInv => LegChainsSound
  BY DEF IInv
<1> QED BY <1>1, Inductive, PTL

(* Every live offer is backed by its own claim, so the commit phase of     *)
(* accept_request always finds the claim it moves.                         *)
THEOREM OffersBacked == Spec => []LiveOffersAreBacked
<1>1. IInv => LiveOffersAreBacked
  BY DEF IInv, BookInv, BookBacked, QuoteBacked, RequestBacked, LiveOffersAreBacked
<1> QED BY <1>1, Inductive, PTL

-----------------------------------------------------------------------------
(* Committed capital stays where it is until settlement has answered.      *)

Held(o) == claims[o] # Vacant /\ claims[o].list # Vacant

(* Normalisation never drops a committed claim (ledger.rs release_expired). *)
LEMMA NormalisedKeepsCommitted ==
  ASSUME NEW A, NEW o \in Owners, Held(o)
  PROVE  Normalised(A)[o] = claims[o]
BY DEF Held, Normalised, ClaimExpired

(* A held claim belongs to a settling request or to a quote it consumed.     *)
LEMMA HeldOwner ==
  ASSUME IInv, NEW o \in Owners, Held(o)
  PROVE  /\ claims[o].list \in RequestSlots
         /\ InState(claims[o].list, "Settling")
         /\ o \in QuoteSlots => /\ quotes[o] # Vacant /\ quotes[o].state = "Consumed"
                                /\ quotes[o].request = claims[o].list
         /\ o \notin QuoteSlots => o = claims[o].list
BY DEF Held, IInv, BookInv, BookTyped, BookCoherent, CommittedClaimCoherent, Claim

(* Command by command, a held claim stays or its request gets its answer.   *)
LEMMA HeldStep ==
  ASSUME IInv, [Next]_vars, NEW o \in Owners, Held(o)
  PROVE  \/ claims'[o] = claims[o]
         \/ requests'[claims[o].list].state \in {"Escrowed", "SettlementFailed"}
<1> USE EngineConstants
<1>0. ASSUME NEW A, Refuse(Normalised(A)) PROVE claims'[o] = claims[o]
  BY <1>0, NormalisedKeepsCommitted DEF Refuse
<1>1. CASE Tick
  BY <1>1 DEF Tick
<1>2. CASE \E a \in Accounts, amount \in Balances : CreditAccount(a, amount)
  BY <1>2, NormalisedKeepsCommitted DEF CreditAccount
<1>3. CASE \E c \in Contracts, date \in EventDates : RegisterContract(c, date)
  BY <1>3 DEF RegisterContract, Refuse
<1>4. ASSUME NEW a, NEW deadline, NEW legs, SubmitRequest(a, deadline, legs)
      PROVE  claims'[o] = claims[o]
  <2>1. CASE Refuse(Normalised({a}))
    BY <2>1, <1>0
  <2>2. ASSUME NEW r \in RequestSlots, OpenRequest(r, a, deadline, legs, Normalised({a}))
        PROVE  claims'[o] = claims[o]
    <3>1. o # r
      BY <2>2, HeldOwner DEF OpenRequest, InState
    <3>2. \E amount : claims' = [Normalised({a}) EXCEPT ![r] = Reserved(a, amount, deadline)]
      BY <2>2 DEF OpenRequest
    <3>3. claims'[o] = Normalised({a})[o]
      BY <3>1, <3>2 DEF Normalised
    <3> QED BY <3>3, NormalisedKeepsCommitted
  <2> QED BY <1>4, <2>1, <2>2 DEF SubmitRequest
<1>5. ASSUME NEW r \in RequestSlots, RejectRequest(r) PROVE claims'[o] = claims[o]
  <2> DEFINE book == Normalised(Requester(r))
  <2>1. CASE Refuse(book)
    BY <2>1, <1>0
  <2>2. CASE InState(r, "Open") /\ claims' = Without(book, LinkedOn(r) \cup {r})
    <3>1. \A q \in LinkedOn(r) : q \in QuoteSlots /\ quotes[q].state # "Consumed"
      BY <2>2 DEF LinkedOn, IInv, TypeRest, LegChainsSound, QuotesPlaced,
                  QuotesFollowTheirRequest, InState, Quote
    <3>2. o \notin LinkedOn(r) \cup {r}
      BY <2>2, <3>1, HeldOwner DEF InState
    <3>3. claims'[o] = book[o]
      BY <2>2, <3>2 DEF Without, Normalised
    <3> QED BY <3>3, NormalisedKeepsCommitted
  <2> QED BY <1>5, <2>1, <2>2 DEF RejectRequest, RejectAdmissible
<1>6. ASSUME NEW m, NEW r \in RequestSlots, NEW l \in LegIds, NEW price, NEW size,
             NEW expires_at, SubmitQuote(m, r, l, price, size, expires_at)
      PROVE  claims'[o] = claims[o]
  <2> DEFINE book == Normalised({m} \cup Requester(r))
             old == StandingQuote(r, l, m)
             book2 == Without(book, old)
  <2>1. CASE Refuse(book)
    BY <2>1, <1>0
  <2>2. CASE ReplaceAndOpen(m, r, l, price, size, expires_at, old)
    <3>1. \A q \in old : q \in QuoteSlots /\ quotes[q].state = "Active"
      BY DEF StandingQuote, IInv, TypeRest
    <3>2. o \notin old
      BY <3>1, HeldOwner
    <3>3. book2[o] = claims[o]
      BY <3>2, NormalisedKeepsCommitted DEF Without, Normalised
    <3> HIDE DEF old
    <3>4. claims' = book2 \/ \E q \in QuoteSlots : \E c :
            claims' = [book2 EXCEPT ![q] = c] /\ Without(quotes, old)[q] = Vacant
      BY <2>2 DEF ReplaceAndOpen, OpenQuote
    <3>5. CASE claims' = book2
      BY <3>3, <3>5
    <3>6. ASSUME NEW q \in QuoteSlots, NEW c, claims' = [book2 EXCEPT ![q] = c],
                 Without(quotes, old)[q] = Vacant
          PROVE  claims'[o] = claims[o]
      <4>1. q \in old \/ quotes[q] = Vacant
        BY <3>6 DEF Without, IInv, TypeRest
      <4>2. o # q
        BY <3>2, <4>1, HeldOwner
      <4> QED BY <3>3, <3>6, <4>2 DEF Without, Normalised
    <3> QED BY <3>4, <3>5, <3>6
  <2> QED BY <1>6, <2>1, <2>2 DEF SubmitQuote
<1>7. CASE \E q \in QuoteSlots : CancelQuote(q)
  BY <1>7, <1>0 DEF CancelQuote
<1>8. ASSUME NEW r \in RequestSlots, NEW expected, AcceptRequest(r, expected)
      PROVE  claims'[o] = claims[o]
  <2> DEFINE book == Normalised(Requester(r))
  <2>1. CASE Refuse(book)
    BY <2>1, <1>0
  <2>2. ASSUME InState(r, "Open"), NEW win \in Plan(r, expected), CommitAccept(r, win, book)
        PROVE  claims'[o] = claims[o]
    <3> DEFINE winners == {win[l] : l \in LegsOf(r)}
               losers == LinkedOn(r) \ winners
    <3>1. \A l \in LegsOf(r) : win[l] \in QuoteSlots /\ quotes[win[l]].state = "Active"
      BY <2>2 DEF Plan, Best, Eligible, Live
    <3>2. \A q \in LinkedOn(r) : q \in QuoteSlots /\ quotes[q].state # "Consumed"
      BY <2>2 DEF LinkedOn, IInv, TypeRest, LegChainsSound, QuotesPlaced,
                  QuotesFollowTheirRequest, InState, Quote
    <3>3. o \notin winners /\ o \notin losers /\ o # r
      BY <2>2, <3>1, <3>2, HeldOwner DEF InState
    <3>4. PICK total : claims' = CommitClaims(book, r, winners, losers, total)
      BY <2>2 DEF CommitAccept
    <3> HIDE DEF winners, losers
    <3>5. claims'[o] = book[o]
      BY <3>3, <3>4 DEF CommitClaims
    <3> QED BY <3>5, NormalisedKeepsCommitted
  <2> QED BY <1>8, <2>1, <2>2 DEF AcceptRequest, AcceptAdmissible
<1>9. ASSUME NEW r \in RequestSlots, NEW status, PollSettlement(r, status)
      PROVE  \/ claims'[o] = claims[o]
             \/ requests'[claims[o].list].state \in {"Escrowed", "SettlementFailed"}
  <2> DEFINE book == Normalised(Requester(r))
  <2>0. book[o] = claims[o]
    BY NormalisedKeepsCommitted
  <2> HIDE DEF book
  <2>1. CASE Refuse(book) \/ StillUnknown(r, book)
    BY <2>0, <2>1 DEF Refuse, StillUnknown
  <2>2. ASSUME NEW state \in {"Escrowed", "SettlementFailed"}, NEW events,
               InState(r, "Settling"), Discharge(r, book, state, events)
        PROVE  \/ claims'[o] = claims[o]
               \/ requests'[claims[o].list].state \in {"Escrowed", "SettlementFailed"}
    <3>1. book \in [Owners -> Claim \cup {Vacant}]
      BY NormalisedBook DEF BookInv, BookTyped, book
    <3>2. CASE claims[o].list = r
      <4>1. requests' = [requests EXCEPT ![r].state = state] /\ requests[r] \in Request
        BY <2>2 DEF Discharge, InState, IInv, TypeRest
      <4>2. requests'[r].state = state
        BY <4>1 DEF IInv, TypeRest, Request
      <4> QED BY <3>2, <4>2
    <3>3. CASE claims[o].list # r
      <4>1. o \notin OnList(book, r)
        BY <2>0, <3>3 DEF OnList
      <4> QED BY <2>0, <2>2, <3>1, <4>1 DEF Discharge, Without
    <3> QED BY <3>2, <3>3
  <2> QED BY <1>9, <2>1, <2>2 DEF PollSettlement, book
<1>10. CASE UNCHANGED vars
  BY <1>10 DEF vars
<1> QED
  BY <1>1, <1>2, <1>3, <1>4, <1>5, <1>6, <1>7, <1>8, <1>9, <1>10 DEF Next

(* Nothing but a terminal answer of settlement moves a committed claim: no *)
(* expiry, no normalisation, no other command, no unresolved poll.         *)
THEOREM CommittedHeld == Spec => CommittedUntilAnswered
<1>1. IInv /\ [Next]_vars =>
        [\A o \in Owners : claims[o] # Vacant /\ claims[o].list # Vacant =>
           \/ claims'[o] = claims[o]
           \/ requests'[claims[o].list].state \in {"Escrowed", "SettlementFailed"}]_vars
  BY HeldStep DEF Held
<1> QED BY <1>1, Inductive, PTL DEF Spec, CommittedUntilAnswered


-----------------------------------------------------------------------------
(***************************************************************************)
(* What a leg promises both sides of it: a maker stands with one quote,    *)
(* and the price a requester is shown is never worse than the best one     *)
(* they would be filled at.                                                *)
(*                                                                         *)
(* Both rest on one fact: only an admitted quote adds to a leg.  Every     *)
(* other command can make quotes disappear, die or be consumed, and        *)
(* publishes nothing.                                                      *)
(***************************************************************************)

ConsumedFrom(q) == [quotes[q] EXCEPT !.state = "Consumed"]

\* A step that adds nothing to any leg.
Fading ==
  /\ now <= now' /\ now' \in Nat
  /\ published' = published
  /\ \A q \in QuoteSlots : quotes'[q] # Vacant =>
       quotes[q] # Vacant /\ quotes'[q] \in {quotes[q], ConsumedFrom(q)}
  /\ \A r \in RequestSlots : InState(r, "Open")' =>
       /\ chain'[r] = chain[r]
       /\ requests'[r] = requests[r] \/ requests[r] = Vacant

LEMMA RefuseFades == ASSUME IInv, NEW book, Refuse(book) PROVE Fading
BY DEF Refuse, Fading, IInv, TypeRest

LEMMA SubmitRequestFades ==
  ASSUME IInv, NEW a, NEW deadline, NEW legs, SubmitRequest(a, deadline, legs)
  PROVE  Fading
<1>1. ASSUME NEW book, Refuse(book) PROVE Fading
  BY <1>1, RefuseFades
<1>2. ASSUME NEW r \in RequestSlots, NEW book, OpenRequest(r, a, deadline, legs, book)
      PROVE  Fading
  <2>1. PICK x : requests[r] = Vacant /\ requests' = [requests EXCEPT ![r] = x]
    BY <1>2 DEF OpenRequest
  <2>2. UNCHANGED <<now, chain, published, quotes>>
    BY <1>2 DEF OpenRequest
  <2>3. \A s \in RequestSlots : s # r => requests'[s] = requests[s]
    BY <2>1 DEF IInv, TypeRest
  <2> QED BY <2>1, <2>2, <2>3 DEF Fading, IInv, TypeRest
<1> QED BY <1>1, <1>2 DEF SubmitRequest

LEMMA RejectFades ==
  ASSUME IInv, NEW r \in RequestSlots, RejectRequest(r)
  PROVE  Fading
<1>1. ASSUME NEW book, Refuse(book) PROVE Fading
  BY <1>1, RefuseFades
<1>2. ASSUME InState(r, "Open"),
             quotes' = Without(quotes, LinkedOn(r)),
             chain' = [chain EXCEPT ![r] = [l \in LegIds |-> {}]],
             requests' = [requests EXCEPT ![r].state = "Rejected"],
             UNCHANGED <<now, published>>
      PROVE  Fading
  <2>1. requests[r] \in Request
    BY <1>2 DEF IInv, TypeRest, InState
  <2>2. requests'[r].state = "Rejected"
        /\ \A s \in RequestSlots : s # r => requests'[s] = requests[s] /\ chain'[s] = chain[s]
    BY <1>2, <2>1 DEF IInv, TypeRest, Request
  <2>3. \A q \in QuoteSlots : quotes'[q] \in {Vacant, quotes[q]}
    BY <1>2 DEF Without, IInv, TypeRest
  <2> QED BY <1>2, <2>2, <2>3 DEF Fading, IInv, TypeRest, InState
<1> QED BY <1>1, <1>2 DEF RejectRequest, RejectAdmissible

LEMMA AcceptFades ==
  ASSUME IInv, NEW r \in RequestSlots, NEW expected, AcceptRequest(r, expected)
  PROVE  Fading
<1>1. ASSUME NEW book, Refuse(book) PROVE Fading
  BY <1>1, RefuseFades
<1>2. ASSUME InState(r, "Open"), NEW win \in Plan(r, expected), NEW book,
             CommitAccept(r, win, book)
      PROVE  Fading
  <2> DEFINE winners == {win[l] : l \in LegsOf(r)}
             losers == LinkedOn(r) \ winners
  <2>1. /\ quotes' = [q \in QuoteSlots |->
                        CASE q \in losers -> Vacant
                          [] q \in winners -> [quotes[q] EXCEPT !.state = "Consumed"]
                          [] OTHER -> quotes[q]]
        /\ \E c : chain' = [chain EXCEPT ![r] = c]
        /\ requests' = [requests EXCEPT ![r].state = "Settling",
                                        ![r].settle_by = now + MaxSettlingTime]
        /\ UNCHANGED <<now, published>>
    BY <1>2 DEF CommitAccept
  <2>2. requests[r] \in Request
    BY <1>2 DEF IInv, TypeRest, InState
  <2>3. requests'[r].state = "Settling"
        /\ \A s \in RequestSlots : s # r => requests'[s] = requests[s] /\ chain'[s] = chain[s]
    BY <2>1, <2>2 DEF IInv, TypeRest, Request
  <2>4. \A l \in LegsOf(r) : quotes[win[l]] # Vacant
    <3> SUFFICES ASSUME NEW l \in LegsOf(r) PROVE quotes[win[l]] # Vacant
      OBVIOUS
    <3>1. win[l] \in chain[r][l]
      BY <1>2 DEF Plan, Best, Eligible
    <3>2. requests[r].legs \in Seq(LegSpec) /\ Len(requests[r].legs) \in LegIds
      BY <2>2 DEF Request, Basket
    <3>3. l \in LegIds
      BY <3>2, EngineConstants DEF LegsOf, LegIds
    <3> QED BY <1>2, <3>1, <3>3 DEF IInv, LegChainsSound
  <2>5. \A q \in QuoteSlots : q \in winners => quotes[q] # Vacant
    BY <2>4
  <2>6. \A q \in QuoteSlots : q \in losers => quotes'[q] = Vacant
    BY <2>1
  <2>7. \A q \in QuoteSlots : q \in winners => quotes'[q] = ConsumedFrom(q)
    <3>1. \A q \in winners : q \notin losers
      OBVIOUS
    <3> QED BY <2>1, <3>1 DEF ConsumedFrom
  <2>8. \A q \in QuoteSlots : q \notin winners /\ q \notin losers => quotes'[q] = quotes[q]
    BY <2>1
  <2> HIDE DEF winners, losers
  <2> QED BY <2>1, <2>3, <2>5, <2>6, <2>7, <2>8 DEF Fading, IInv, TypeRest, InState
<1> QED BY <1>1, <1>2 DEF AcceptRequest, AcceptAdmissible

LEMMA PollFades ==
  ASSUME IInv, NEW r \in RequestSlots, NEW status, PollSettlement(r, status)
  PROVE  Fading
<1>1. ASSUME NEW book, Refuse(book) \/ StillUnknown(r, book) PROVE Fading
  BY <1>1, RefuseFades DEF StillUnknown, Fading, IInv, TypeRest
<1>2. ASSUME NEW state \in {"Escrowed", "SettlementFailed"}, NEW events, NEW book,
             InState(r, "Settling"), Discharge(r, book, state, events)
      PROVE  Fading
  <2>1. \E S : quotes' = Without(quotes, S)
    BY <1>2 DEF Discharge
  <2>2. \A q \in QuoteSlots : quotes'[q] \in {Vacant, quotes[q]}
    BY <2>1 DEF Without, IInv, TypeRest
  <2>3. requests' = [requests EXCEPT ![r].state = state] /\ requests[r] \in Request
        /\ UNCHANGED <<now, chain, published>>
    BY <1>2 DEF Discharge, InState, IInv, TypeRest
  <2>4. requests'[r].state = state
        /\ \A s \in RequestSlots : s # r => requests'[s] = requests[s]
    BY <2>3 DEF IInv, TypeRest, Request
  <2> QED BY <2>2, <2>3, <2>4 DEF Fading, IInv, TypeRest, InState
<1> QED BY <1>1, <1>2 DEF PollSettlement

\* An admitted quote: the one kind of step that is not fading.
Admits(m, r, l, price, size, expires_at) ==
  /\ QuoteAdmissible(m, r, l, price, size, expires_at)
  /\ ReplaceAndOpen(m, r, l, price, size, expires_at, StandingQuote(r, l, m))

LEMMA MarketSteps ==
  ASSUME IInv, [Next]_vars
  PROVE  \/ Fading
         \/ \E m \in Makers, r \in RequestSlots, l \in LegIds, price \in Prices,
               size \in Sizes, expires_at \in Times : Admits(m, r, l, price, size, expires_at)
<1> USE EngineConstants
<1>1. CASE Tick
  BY <1>1 DEF Tick, Fading, IInv, TypeRest
<1>2. CASE \E a \in Accounts, amount \in Balances : CreditAccount(a, amount)
  BY <1>2 DEF CreditAccount, Fading, IInv, TypeRest
<1>3. CASE \E c \in Contracts, date \in EventDates : RegisterContract(c, date)
  BY <1>3, RefuseFades DEF RegisterContract, Fading, IInv, TypeRest
<1>4. CASE \E a \in Requesters, deadline \in Times, legs \in LegLists :
             SubmitRequest(a, deadline, legs)
  BY <1>4, SubmitRequestFades
<1>5. CASE \E r \in RequestSlots : RejectRequest(r)
  BY <1>5, RejectFades
<1>6. CASE \E m \in Makers, r \in RequestSlots, l \in LegIds, price \in Prices,
             size \in Sizes, expires_at \in Times :
             SubmitQuote(m, r, l, price, size, expires_at)
  <2>1. PICK m \in Makers, r \in RequestSlots, l \in LegIds, price \in Prices,
             size \in Sizes, expires_at \in Times :
             SubmitQuote(m, r, l, price, size, expires_at)
    BY <1>6
  <2> QED BY <2>1, RefuseFades DEF SubmitQuote, Admits
<1>7. CASE \E q \in QuoteSlots : CancelQuote(q)
  BY <1>7, RefuseFades DEF CancelQuote
<1>8. CASE \E r \in RequestSlots, expected \in Views : AcceptRequest(r, expected)
  BY <1>8, AcceptFades
<1>9. CASE \E r \in RequestSlots, status \in TxStatus : PollSettlement(r, status)
  BY <1>9, PollFades
<1>10. CASE UNCHANGED vars
  BY <1>10 DEF vars, Fading, IInv, TypeRest
<1> QED
  BY <1>1, <1>2, <1>3, <1>4, <1>5, <1>6, <1>7, <1>8, <1>9, <1>10 DEF Next

LEMMA StepKinds ==
  ASSUME IInv, [Next]_vars
  PROVE  \/ Fading
         \/ \E m \in Accounts, r \in RequestSlots, l \in LegIds, price \in Nat, size \in Nat,
               expires_at \in Nat : Admits(m, r, l, price, size, expires_at)
<1>1. Makers \subseteq Accounts /\ Prices \subseteq Nat /\ Sizes \subseteq Nat /\ Times \subseteq Nat
  BY InputTypes, EngineConstants
<1> QED BY <1>1, MarketSteps

-----------------------------------------------------------------------------
(* An admitted quote, seen as one exchange on one leg: the standing quote   *)
(* of the maker goes, and at most one quote comes.                          *)

NewQuote(m, r, l, price, size, expires_at) ==
  [maker |-> m, request |-> r, leg |-> l, price |-> price, size |-> size,
   expires_at |-> expires_at, arrival |-> next_arrival, state |-> "Active"]

Exchanged(r, l, old, added, quote) ==
  /\ now' = now /\ requests' = requests
  /\ old \subseteq chain[r][l] /\ added \subseteq QuoteSlots
  /\ \A p \in added : p \in old \/ quotes[p] = Vacant
  /\ \A p \in QuoteSlots : quotes'[p] =
       IF p \in added THEN quote ELSE IF p \in old THEN Vacant ELSE quotes[p]
  /\ chain' = [chain EXCEPT ![r][l] = (chain[r][l] \ old) \cup added]

LEMMA Admission ==
  ASSUME IInv, NEW m \in Accounts, NEW r \in RequestSlots, NEW l \in LegIds,
         NEW price \in Nat, NEW size \in Nat, NEW expires_at \in Nat,
         Admits(m, r, l, price, size, expires_at)
  PROVE  LET old == StandingQuote(r, l, m)
             quote == NewQuote(m, r, l, price, size, expires_at)
         IN  \/ Exchanged(r, l, old, {}, quote) /\ published' = published
             \/ \E q \in QuoteSlots :
                  /\ Exchanged(r, l, old, {q}, quote)
                  /\ published' = [published EXCEPT ![r][l] =
                       PublishedPrice(quotes', chain'[r][l], requests[r].legs[l],
                                      published[r][l])]
<1> DEFINE old == StandingQuote(r, l, m)
           quote == NewQuote(m, r, l, price, size, expires_at)
           slab == Without(quotes, old)
           linked == chain[r][l] \ old
           book == Without(Normalised({m} \cup Requester(r)), old)
           amount == MakerContribution(requests[r].legs[l], price)
<1>1. quotes \in [QuoteSlots -> Quote \cup {Vacant}] /\ chain[r][l] \subseteq QuoteSlots
      /\ chain \in [RequestSlots -> [LegIds -> SUBSET QuoteSlots]]
  BY DEF IInv, TypeRest
<1>2. old \subseteq chain[r][l]
  BY DEF StandingQuote
<1>3. \A p \in QuoteSlots : slab[p] = IF p \in old THEN Vacant ELSE quotes[p]
  BY <1>1 DEF Without
<1>4. slab \in [QuoteSlots -> Quote \cup {Vacant}]
  BY <1>1 DEF Without
<1>5. now' = now /\ requests' = requests
  BY DEF Admits, ReplaceAndOpen
<1> HIDE DEF old, slab, book, amount, quote
<1>6. CASE /\ quotes' = slab
           /\ chain' = [chain EXCEPT ![r][l] = linked]
           /\ UNCHANGED published
  <2>1. chain' = [chain EXCEPT ![r][l] = (chain[r][l] \ old) \cup {}]
    BY <1>6
  <2>2. Exchanged(r, l, old, {}, quote)
    BY <1>1, <1>2, <1>3, <1>5, <1>6, <2>1 DEF Exchanged
  <2> QED BY <1>6, <2>2 DEF old, quote
<1>7. ASSUME NEW q \in QuoteSlots, slab[q] = Vacant,
             OpenQuote(q, quote, amount, slab, book, linked)
      PROVE  /\ Exchanged(r, l, old, {q}, quote)
             /\ published' = [published EXCEPT ![r][l] =
                       PublishedPrice(quotes', chain'[r][l], requests[r].legs[l],
                                      published[r][l])]
  <2>1. quote.request = r /\ quote.leg = l
    BY DEF quote, NewQuote
  <2>2. /\ quotes' = [slab EXCEPT ![q] = quote]
        /\ chain' = [chain EXCEPT ![r][l] = linked \cup {q}]
        /\ published' = [published EXCEPT ![r][l] =
             PublishedPrice([slab EXCEPT ![q] = quote], linked \cup {q},
                            requests[r].legs[l], published[r][l])]
    BY <1>7, <2>1 DEF OpenQuote, Link
  <2>3. chain'[r][l] = linked \cup {q}
    BY <1>1, <2>2
  <2>4. \A p \in QuoteSlots : quotes'[p] =
          IF p \in {q} THEN quote ELSE IF p \in old THEN Vacant ELSE quotes[p]
    BY <1>3, <1>4, <2>2
  <2>5. q \in old \/ quotes[q] = Vacant
    BY <1>3, <1>7
  <2>6. Exchanged(r, l, old, {q}, quote)
    BY <1>2, <1>5, <2>2, <2>4, <2>5 DEF Exchanged
  <2> QED BY <2>2, <2>3, <2>6
<1>8. \/ /\ quotes' = slab
         /\ chain' = [chain EXCEPT ![r][l] = linked]
         /\ UNCHANGED published
      \/ \E q \in QuoteSlots :
           slab[q] = Vacant /\ OpenQuote(q, quote, amount, slab, book, linked)
  BY DEF Admits, ReplaceAndOpen, NewQuote, old, quote, slab, book, amount
<1> QED BY <1>6, <1>7, <1>8 DEF old, quote

-----------------------------------------------------------------------------
(* One standing quote per maker and leg                                     *)

LEMMA ConsumedState ==
  ASSUME IInv, NEW q \in QuoteSlots, quotes[q] # Vacant
  PROVE  quotes[q] \in Quote /\ ConsumedFrom(q).state = "Consumed"
<1>1. quotes[q] \in Quote
  BY DEF IInv, TypeRest
<1> QED BY <1>1 DEF ConsumedFrom, Quote

LEMMA FadingKeepsOne ==
  ASSUME IInv, OneStandingQuotePerMaker, Fading
  PROVE  OneStandingQuotePerMaker'
<1>1. \A q \in QuoteSlots : quotes'[q] # Vacant /\ quotes'[q].state = "Active" =>
        quotes[q] # Vacant /\ quotes'[q] = quotes[q]
  BY ConsumedState DEF Fading
<1> QED BY <1>1 DEF OneStandingQuotePerMaker

\* Replacement takes every active quote the maker had on the leg.
LEMMA ReplacesAll ==
  ASSUME IInv, OneStandingQuotePerMaker, NEW m, NEW r \in RequestSlots, NEW l \in LegIds,
         InState(r, "Open"),
         NEW q \in QuoteSlots, quotes[q] # Vacant, quotes[q].state = "Active",
         quotes[q].maker = m, quotes[q].request = r, quotes[q].leg = l
  PROVE  q \in StandingQuote(r, l, m)
<1>1. q \in chain[r][l] /\ quotes[q] \in Quote
  BY DEF IInv, LegChainsSound, TypeRest
<1>2. \A p \in chain[r][l] : p \in QuoteSlots /\ quotes[p] # Vacant
                            /\ quotes[p].request = r /\ quotes[p].leg = l
  BY DEF IInv, LegChainsSound
<1>3. \A p \in chain[r][l] : quotes[p].maker = m /\ quotes[p].state = "Active" => p = q
  BY <1>2 DEF OneStandingQuotePerMaker
<1>4. quotes[q].arrival <= quotes[q].arrival
  BY <1>1 DEF Quote
<1> QED BY <1>1, <1>3, <1>4 DEF StandingQuote

LEMMA AdmissionKeepsOne ==
  ASSUME IInv, OneStandingQuotePerMaker, NEW m, NEW r \in RequestSlots, NEW l \in LegIds,
         NEW quote, NEW added, InState(r, "Open"),
         quote.maker = m, quote.request = r, quote.leg = l,
         Exchanged(r, l, StandingQuote(r, l, m), added, quote),
         \A p, q \in added : p = q
  PROVE  OneStandingQuotePerMaker'
<1>1. \A q \in QuoteSlots : q \notin added /\ quotes'[q] # Vacant =>
        quotes'[q] = quotes[q] /\ q \notin StandingQuote(r, l, m)
  BY DEF Exchanged
<1>2. ASSUME NEW p \in QuoteSlots, NEW q \in QuoteSlots, p \in added, q \notin added,
             quotes'[q] # Vacant, quotes'[q].state = "Active", quotes'[q].maker = m
      PROVE  ~(quotes'[q].request = r /\ quotes'[q].leg = l)
  BY <1>1, <1>2, ReplacesAll
<1>3. \A p \in QuoteSlots : p \in added => quotes'[p] = quote
  BY DEF Exchanged
<1> SUFFICES ASSUME NEW p \in QuoteSlots, NEW q \in QuoteSlots,
                    quotes'[p] # Vacant, quotes'[q] # Vacant, p # q,
                    quotes'[p].state = "Active", quotes'[q].state = "Active",
                    quotes'[p].maker = quotes'[q].maker,
                    quotes'[p].request = quotes'[q].request,
                    quotes'[p].leg = quotes'[q].leg
             PROVE  FALSE
  BY DEF OneStandingQuotePerMaker
<1>4. CASE p \in added
  BY <1>2, <1>3, <1>4
<1>5. CASE q \in added
  BY <1>2, <1>3, <1>5
<1>6. CASE p \notin added /\ q \notin added
  BY <1>1, <1>6 DEF OneStandingQuotePerMaker
<1> QED BY <1>4, <1>5, <1>6

LEMMA NextKeepsOne ==
  ASSUME IInv, OneStandingQuotePerMaker, [Next]_vars
  PROVE  OneStandingQuotePerMaker'
<1>1. CASE Fading
  BY <1>1, FadingKeepsOne
<1>2. ASSUME NEW m \in Accounts, NEW r \in RequestSlots, NEW l \in LegIds,
             NEW price \in Nat, NEW size \in Nat, NEW expires_at \in Nat,
             Admits(m, r, l, price, size, expires_at)
      PROVE  OneStandingQuotePerMaker'
  <2> DEFINE quote == NewQuote(m, r, l, price, size, expires_at)
  <2>1. quote.maker = m /\ quote.request = r /\ quote.leg = l
    BY DEF NewQuote
  <2> HIDE DEF quote
  <2>2. InState(r, "Open")
    BY <1>2 DEF Admits, QuoteAdmissible
  <2>3. \E added : /\ Exchanged(r, l, StandingQuote(r, l, m), added, quote)
                   /\ \A p, q \in added : p = q
    <3>1. \/ Exchanged(r, l, StandingQuote(r, l, m), {}, quote)
          \/ \E q \in QuoteSlots : Exchanged(r, l, StandingQuote(r, l, m), {q}, quote)
      BY <1>2, Admission DEF quote
    <3>2. CASE Exchanged(r, l, StandingQuote(r, l, m), {}, quote)
      <4>1. \A p, q \in {} : p = q
        OBVIOUS
      <4> QED BY <3>2, <4>1
    <3>3. ASSUME NEW n \in QuoteSlots, Exchanged(r, l, StandingQuote(r, l, m), {n}, quote)
          PROVE  \E added : /\ Exchanged(r, l, StandingQuote(r, l, m), added, quote)
                            /\ \A p, q \in added : p = q
      <4>1. \A p, q \in {n} : p = q
        OBVIOUS
      <4> QED BY <3>3, <4>1
    <3> QED BY <3>1, <3>2, <3>3
  <2> QED BY <2>1, <2>2, <2>3, AdmissionKeepsOne
<1> QED BY <1>1, <1>2, StepKinds

(* A maker stands with at most one quote on a leg: replacement is complete, *)
(* so the slab holds no more quotes than makers times legs (engine.rs       *)
(* submit_quote).                                                           *)
THEOREM OneQuotePerMaker == Spec => []OneStandingQuotePerMaker
<1>1. Init => OneStandingQuotePerMaker
  BY DEF Init, OneStandingQuotePerMaker
<1>2. IInv /\ OneStandingQuotePerMaker /\ [Next]_vars => OneStandingQuotePerMaker'
  BY NextKeepsOne
<1> QED BY <1>1, <1>2, Inductive, PTL DEF Spec

-----------------------------------------------------------------------------
(* The feed                                                                 *)

(* A leg with candidates has a best one: the earliest of the cheapest.      *)
LEMMA BestExists ==
  ASSUME NEW slab, NEW linked, NEW leg, Eligible(slab, linked, leg) # {},
         \A q \in Eligible(slab, linked, leg) : slab[q].price \in Nat /\ slab[q].arrival \in Nat
  PROVE  Best(slab, linked, leg) # {}
<1> DEFINE E == Eligible(slab, linked, leg)
           P == {slab[q].price : q \in E}
<1>1. PICK low \in P : \A y \in P : low <= y
  <2>1. P \subseteq Nat /\ P # {}
    OBVIOUS
  <2> HIDE DEF P
  <2> QED BY <2>1, LeastNatural
<1> DEFINE A == {slab[q].arrival : q \in {p \in E : slab[p].price = low}}
<1>2. PICK first \in A : \A y \in A : first <= y
  <2>1. A \subseteq Nat /\ A # {}
    OBVIOUS
  <2> HIDE DEF A
  <2> QED BY <2>1, LeastNatural
<1>3. PICK q \in E : slab[q].price = low /\ slab[q].arrival = first
  OBVIOUS
<1>4. \A p \in E : ~Beats(slab[p], slab[q])
  <2> SUFFICES ASSUME NEW p \in E PROVE ~Beats(slab[p], slab[q])
    OBVIOUS
  <2>1. low <= slab[p].price
    BY <1>1
  <2>2. slab[p].price = low => first <= slab[p].arrival
    BY <1>2
  <2>3. low \in Nat /\ first \in Nat /\ slab[p].price \in Nat /\ slab[p].arrival \in Nat
    BY <1>3
  <2> QED BY <1>3, <2>1, <2>2, <2>3 DEF Beats
<1> QED BY <1>3, <1>4 DEF Best

(* What is published on an arrival is no more than any candidate asks.      *)
LEMMA PublishedIsLeast ==
  ASSUME NEW slab, NEW linked, NEW leg, NEW old, NEW e \in Eligible(slab, linked, leg),
         \A q \in Eligible(slab, linked, leg) : slab[q].price \in Nat /\ slab[q].arrival \in Nat
  PROVE  /\ PublishedPrice(slab, linked, leg, old) \in Nat
         /\ PublishedPrice(slab, linked, leg, old) <= slab[e].price
<1> DEFINE best == CHOOSE q \in Best(slab, linked, leg) : TRUE
<1>1. Best(slab, linked, leg) # {}
  BY BestExists
<1>2. best \in Best(slab, linked, leg)
  BY <1>1
<1>3. PublishedPrice(slab, linked, leg, old) = slab[best].price
  BY <1>1 DEF PublishedPrice
<1> HIDE DEF best
<1>4. best \in Eligible(slab, linked, leg) /\ (e # best => ~Beats(slab[e], slab[best]))
  BY <1>2 DEF Best
<1>5. slab[best].price <= slab[e].price
  BY <1>4 DEF Beats
<1> QED BY <1>3, <1>4, <1>5

(* Stronger than the property: no candidate at all, not only the best one,  *)
(* asks less than its leg has published.                                    *)
FeedBelowOffers ==
  \A r \in RequestSlots : InState(r, "Open") =>
    \A l \in LegsOf(r) : \A q \in Eligible(quotes, chain[r][l], requests[r].legs[l]) :
      published[r][l] # Vacant /\ published[r][l] <= quotes[q].price

LEMMA OpenLegs ==
  ASSUME IInv, NEW r \in RequestSlots, InState(r, "Open")
  PROVE  /\ LegsOf(r) \subseteq LegIds
         /\ \A l \in LegsOf(r) : chain[r][l] =
              {q \in QuoteSlots : quotes[q] # Vacant /\ quotes[q].request = r /\ quotes[q].leg = l}
<1>1. requests[r] \in Request
  BY DEF IInv, TypeRest, InState
<1>2. requests[r].legs \in Seq(LegSpec) /\ Len(requests[r].legs) \in LegIds
  BY <1>1 DEF Request, Basket
<1>3. LegsOf(r) \subseteq LegIds
  BY <1>2, EngineConstants DEF LegsOf, LegIds
<1> QED BY <1>3 DEF IInv, LegChainsSound

LEMMA FadingKeepsFeed ==
  ASSUME IInv, IInv', FeedBelowOffers, Fading
  PROVE  FeedBelowOffers'
<1> SUFFICES ASSUME NEW r \in RequestSlots, InState(r, "Open")',
                    NEW l \in LegsOf(r)',
                    NEW q \in Eligible(quotes, chain[r][l], requests[r].legs[l])'
             PROVE  published'[r][l] # Vacant /\ published'[r][l] <= quotes'[q].price
  BY DEF FeedBelowOffers
<1>1. chain'[r] = chain[r] /\ (requests'[r] = requests[r] \/ requests[r] = Vacant)
  BY DEF Fading
<1>2. q \in chain[r][l] /\ quotes'[q].state = "Active" /\ now' < quotes'[q].expires_at
      /\ quotes'[q].size >= requests'[r].legs[l].size
      /\ quotes'[q].price <= requests'[r].legs[l].limit
  BY <1>1 DEF Eligible, Live
<1>3. l \in LegIds
  <2>1. requests'[r] \in Request
    BY DEF IInv, TypeRest, InState
  <2>2. requests'[r].legs \in Seq(LegSpec) /\ Len(requests'[r].legs) \in LegIds
    BY <2>1 DEF Request, Basket
  <2> QED BY <2>2, EngineConstants DEF LegsOf, LegIds
<1>4. requests[r] # Vacant
  BY <1>2, <1>3 DEF IInv, VacantLegsEmpty
<1>5. q \in QuoteSlots /\ quotes'[q] # Vacant
  BY <1>1, <1>2, <1>3 DEF IInv, LegChainsSound
<1>6. quotes[q] \in Quote /\ quotes'[q] = quotes[q]
  BY <1>2, <1>5, ConsumedState DEF Fading
<1>7. now < quotes[q].expires_at
  <2>1. now \in Nat /\ now' \in Nat /\ now <= now' /\ quotes[q].expires_at \in Nat
    BY <1>6 DEF IInv, TypeRest, Fading, Quote
  <2> QED BY <1>2, <1>6, <2>1
<1>8. q \in Eligible(quotes, chain[r][l], requests[r].legs[l])
  BY <1>1, <1>2, <1>4, <1>6, <1>7 DEF Eligible, Live
<1>9. InState(r, "Open") /\ l \in LegsOf(r)
  BY <1>1, <1>4 DEF InState, LegsOf
<1>10. published' = published
  BY DEF Fading
<1> QED BY <1>6, <1>8, <1>9, <1>10 DEF FeedBelowOffers

(* On the leg it joins, an arrival publishes the best of what is then there; *)
(* when there is none, nothing is to be shown.  Other legs do not move.      *)
LEMMA AdmissionKeepsFeed ==
  ASSUME IInv, IInv', FeedBelowOffers, NEW m \in Accounts, NEW r \in RequestSlots,
         NEW l \in LegIds, NEW price \in Nat, NEW size \in Nat, NEW expires_at \in Nat,
         Admits(m, r, l, price, size, expires_at)
  PROVE  FeedBelowOffers'
<1> DEFINE old == StandingQuote(r, l, m)
           quote == NewQuote(m, r, l, price, size, expires_at)
           paper == PublishedPrice(quotes', chain'[r][l], requests[r].legs[l], published[r][l])
<1>1. PICK added \in SUBSET QuoteSlots :
        /\ Exchanged(r, l, old, added, quote)
        /\ \/ added = {} /\ published' = published
           \/ published' = [published EXCEPT ![r][l] = paper]
  <2>1. CASE Exchanged(r, l, old, {}, quote) /\ published' = published
    BY <2>1
  <2>2. ASSUME NEW q \in QuoteSlots, Exchanged(r, l, old, {q}, quote),
               published' = [published EXCEPT ![r][l] = paper]
        PROVE  \E added \in SUBSET QuoteSlots :
                 /\ Exchanged(r, l, old, added, quote)
                 /\ \/ added = {} /\ published' = published
                    \/ published' = [published EXCEPT ![r][l] = paper]
    <3>1. {q} \in SUBSET QuoteSlots
      OBVIOUS
    <3> QED BY <2>2, <3>1
  <2> HIDE DEF old, quote, paper
  <2>3. \/ Exchanged(r, l, old, {}, quote) /\ published' = published
        \/ \E q \in QuoteSlots : /\ Exchanged(r, l, old, {q}, quote)
                                 /\ published' = [published EXCEPT ![r][l] = paper]
    BY Admission DEF old, quote, paper
  <2> QED BY <2>1, <2>2, <2>3
<1>2. InState(r, "Open") /\ l \in LegsOf(r)
  BY DEF Admits, QuoteAdmissible
<1> HIDE DEF old, quote, paper
<1> SUFFICES ASSUME NEW s \in RequestSlots, InState(s, "Open")',
                    NEW k \in LegsOf(s)',
                    NEW e \in Eligible(quotes, chain[s][k], requests[s].legs[k])'
             PROVE  published'[s][k] # Vacant /\ published'[s][k] <= quotes'[e].price
  BY DEF FeedBelowOffers
<1>3. now' = now /\ requests' = requests /\ InState(s, "Open") /\ k \in LegsOf(s)
  BY <1>1 DEF Exchanged, InState, LegsOf
<1>4. k \in LegIds
  BY <1>3, OpenLegs
<1>5. e \in QuoteSlots /\ quotes'[e] # Vacant /\ quotes'[e].request = s /\ quotes'[e].leg = k
      /\ quotes'[e] \in Quote /\ e \in chain'[s][k]
  <2>1. e \in chain'[s][k]
    BY DEF Eligible
  <2> QED BY <1>4, <2>1 DEF IInv, LegChainsSound, TypeRest
<1>6. published \in [RequestSlots -> [LegIds -> Nat \cup {Vacant}]]
      /\ chain \in [RequestSlots -> [LegIds -> SUBSET QuoteSlots]]
  BY DEF IInv, TypeRest
<1>7. ASSUME e \notin added, published'[s][k] = published[s][k]
      PROVE  published'[s][k] # Vacant /\ published'[s][k] <= quotes'[e].price
  <2>1. quotes'[e] = quotes[e] /\ quotes[e] # Vacant
    BY <1>1, <1>5, <1>7 DEF Exchanged
  <2>2. e \in chain[s][k]
    BY <1>3, <1>4, <1>5, <2>1, OpenLegs
  <2>3. e \in Eligible(quotes, chain[s][k], requests[s].legs[k])
    BY <1>3, <2>1, <2>2 DEF Eligible, Live
  <2> QED BY <1>3, <1>7, <2>1, <2>3 DEF FeedBelowOffers
<1>8. CASE s = r /\ k = l /\ published' = [published EXCEPT ![r][l] = paper]
  <2>1. e \in Eligible(quotes', chain'[r][l], requests[r].legs[l])
    BY <1>3, <1>8 DEF Eligible, Live
  <2>2. \A q \in Eligible(quotes', chain'[r][l], requests[r].legs[l]) :
          quotes'[q].price \in Nat /\ quotes'[q].arrival \in Nat
    <3> SUFFICES ASSUME NEW q \in Eligible(quotes', chain'[r][l], requests[r].legs[l])
                 PROVE  quotes'[q].price \in Nat /\ quotes'[q].arrival \in Nat
      OBVIOUS
    <3>1. q \in chain'[r][l]
      BY DEF Eligible
    <3>2. q \in QuoteSlots /\ quotes'[q] # Vacant
      BY <1>4, <1>8, <3>1 DEF IInv, LegChainsSound
    <3>3. quotes'[q] \in Quote
      BY <3>2 DEF IInv, TypeRest
    <3> QED BY <3>3 DEF Quote
  <2>3. paper \in Nat /\ paper <= quotes'[e].price
    BY <2>1, <2>2, PublishedIsLeast DEF paper
  <2>4. published'[r][l] = paper
    BY <1>6, <1>8
  <2> QED BY <1>8, <2>3, <2>4, VacantIsNoValue
<1>9. CASE ~(s = r /\ k = l)
  <2>1. published'[s][k] = published[s][k]
    BY <1>1, <1>4, <1>6, <1>9
  <2>2. e \notin added
    <3>1. chain'[s][k] = chain[s][k]
      BY <1>1, <1>4, <1>6, <1>9 DEF Exchanged
    <3>2. quotes[e] # Vacant /\ quotes[e].request = s /\ quotes[e].leg = k
      BY <1>3, <1>5, <3>1, OpenLegs
    <3>3. e \notin chain[r][l]
      BY <1>2, <1>9, <3>2, OpenLegs
    <3> QED BY <1>1, <3>2, <3>3 DEF Exchanged
  <2> QED BY <1>7, <2>1, <2>2
<1>10. CASE s = r /\ k = l /\ added = {} /\ published' = published
  BY <1>7, <1>10
<1> QED BY <1>1, <1>8, <1>9, <1>10

LEMMA NextKeepsFeed == IInv /\ FeedBelowOffers /\ [Next]_vars => FeedBelowOffers'
<1> SUFFICES ASSUME IInv, FeedBelowOffers, [Next]_vars PROVE FeedBelowOffers'
  OBVIOUS
<1>1. IInv'
  BY NextInv
<1>2. CASE Fading
  BY <1>1, <1>2, FadingKeepsFeed
<1>3. ASSUME NEW m \in Accounts, NEW r \in RequestSlots, NEW l \in LegIds,
             NEW price \in Nat, NEW size \in Nat, NEW expires_at \in Nat,
             Admits(m, r, l, price, size, expires_at)
      PROVE  FeedBelowOffers'
  BY <1>1, <1>3, AdmissionKeepsFeed
<1> QED BY <1>2, <1>3, StepKinds

(* A requester is never shown a price worse than the one they would fill at, *)
(* although nothing is published when a quote expires, is released or        *)
(* consumed (engine.rs submit_quote, the only place that publishes).         *)
THEOREM FeedSound == Spec => []FeedNeverPessimistic
<1>1. Init => FeedBelowOffers
  BY DEF Init, FeedBelowOffers, InState
<1>2. FeedBelowOffers => FeedNeverPessimistic
  BY DEF FeedBelowOffers, FeedNeverPessimistic, Best
<1> QED BY <1>1, <1>2, NextKeepsFeed, Inductive, PTL DEF Spec

-----------------------------------------------------------------------------
(* No quote is lost in silence                                              *)

(* No price exceeds what a settled unit pays, so a maker's contribution is  *)
(* no debt and the claim of a live quote is a claim.                        *)
PricesWithinUnit ==
  \A q \in QuoteSlots : quotes[q] # Vacant => quotes[q].price <= UNIT

LEMMA NextKeepsPrices ==
  ASSUME IInv, PricesWithinUnit, [Next]_vars
  PROVE  PricesWithinUnit'
<1>1. CASE Fading
  <2> SUFFICES ASSUME NEW q \in QuoteSlots, quotes'[q] # Vacant
               PROVE  quotes'[q].price <= UNIT
    BY DEF PricesWithinUnit
  <2>1. quotes[q] # Vacant /\ quotes'[q] \in {quotes[q], ConsumedFrom(q)}
    BY <1>1 DEF Fading
  <2>2. quotes'[q].price = quotes[q].price
    <3>1. quotes[q] \in Quote
      BY <2>1 DEF IInv, TypeRest
    <3> QED BY <2>1, <3>1 DEF ConsumedFrom, Quote
  <2> QED BY <2>1, <2>2 DEF PricesWithinUnit
<1>2. ASSUME NEW m \in Accounts, NEW r \in RequestSlots, NEW l \in LegIds,
             NEW price \in Nat, NEW size \in Nat, NEW expires_at \in Nat,
             Admits(m, r, l, price, size, expires_at)
      PROVE  PricesWithinUnit'
  <2> DEFINE quote == NewQuote(m, r, l, price, size, expires_at)
  <2>1. quote.price <= UNIT
    BY <1>2 DEF NewQuote, Admits, QuoteAdmissible
  <2> HIDE DEF quote
  <2>2. \E added : Exchanged(r, l, StandingQuote(r, l, m), added, quote)
    BY <1>2, Admission DEF quote
  <2> QED BY <2>1, <2>2 DEF Exchanged, PricesWithinUnit
<1> QED BY <1>1, <1>2, StepKinds

\* What a live quote has reserved.
LEMMA LiveClaim ==
  ASSUME IInv, PricesWithinUnit, NEW book, BookInv(book), NEW r \in RequestSlots,
         NEW l \in LegsOf(r), InState(r, "Open"),
         NEW q \in chain[r][l], Live(quotes[q])
  PROVE  /\ q \in QuoteSlots /\ quotes[q] \in Quote
         /\ quotes[q].request = r /\ quotes[q].leg = l
         /\ book[q] # Vacant /\ book[q].list = Vacant
         /\ book[q].amount = MakerContribution(requests[r].legs[l], quotes[q].price)
         /\ book[q].amount \in Nat /\ quotes[q].price <= UNIT
<1>1. q \in QuoteSlots /\ quotes[q] # Vacant /\ quotes[q].request = r /\ quotes[q].leg = l
  BY OpenLegs
<1>2. quotes[q] \in Quote
  BY <1>1 DEF IInv, TypeRest
<1> DEFINE amount == MakerContribution(requests[r].legs[l], quotes[q].price)
<1>3. book[q] = Reserved(quotes[q].maker, amount, quotes[q].expires_at)
  BY <1>1 DEF BookInv, BookBacked, QuoteBacked
<1>4. quotes[q].price \in Nat /\ quotes[q].price <= UNIT
  BY <1>1, <1>2 DEF Quote, PricesWithinUnit
<1>5. requests[r].legs[l] \in LegSpec
  <2>1. requests[r] \in Request
    BY DEF IInv, TypeRest, InState
  <2>2. requests[r].legs \in Seq(LegSpec)
    BY <2>1 DEF Request, Basket
  <2> QED BY <2>2 DEF LegsOf
<1>6. amount \in Nat
  BY <1>4, <1>5, ContributionType
<1> HIDE DEF amount
<1>7. Reserved(quotes[q].maker, amount, quotes[q].expires_at) \in Claim
  BY <1>2, <1>6 DEF Reserved, Claim, Quote
<1> QED BY <1>1, <1>2, <1>3, <1>4, <1>6, <1>7, VacantIsNoValue DEF Reserved, amount

(* What an accept does to the winner of a leg.                              *)
LEMMA WinnerOutcome ==
  ASSUME IInv, PricesWithinUnit, NEW r \in RequestSlots, NEW expected, InState(r, "Open"),
         NEW win \in Plan(r, expected), CommitAccept(r, win, Normalised(Requester(r))),
         NEW l \in LegsOf(r)
  PROVE  /\ win[l] \in QuoteSlots /\ quotes[win[l]] \in Quote
         /\ quotes[win[l]].request = r /\ quotes[win[l]].leg = l
         /\ quotes'[win[l]] = ConsumedFrom(win[l])
         /\ claims'[win[l]] # Vacant /\ claims'[win[l]].list = r
         /\ claims'[win[l]].amount = MakerContribution(requests[r].legs[l], quotes[win[l]].price)
         /\ quotes[win[l]].price <= UNIT
<1> DEFINE book == Normalised(Requester(r))
           winners == {win[k] : k \in LegsOf(r)}
           losers == LinkedOn(r) \ winners
           q == win[l]
<1>1. BookInv(book)
  BY NormalisedBook
<1>2. PICK total : claims' = CommitClaims(book, r, winners, losers, total)
  BY DEF CommitAccept
<1>3. quotes' = [p \in QuoteSlots |->
                   CASE p \in losers -> Vacant
                     [] p \in winners -> [quotes[p] EXCEPT !.state = "Consumed"]
                     [] OTHER -> quotes[p]]
  BY DEF CommitAccept
<1>4. q \in winners /\ q \notin losers
  OBVIOUS
<1>5. q \in chain[r][l] /\ Live(quotes[q])
  BY DEF Plan, Best, Eligible
<1>6. /\ q \in QuoteSlots /\ quotes[q] \in Quote
      /\ quotes[q].request = r /\ quotes[q].leg = l
      /\ book[q] # Vacant
      /\ book[q].amount = MakerContribution(requests[r].legs[l], quotes[q].price)
      /\ book[q].amount \in Nat
      /\ quotes[q].price <= UNIT
  <2> HIDE DEF book, q
  <2> QED BY <1>1, <1>5, LiveClaim
<1> HIDE DEF book, winners, losers
<1>7. quotes'[q] = ConsumedFrom(q)
  BY <1>3, <1>4, <1>6 DEF ConsumedFrom
<1>8. claims'[q] = Committed(book[q], r, book[q].amount)
  <2>1. q \in Owners /\ q # r
    BY <1>6, EngineConstants DEF Owners
  <2> QED BY <1>2, <1>4, <1>6, <2>1 DEF CommitClaims
<1>9. Committed(book[q], r, book[q].amount) \in Claim
  <2>1. book[q] \in Claim
    BY <1>1, <1>6 DEF BookInv, BookTyped, Owners
  <2> QED BY <1>6, <2>1 DEF Committed, Claim
<1>10. claims'[q] # Vacant /\ claims'[q].list = r /\ claims'[q].amount = book[q].amount
  BY <1>8, <1>9, VacantIsNoValue DEF Committed
<1> QED BY <1>6, <1>7, <1>10

(* Only an accept consumes, and the claim of what it consumes is then held. *)

\* A consumed quote holds its claim, on the list of its request.
ConsumedHold ==
  \A q \in QuoteSlots : quotes[q] # Vacant /\ quotes[q].state = "Consumed" =>
    claims[q] # Vacant /\ claims[q].list = quotes[q].request

Consumes(q) == quotes'[q] # Vacant /\ quotes'[q].state = "Consumed" /\ quotes'[q] # quotes[q]

LEMMA AcceptConsumes ==
  ASSUME IInv, PricesWithinUnit, NEW r \in RequestSlots, NEW expected,
         AcceptRequest(r, expected), NEW q \in QuoteSlots, Consumes(q)
  PROVE  claims'[q] # Vacant /\ claims'[q].list = quotes'[q].request
<1> DEFINE book == Normalised(Requester(r))
<1>1. CASE Refuse(book)
  BY <1>1 DEF Refuse, Consumes
<1>2. ASSUME InState(r, "Open"), NEW win \in Plan(r, expected), CommitAccept(r, win, book)
      PROVE  claims'[q] # Vacant /\ claims'[q].list = quotes'[q].request
  <2> DEFINE winners == {win[l] : l \in LegsOf(r)}
             losers == LinkedOn(r) \ winners
  <2>1. quotes' = [p \in QuoteSlots |->
                     CASE p \in losers -> Vacant
                       [] p \in winners -> [quotes[p] EXCEPT !.state = "Consumed"]
                       [] OTHER -> quotes[p]]
    BY <1>2 DEF CommitAccept
  <2>2. \A p \in winners : p \notin losers
    OBVIOUS
  <2>3. q \in winners
    BY <2>1, <2>2 DEF Consumes
  <2>4. PICK l \in LegsOf(r) : q = win[l]
    BY <2>3
  <2>5. /\ quotes[q] \in Quote /\ quotes[q].request = r
        /\ quotes'[q] = ConsumedFrom(q)
        /\ claims'[q] # Vacant /\ claims'[q].list = r
    BY <1>2, <2>4, WinnerOutcome
  <2>6. quotes'[q].request = r
    BY <2>5 DEF ConsumedFrom, Quote
  <2> QED BY <2>5, <2>6
<1> QED BY <1>1, <1>2 DEF AcceptRequest, AcceptAdmissible

LEMMA OnlyAcceptConsumes ==
  ASSUME IInv, PricesWithinUnit, [Next]_vars, NEW q \in QuoteSlots, Consumes(q)
  PROVE  claims'[q] # Vacant /\ claims'[q].list = quotes'[q].request
<1>0. ASSUME NEW S, quotes' = Without(quotes, S) PROVE FALSE
  BY <1>0 DEF Without, Consumes, IInv, TypeRest
<1>1. ASSUME quotes' = quotes PROVE FALSE
  BY <1>1 DEF Consumes
<1>2. CASE Tick \/ UNCHANGED vars
  BY <1>1, <1>2 DEF Tick, vars
<1>3. CASE \E a \in Accounts, amount \in Balances : CreditAccount(a, amount)
  BY <1>1, <1>3 DEF CreditAccount
<1>4. CASE \E c \in Contracts, date \in EventDates : RegisterContract(c, date)
  BY <1>1, <1>4 DEF RegisterContract, Refuse
<1>5. CASE \E a \in Requesters, deadline \in Times, legs \in LegLists :
             SubmitRequest(a, deadline, legs)
  <2>1. PICK a \in Requesters, deadline \in Times, legs \in LegLists :
          SubmitRequest(a, deadline, legs)
    BY <1>5
  <2>2. quotes' = quotes
    BY <2>1 DEF SubmitRequest, OpenRequest, Refuse
  <2> QED BY <1>1, <2>2
<1>6. CASE \E r \in RequestSlots : RejectRequest(r)
  BY <1>0, <1>1, <1>6 DEF RejectRequest, Refuse
<1>7. CASE \E m \in Makers, r \in RequestSlots, l \in LegIds, price \in Prices,
             size \in Sizes, expires_at \in Times :
             SubmitQuote(m, r, l, price, size, expires_at)
  <2>1. PICK m \in Makers, r \in RequestSlots, l \in LegIds, price \in Prices,
             size \in Sizes, expires_at \in Times :
             SubmitQuote(m, r, l, price, size, expires_at)
    BY <1>7
  <2>2. m \in Accounts /\ price \in Nat /\ size \in Nat /\ expires_at \in Nat
    BY <2>1, InputTypes, EngineConstants
  <2> DEFINE quote == NewQuote(m, r, l, price, size, expires_at)
  <2>3. CASE Admits(m, r, l, price, size, expires_at)
    <3>1. \E added : Exchanged(r, l, StandingQuote(r, l, m), added, quote)
      BY <2>2, <2>3, Admission
    <3>2. quote.state = "Active"
      BY DEF NewQuote
    <3> HIDE DEF quote
    <3> QED BY <3>1, <3>2 DEF Exchanged, Consumes
  <2>4. CASE ~Admits(m, r, l, price, size, expires_at)
    BY <1>1, <2>1, <2>4 DEF SubmitQuote, Admits, Refuse
  <2> QED BY <2>3, <2>4
<1>8. CASE \E n \in QuoteSlots : CancelQuote(n)
  BY <1>1, <1>8 DEF CancelQuote, Refuse
<1>9. CASE \E r \in RequestSlots, expected \in Views : AcceptRequest(r, expected)
  BY <1>9, AcceptConsumes
<1>10. CASE \E r \in RequestSlots, status \in TxStatus : PollSettlement(r, status)
  BY <1>0, <1>1, <1>10 DEF PollSettlement, StillUnknown, Discharge, Refuse
<1> QED
  BY <1>2, <1>3, <1>4, <1>5, <1>6, <1>7, <1>8, <1>9, <1>10 DEF Next

(* A held claim stays until the request settles, and then the quote goes too. *)
LEMMA NextKeepsHold ==
  ASSUME IInv, IInv', PricesWithinUnit, ConsumedHold, [Next]_vars
  PROVE  ConsumedHold'
<1> SUFFICES ASSUME NEW q \in QuoteSlots, quotes'[q] # Vacant, quotes'[q].state = "Consumed"
             PROVE  claims'[q] # Vacant /\ claims'[q].list = quotes'[q].request
  BY DEF ConsumedHold
<1>1. CASE quotes'[q] # quotes[q]
  BY <1>1, OnlyAcceptConsumes DEF Consumes
<1>2. CASE quotes'[q] = quotes[q]
  <2>1. claims[q] # Vacant /\ claims[q].list = quotes[q].request /\ quotes[q] # Vacant
    BY <1>2 DEF ConsumedHold
  <2>2. quotes[q].request \in RequestSlots
    BY <2>1 DEF IInv, TypeRest, Quote
  <2>3. requests'[quotes[q].request].state = "Settling"
    BY <1>2 DEF IInv, QuotesPlaced, QuotesFollowTheirRequest, InState
  <2>4. Held(q) /\ q \in Owners
    BY <2>1, <2>2, VacantIsNoValue DEF Held, Owners
  <2>5. claims'[q] = claims[q]
    BY <2>1, <2>3, <2>4, HeldStep
  <2> QED BY <1>2, <2>1, <2>5
<1> QED BY <1>1, <1>2

MInv == IInv /\ PricesWithinUnit /\ ConsumedHold

LEMMA MarketInductive == Spec => []MInv
<1>1. Init => PricesWithinUnit /\ ConsumedHold
  BY DEF Init, PricesWithinUnit, ConsumedHold
<1>2. MInv /\ [Next]_vars => MInv'
  <2> SUFFICES ASSUME MInv, [Next]_vars PROVE MInv'
    OBVIOUS
  <2>1. IInv'
    BY NextInv DEF MInv
  <2> QED BY <2>1, NextKeepsPrices, NextKeepsHold DEF MInv
<1>3. Init => MInv
  BY <1>1, InitInv DEF MInv
<1> QED BY <1>2, <1>3, PTL DEF Spec

\* A quote is lost to its maker by a step: released, or failed by settlement.
Lost(q) ==
  /\ quotes[q] # Vacant /\ quotes'[q] # quotes[q]
  /\ quotes[q].state = "Active" => quotes'[q] # [quotes[q] EXCEPT !.state = "Consumed"]
  /\ quotes[q].state = "Consumed" => requests'[quotes[q].request].state # "Escrowed"

Told(q) == \E e \in reply'.events :
             "quote" \in DOMAIN e /\ e.quote = q /\ e.maker = quotes[q].maker

LEMMA NoticeTells ==
  ASSUME NEW q, NEW e \in reply'.events, NEW kind,
         e = [kind |-> kind, quote |-> q, maker |-> quotes[q].maker]
  PROVE  Told(q)
BY DEF Told

LEMMA NoticesTell ==
  ASSUME NEW released, NEW q \in released, NEW reason,
         Notices(released, reason) \subseteq reply'.events
  PROVE  Told(q)
<1> DEFINE kind == IF Live(quotes[q]) THEN reason ELSE "QuoteExpired"
<1>1. [kind |-> kind, quote |-> q, maker |-> quotes[q].maker] \in reply'.events
  BY DEF Notices
<1> HIDE DEF kind
<1> QED BY <1>1, NoticeTells

LEMMA RejectTells ==
  ASSUME IInv, NEW r \in RequestSlots, RejectRequest(r), NEW q \in QuoteSlots, Lost(q)
  PROVE  Told(q)
<1>1. ASSUME NEW book, Refuse(book) PROVE FALSE
  BY <1>1 DEF Refuse, Lost
<1>2. ASSUME quotes' = Without(quotes, LinkedOn(r)),
             Accepted(Notices(LinkedOn(r), "RequestRejected"))
      PROVE  Told(q)
  <2>1. q \in LinkedOn(r)
    BY <1>2 DEF Without, Lost, IInv, TypeRest
  <2>2. Notices(LinkedOn(r), "RequestRejected") \subseteq reply'.events
    BY <1>2 DEF Accepted
  <2> QED BY <2>1, <2>2, NoticesTell
<1> QED BY <1>1, <1>2 DEF RejectRequest

LEMMA QuoteTells ==
  ASSUME IInv, NEW m \in Accounts, NEW r \in RequestSlots, NEW l \in LegIds,
         NEW price \in Nat, NEW size \in Nat, NEW expires_at \in Nat,
         Admits(m, r, l, price, size, expires_at), NEW q \in QuoteSlots, Lost(q)
  PROVE  Told(q)
<1> DEFINE old == StandingQuote(r, l, m)
           quote == NewQuote(m, r, l, price, size, expires_at)
           notices == {[kind |-> "Replaced", quote |-> p, maker |-> m] : p \in old}
<1>1. \E added : Exchanged(r, l, old, added, quote)
  BY Admission
<1>2. q \in old
  <2> HIDE DEF old, quote
  <2> QED BY <1>1 DEF Exchanged, Lost
<1>3. quotes[q].maker = m
  BY <1>2 DEF StandingQuote
<1>4. notices \subseteq reply'.events
  BY DEF Admits, ReplaceAndOpen, Accepted, Refused
<1>5. [kind |-> "Replaced", quote |-> q, maker |-> quotes[q].maker] \in reply'.events
  <2> HIDE DEF old
  <2> QED BY <1>2, <1>3, <1>4
<1> QED BY <1>5, NoticeTells

LEMMA AcceptTells ==
  ASSUME IInv, NEW r \in RequestSlots, NEW expected, AcceptRequest(r, expected),
         NEW q \in QuoteSlots, Lost(q)
  PROVE  Told(q)
<1>1. ASSUME NEW book, Refuse(book) PROVE FALSE
  BY <1>1 DEF Refuse, Lost
<1>2. ASSUME NEW win \in Plan(r, expected), NEW book, CommitAccept(r, win, book)
      PROVE  Told(q)
  <2> DEFINE winners == {win[l] : l \in LegsOf(r)}
             losers == LinkedOn(r) \ winners
  <2>1. quotes' = [p \in QuoteSlots |->
                     CASE p \in losers -> Vacant
                       [] p \in winners -> [quotes[p] EXCEPT !.state = "Consumed"]
                       [] OTHER -> quotes[p]]
    BY <1>2 DEF CommitAccept
  <2>2. \A p \in winners : p \notin losers /\ quotes[p].state = "Active"
    BY <1>2 DEF Plan, Best, Eligible, Live
  <2>3. q \in losers
    <3> HIDE DEF winners, losers
    <3> QED BY <2>1, <2>2 DEF Lost
  <2>4. Notices(losers, "Outbid") \subseteq reply'.events
    BY <1>2 DEF CommitAccept, Accepted
  <2> HIDE DEF losers
  <2> QED BY <2>3, <2>4, NoticesTell
<1> QED BY <1>1, <1>2 DEF AcceptRequest

\* A reverted settlement names the makers on the committed list, and every quote it
\* closes is on it.
LEMMA PollTells ==
  ASSUME MInv, NEW r \in RequestSlots, NEW status, PollSettlement(r, status),
         NEW q \in QuoteSlots, Lost(q)
  PROVE  Told(q)
<1> DEFINE book == Normalised(Requester(r))
           makers == OnList(book, r) \cap QuoteSlots
           failed == {[kind |-> "SettlementFailed", quote |-> p, maker |-> quotes[p].maker]
                        : p \in makers}
<1>1. ASSUME Refuse(book) \/ StillUnknown(r, book) PROVE FALSE
  BY <1>1 DEF Refuse, StillUnknown, Lost
<1>2. ASSUME InState(r, "Settling"), NEW state, NEW events, Discharge(r, book, state, events)
      PROVE  /\ quotes[q].state = "Consumed" /\ quotes[q].request = r
             /\ requests'[quotes[q].request].state = state
  <2>1. quotes' = Without(quotes, ConsumedBy(r, Without(book, OnList(book, r))))
        /\ requests' = [requests EXCEPT ![r].state = state]
    BY <1>2 DEF Discharge
  <2>2. q \in ConsumedBy(r, Without(book, OnList(book, r)))
    BY <2>1 DEF Without, Lost, MInv, IInv, TypeRest
  <2>3. requests[r] \in Request
    BY <1>2 DEF InState, MInv, IInv, TypeRest
  <2> QED BY <2>1, <2>2, <2>3 DEF ConsumedBy, Request, MInv, IInv, TypeRest
<1>3. CASE InState(r, "Settling") /\ \E events : Discharge(r, book, "Escrowed", events)
  BY <1>2, <1>3 DEF Lost
<1>4. ASSUME InState(r, "Settling"), NEW more,
             Discharge(r, book, "SettlementFailed", failed \cup more)
      PROVE  Told(q)
  <2>1. quotes[q].state = "Consumed" /\ quotes[q].request = r /\ quotes[q] # Vacant
    BY <1>2, <1>4 DEF Lost
  <2>2. claims[q] # Vacant /\ claims[q].list = r /\ q \in Owners
    BY <2>1 DEF MInv, ConsumedHold, Owners
  <2>3. book[q] = claims[q]
    BY <2>2, NormalisedKeepsCommitted, VacantIsNoValue DEF Held
  <2>4. q \in makers
    BY <2>2, <2>3 DEF OnList
  <2>5. failed \subseteq reply'.events
    BY <1>4 DEF Discharge, Accepted
  <2> HIDE DEF makers
  <2>6. [kind |-> "SettlementFailed", quote |-> q, maker |-> quotes[q].maker] \in reply'.events
    BY <2>4, <2>5
  <2> QED BY <2>6, NoticeTells
<1> QED BY <1>1, <1>3, <1>4 DEF PollSettlement

LEMMA NextTells ==
  ASSUME MInv, [Next]_vars, NEW q \in QuoteSlots, Lost(q)
  PROVE  Told(q)
<1>1. ASSUME quotes' = quotes PROVE FALSE
  BY <1>1 DEF Lost
<1>2. CASE Tick \/ UNCHANGED vars
  BY <1>1, <1>2 DEF Tick, vars
<1>3. CASE \E a \in Accounts, amount \in Balances : CreditAccount(a, amount)
  BY <1>1, <1>3 DEF CreditAccount
<1>4. CASE \E c \in Contracts, date \in EventDates : RegisterContract(c, date)
  BY <1>1, <1>4 DEF RegisterContract, Refuse
<1>5. CASE \E a \in Requesters, deadline \in Times, legs \in LegLists :
             SubmitRequest(a, deadline, legs)
  <2>1. PICK a \in Requesters, deadline \in Times, legs \in LegLists :
          SubmitRequest(a, deadline, legs)
    BY <1>5
  <2>2. quotes' = quotes
    BY <2>1 DEF SubmitRequest, OpenRequest, Refuse
  <2> QED BY <1>1, <2>2
<1>6. CASE \E r \in RequestSlots : RejectRequest(r)
  BY <1>6, RejectTells DEF MInv
<1>7. CASE \E m \in Makers, r \in RequestSlots, l \in LegIds, price \in Prices,
             size \in Sizes, expires_at \in Times :
             SubmitQuote(m, r, l, price, size, expires_at)
  <2>1. PICK m \in Makers, r \in RequestSlots, l \in LegIds, price \in Prices,
             size \in Sizes, expires_at \in Times :
             SubmitQuote(m, r, l, price, size, expires_at)
    BY <1>7
  <2>2. m \in Accounts /\ price \in Nat /\ size \in Nat /\ expires_at \in Nat
    BY <2>1, InputTypes, EngineConstants
  <2>3. CASE Admits(m, r, l, price, size, expires_at)
    BY <2>2, <2>3, QuoteTells DEF MInv
  <2>4. CASE ~Admits(m, r, l, price, size, expires_at)
    BY <1>1, <2>1, <2>4 DEF SubmitQuote, Admits, Refuse
  <2> QED BY <2>3, <2>4
<1>8. CASE \E n \in QuoteSlots : CancelQuote(n)
  BY <1>1, <1>8 DEF CancelQuote, Refuse
<1>9. CASE \E r \in RequestSlots, expected \in Views : AcceptRequest(r, expected)
  BY <1>9, AcceptTells DEF MInv
<1>10. CASE \E r \in RequestSlots, status \in TxStatus : PollSettlement(r, status)
  BY <1>10, PollTells
<1> QED
  BY <1>2, <1>3, <1>4, <1>5, <1>6, <1>7, <1>8, <1>9, <1>10 DEF Next

(* Whatever takes a quote from its maker, a replacement, a rejection, a      *)
(* better offer or a failed settlement, the same command names the quote to  *)
(* the maker (engine.rs, the notices of each command).                       *)
THEOREM EveryLossIsTold == Spec => NoSilentRelease
<1>1. MInv /\ [Next]_vars =>
        [\A q \in QuoteSlots : Lost(q) => Told(q)]_vars
  BY NextTells
<1>2. (\A q \in QuoteSlots : Lost(q) => Told(q)) =>
       (\A q \in QuoteSlots :
          /\ quotes[q] # Vacant /\ quotes'[q] # quotes[q]
          /\ quotes[q].state = "Active" => quotes'[q] # [quotes[q] EXCEPT !.state = "Consumed"]
          /\ quotes[q].state = "Consumed" => requests'[quotes[q].request].state # "Escrowed"
          => \E e \in reply'.events :
               "quote" \in DOMAIN e /\ e.quote = q /\ e.maker = quotes[q].maker)
  BY DEF Lost, Told
<1>3. MInv /\ [Next]_vars =>
       [\A q \in QuoteSlots :
          /\ quotes[q] # Vacant /\ quotes'[q] # quotes[q]
          /\ quotes[q].state = "Active" => quotes'[q] # [quotes[q] EXCEPT !.state = "Consumed"]
          /\ quotes[q].state = "Consumed" => requests'[quotes[q].request].state # "Escrowed"
          => \E e \in reply'.events :
               "quote" \in DOMAIN e /\ e.quote = q /\ e.maker = quotes[q].maker]_vars
  BY <1>1, <1>2
<1> QED BY <1>3, MarketInductive, PTL DEF Spec, NoSilentRelease

-----------------------------------------------------------------------------
(***************************************************************************)
(* What the engine's claims add up to: admission keeps an account's claims *)
(* within its mirrored balance, and an accepted basket is funded to the    *)
(* unit.                                                                   *)
(***************************************************************************)

-----------------------------------------------------------------------------
(* Account totals                                                          *)

Amounts(book) == [o \in Owners |-> IF book[o] # Vacant THEN book[o].amount ELSE 0]

LEMMA OwnersFinite == IsFiniteSet(Owners)
BY FS_Union, EngineConstants DEF Owners

(* An account's total is the sum of the amounts of its claims.              *)
LEMMA ClaimedIsSum ==
  ASSUME NEW book, BookTyped(book), NEW a
  PROVE  /\ Claimed(book, a) = SumFunctionOnSet(Amounts(book), ClaimsOf(book, a))
         /\ Claimed(book, a) \in Nat
         /\ \A o \in Owners : Amounts(book)[o] \in Nat
         /\ IsFiniteSet(ClaimsOf(book, a))
<1> DEFINE S == ClaimsOf(book, a)
           h == [o \in S |-> book[o].amount]
<1>1. IsFiniteSet(S)
  BY OwnersFinite, FS_Subset DEF ClaimsOf
<1>2. \A o \in Owners : Amounts(book)[o] \in Nat
  BY DEF BookTyped, Claim, Amounts
<1>3. \A o \in S : Amounts(book)[o] \in Nat /\ h[o] = Amounts(book)[o]
  BY <1>2 DEF ClaimsOf, Amounts
<1>4. DOMAIN h = S
  OBVIOUS
<1>5. Claimed(book, a) = SumFunctionOnSet(h, S)
  BY <1>4 DEF Claimed, SumFunction
<1> HIDE DEF S, h
<1>6. SumFunctionOnSet(h, S) = SumFunctionOnSet(Amounts(book), S)
  BY <1>1, <1>3, SumSame
<1>7. SumFunctionOnSet(Amounts(book), S) \in Nat
  BY <1>1, <1>3, SumOne
<1> QED BY <1>1, <1>2, <1>5, <1>6, <1>7 DEF S

\* A reserved claim that has not expired becomes a committed one.
Commits(after, before) == before.list = Vacant /\ now < before.expires_at /\ after.list # Vacant

\* Every claim of `after` was a claim of the same account, of at least that amount: it
\* stands, or it has been committed.
Shrinks(after, before) ==
  \A o \in Owners : after[o] # Vacant =>
    /\ before[o] # Vacant /\ before[o].account = after[o].account
    /\ after[o].amount <= before[o].amount
    /\ after[o] = before[o] \/ Commits(after[o], before[o])

LEMMA ShrinkingLowers ==
  ASSUME NEW after, NEW before, BookTyped(after), BookTyped(before), Shrinks(after, before),
         NEW a
  PROVE  Claimed(after, a) <= Claimed(before, a)
<1> DEFINE R == ClaimsOf(after, a)
           S == ClaimsOf(before, a)
<1>1. R \in SUBSET S /\ S \subseteq Owners
  BY DEF Shrinks, ClaimsOf
<1>2. \A o \in R : Amounts(after)[o] \in Nat /\ Amounts(after)[o] <= Amounts(before)[o]
  BY ClaimedIsSum DEF Shrinks, ClaimsOf, Amounts
<1>3. (\A o \in S : Amounts(before)[o] \in Nat) /\ IsFiniteSet(S)
  BY <1>1, ClaimedIsSum
<1>4. /\ Claimed(after, a) = SumFunctionOnSet(Amounts(after), R)
      /\ Claimed(before, a) = SumFunctionOnSet(Amounts(before), S)
  BY ClaimedIsSum
<1> HIDE DEF R, S
<1> QED BY <1>1, <1>2, <1>3, <1>4, SumMonotone

(* Adding one claim adds its amount to its account and to no other.         *)
LEMMA AddingOne ==
  ASSUME NEW book, BookTyped(book), NEW p \in Owners, NEW c \in Claim, NEW after,
         BookTyped(after), after = [book EXCEPT ![p] = c], NEW a
  PROVE  /\ a # c.account => Claimed(after, a) <= Claimed(book, a)
         /\ a = c.account => Claimed(after, a) <= Claimed(book, a) + c.amount
<1> DEFINE R == ClaimsOf(after, a)
           S == ClaimsOf(book, a)
<1>1. after[p] = c /\ c # Vacant /\ \A o \in Owners : o # p => after[o] = book[o]
  BY VacantIsNoValue DEF BookTyped
<1>2. R \ {p} \in SUBSET S /\ S \subseteq Owners
  BY <1>1 DEF ClaimsOf
<1>3. \A o \in R \ {p} : Amounts(after)[o] \in Nat /\ Amounts(after)[o] <= Amounts(book)[o]
  <2>1. \A o \in Owners : Amounts(after)[o] \in Nat
    BY ClaimedIsSum
  <2>2. \A o \in R \ {p} : o \in Owners /\ Amounts(after)[o] = Amounts(book)[o]
    BY <1>1 DEF ClaimsOf, Amounts
  <2> SUFFICES ASSUME NEW o \in R \ {p}
               PROVE  Amounts(after)[o] \in Nat /\ Amounts(after)[o] <= Amounts(book)[o]
    OBVIOUS
  <2>3. o \in Owners /\ Amounts(after)[o] = Amounts(book)[o]
    BY <2>2
  <2>4. Amounts(after)[o] \in Nat
    BY <2>1, <2>3
  <2> HIDE DEF R
  <2> QED BY <2>3, <2>4
<1>4. (\A o \in S : Amounts(book)[o] \in Nat) /\ IsFiniteSet(S) /\ IsFiniteSet(R)
      /\ (\A o \in R : Amounts(after)[o] \in Nat)
  <2>1. R \subseteq Owners
    BY DEF ClaimsOf
  <2>2. (\A o \in Owners : Amounts(book)[o] \in Nat) /\ IsFiniteSet(S)
    BY ClaimedIsSum
  <2>3. (\A o \in Owners : Amounts(after)[o] \in Nat) /\ IsFiniteSet(R)
    BY ClaimedIsSum
  <2> HIDE DEF R, S
  <2> QED BY <1>2, <2>1, <2>2, <2>3
<1>5. /\ Claimed(after, a) = SumFunctionOnSet(Amounts(after), R)
      /\ Claimed(book, a) = SumFunctionOnSet(Amounts(book), S)
  BY ClaimedIsSum
<1>6. Amounts(after)[p] = c.amount /\ c.amount \in Nat
  BY <1>1 DEF Amounts, Claim
<1>7. p \in R <=> a = c.account
  BY <1>1 DEF ClaimsOf
<1> HIDE DEF R, S
<1>8. SumFunctionOnSet(Amounts(after), R \ {p}) <= SumFunctionOnSet(Amounts(book), S)
  BY <1>2, <1>3, <1>4, SumMonotone
<1>9. SumFunctionOnSet(Amounts(book), S) \in Nat
  BY <1>4, SumOne
<1>10. CASE p \in R
  <2>1. SumFunctionOnSet(Amounts(after), R)
          = Amounts(after)[p] + SumFunctionOnSet(Amounts(after), R \ {p})
    BY <1>4, <1>10, SumOne
  <2>2. SumFunctionOnSet(Amounts(after), R \ {p}) \in Nat
    <3>1. IsFiniteSet(R \ {p})
      BY <1>4, FS_Subset
    <3> QED BY <1>3, <3>1, SumOne
  <2> QED BY <1>5, <1>6, <1>7, <1>8, <1>9, <1>10, <2>1, <2>2
<1>11. CASE p \notin R
  <2>1. R \ {p} = R
    BY <1>11
  <2> QED BY <1>5, <1>7, <1>8, <1>11, <2>1
<1> QED BY <1>10, <1>11

-----------------------------------------------------------------------------
(* Admission                                                                *)

\* Until when the offer behind a reserved claim stands.
OfferEnd(o) == IF o \in QuoteSlots THEN quotes[o].expires_at ELSE requests[o].deadline

\* A quote that is there after a step was there before, unless it is the one admitted.
QuoteKept(q) == quotes'[q] # Vacant => quotes[q] # Vacant /\ quotes'[q] \in {quotes[q], ConsumedFrom(q)}

\* A step admits a claim with its offer: it is checked against the book it is added to.
AdmitsClaim ==
  \E book \in [Owners -> Claim \cup {Vacant}], o \in Owners, c \in Claim :
    /\ Shrinks(book, claims)
    /\ claims' = [book EXCEPT ![o] = c]
    /\ Claimed(book, c.account) + c.amount <= free[c.account]
    /\ free' = free
    /\ c.list = Vacant /\ c.expires_at = OfferEnd(o)'
    /\ \A q \in QuoteSlots \ {o} : QuoteKept(q)

LEMMA NormalisedShrinks == ASSUME IInv, NEW A PROVE Shrinks(Normalised(A), claims)
<1> SUFFICES ASSUME NEW o \in Owners, Normalised(A)[o] # Vacant
             PROVE  /\ claims[o] # Vacant /\ claims[o].account = Normalised(A)[o].account
                    /\ Normalised(A)[o].amount <= claims[o].amount
                    /\ Normalised(A)[o] = claims[o]
  BY DEF Shrinks
<1>1. Normalised(A)[o] = claims[o]
  BY NormalisedBook
<1>2. claims[o] \in Claim
  BY <1>1 DEF IInv, BookInv, BookTyped
<1>3. claims[o].amount \in Nat
  BY <1>2 DEF Claim
<1> QED BY <1>1, <1>3

LEMMA WithoutShrinks ==
  ASSUME NEW book, book \in [Owners -> Claim \cup {Vacant}], Shrinks(book, claims), NEW S
  PROVE  /\ Without(book, S) \in [Owners -> Claim \cup {Vacant}]
         /\ Shrinks(Without(book, S), claims)
BY DEF Without, Shrinks

LEMMA RefuseAdmitsNone ==
  ASSUME IInv, NEW A, Refuse(Normalised(A))
  PROVE  Shrinks(claims', claims)
BY NormalisedShrinks DEF Refuse

LEMMA SameShrinks == ASSUME IInv, claims' = claims PROVE Shrinks(claims', claims)
<1> SUFFICES ASSUME NEW o \in Owners, claims[o] # Vacant PROVE claims[o].amount <= claims[o].amount
  BY DEF Shrinks
<1>1. claims[o] \in Claim
  BY DEF IInv, BookInv, BookTyped
<1>2. claims[o].amount \in Nat
  BY <1>1 DEF Claim
<1> QED BY <1>2

(* Command by command: claims only shrink, or one claim is admitted.        *)
LEMMA SubmitRequestClaims ==
  ASSUME IInv, NEW a \in Accounts, NEW deadline \in Nat, NEW legs,
         SubmitRequest(a, deadline, legs)
  PROVE  Shrinks(claims', claims) \/ AdmitsClaim
<1> DEFINE book == Normalised({a})
<1>1. CASE Refuse(book)
  BY <1>1, RefuseAdmitsNone
<1>2. ASSUME NEW r \in RequestSlots, OpenRequest(r, a, deadline, legs, book)
      PROVE  AdmitsClaim
  <2>1. book \in [Owners -> Claim \cup {Vacant}] /\ Shrinks(book, claims)
    BY NormalisedBook, NormalisedShrinks DEF BookInv, BookTyped
  <2> HIDE DEF book
  <2>2. PICK amount \in 0..free[a] :
          /\ claims' = [book EXCEPT ![r] = Reserved(a, amount, deadline)]
          /\ Claimed(book, a) + amount <= free[a]
          /\ free' = free
    BY <1>2 DEF OpenRequest, Reservable
  <2> DEFINE c == Reserved(a, amount, deadline)
  <2>3. c \in Claim /\ c.account = a /\ c.amount = amount /\ r \in Owners
        /\ c.list = Vacant /\ c.expires_at = deadline
    <3>1. amount \in Nat
      BY <2>2 DEF IInv, TypeRest
    <3> QED BY <3>1 DEF Reserved, Claim, Owners
  <2>4. OfferEnd(r)' = deadline
    <3>1. requests' = [requests EXCEPT ![r] =
            [requester |-> a, deadline |-> deadline, legs |-> legs,
             state |-> "Open", settle_by |-> 0]]
      BY <1>2 DEF OpenRequest
    <3>2. requests'[r].deadline = deadline
      BY <3>1 DEF IInv, TypeRest
    <3> QED BY <3>2, EngineConstants DEF OfferEnd
  <2>5. \A q \in QuoteSlots : QuoteKept(q)
    BY <1>2 DEF OpenRequest, QuoteKept
  <2> HIDE DEF c
  <2> QED BY <2>1, <2>2, <2>3, <2>4, <2>5 DEF AdmitsClaim, c
<1> QED BY <1>1, <1>2 DEF SubmitRequest

\* Claims only shrink, and nothing is offered.
OnlyShrinks == Shrinks(claims', claims) /\ \A q \in QuoteSlots : QuoteKept(q)

LEMMA SubmitQuoteClaims ==
  ASSUME IInv, NEW m \in Accounts, NEW r \in RequestSlots, NEW l \in LegIds,
         NEW price \in Nat, NEW size \in Nat, NEW expires_at \in Nat,
         SubmitQuote(m, r, l, price, size, expires_at)
  PROVE  OnlyShrinks \/ AdmitsClaim
<1> DEFINE old == StandingQuote(r, l, m)
           norm == Normalised({m} \cup Requester(r))
           book == Without(norm, old)
           slab == Without(quotes, old)
           amount == MakerContribution(requests[r].legs[l], price)
           quote == [maker |-> m, request |-> r, leg |-> l, price |-> price,
                     size |-> size, expires_at |-> expires_at,
                     arrival |-> next_arrival, state |-> "Active"]
           c == Reserved(m, amount, expires_at)
<1>1. CASE Refuse(norm)
  BY <1>1, RefuseAdmitsNone DEF OnlyShrinks, QuoteKept, Refuse
<1>2. CASE Admits(m, r, l, price, size, expires_at)
  <2>1. book \in [Owners -> Claim \cup {Vacant}] /\ Shrinks(book, claims)
    <3>1. norm \in [Owners -> Claim \cup {Vacant}] /\ Shrinks(norm, claims)
      BY NormalisedBook, NormalisedShrinks DEF BookInv, BookTyped
    <3> HIDE DEF norm
    <3> QED BY <3>1, WithoutShrinks
  <2>2. free' = free
    BY <1>2 DEF Admits, ReplaceAndOpen
  <2>5. slab \in [QuoteSlots -> Quote \cup {Vacant}]
        /\ \A q \in QuoteSlots : slab[q] # Vacant => slab[q] = quotes[q]
    BY DEF Without, IInv, TypeRest
  <2> HIDE DEF old, norm, book, slab, amount, quote, c
  <2>3. \/ claims' = book /\ quotes' = slab
        \/ /\ QuoteFits(m, amount, slab, book)
           /\ \E q \in QuoteSlots : OpenQuote(q, quote, amount, slab, book, chain[r][l] \ old)
    BY <1>2 DEF Admits, ReplaceAndOpen, old, norm, book, slab, amount, quote
  <2>4. ASSUME NEW q \in QuoteSlots, QuoteFits(m, amount, slab, book),
               OpenQuote(q, quote, amount, slab, book, chain[r][l] \ old)
        PROVE  AdmitsClaim
    <3>1. quote.maker = m /\ quote.expires_at = expires_at
      BY DEF quote
    <3>2. claims' = [book EXCEPT ![q] = c]
      BY <2>4, <3>1 DEF OpenQuote, c
    <3>3. Claimed(book, m) + amount <= free[m]
      BY <2>4 DEF QuoteFits, Reservable
    <3>4. amount \in Nat
      <4>1. InState(r, "Open") /\ l \in LegsOf(r) /\ price <= UNIT
        BY <1>2 DEF Admits, QuoteAdmissible
      <4>2. requests[r].legs[l] \in LegSpec
        BY <4>1 DEF IInv, TypeRest, InState, Request, Basket, LegsOf
      <4> QED BY <4>1, <4>2, ContributionType DEF amount
    <3>5. c \in Claim /\ c.account = m /\ c.amount = amount
          /\ c.list = Vacant /\ c.expires_at = expires_at
      BY <3>4 DEF c, Reserved, Claim
    <3>6. quotes' = [slab EXCEPT ![q] = quote]
      BY <2>4 DEF OpenQuote
    <3>7. OfferEnd(q)' = expires_at
      BY <2>5, <3>1, <3>6 DEF OfferEnd
    <3>8. \A p \in QuoteSlots \ {q} : QuoteKept(p)
      BY <2>5, <3>6 DEF QuoteKept
    <3> QED BY <2>1, <2>2, <3>2, <3>3, <3>5, <3>7, <3>8 DEF AdmitsClaim, Owners
  <2>6. ASSUME claims' = book, quotes' = slab PROVE OnlyShrinks
    BY <2>1, <2>5, <2>6 DEF OnlyShrinks, QuoteKept
  <2> QED BY <2>3, <2>4, <2>6
<1> QED BY <1>1, <1>2 DEF SubmitQuote, Admits

LEMMA AcceptClaims ==
  ASSUME IInv, NEW r \in RequestSlots, NEW expected, AcceptRequest(r, expected)
  PROVE  Shrinks(claims', claims)
<1> DEFINE book == Normalised(Requester(r))
<1>1. CASE Refuse(book)
  BY <1>1, RefuseAdmitsNone
<1>3. AcceptAdmissible(r, expected) => InState(r, "Open") /\ now < requests[r].deadline
  BY DEF AcceptAdmissible
<1>2. ASSUME AcceptAdmissible(r, expected), NEW win \in Plan(r, expected), CommitAccept(r, win, book)
      PROVE  Shrinks(claims', claims)
  <2> DEFINE winners == {win[l] : l \in LegsOf(r)}
             losers == LinkedOn(r) \ winners
  <2>1. PICK total \in 0..book[r].amount :
          claims' = CommitClaims(book, r, winners, losers, total)
    BY <1>2 DEF CommitAccept
  <2>2. book \in [Owners -> Claim \cup {Vacant}] /\ Shrinks(book, claims)
    BY NormalisedBook, NormalisedShrinks DEF BookInv, BookTyped
  <2>3. book[r] # Vacant
    BY <1>2 DEF CommitAccept
  <2>5. r \notin winners /\ r \notin losers /\ \A o \in winners : o \notin losers
    <3>1. \A l \in LegsOf(r) : win[l] \in QuoteSlots
      BY <1>2 DEF Plan
    <3>2. LinkedOn(r) \subseteq QuoteSlots
      BY DEF LinkedOn, IInv, TypeRest
    <3> QED BY <3>1, <3>2, EngineConstants
  <2>6. /\ \A o \in winners : book[o].list = Vacant /\ now < book[o].expires_at
        /\ book[r].list = Vacant /\ now < book[r].expires_at
    <3>1. BookInv(book)
      BY NormalisedBook
    <3>2. \A l \in LegsOf(r) : win[l] \in QuoteSlots /\ Live(quotes[win[l]]) /\ quotes[win[l]] # Vacant
      <4> SUFFICES ASSUME NEW l \in LegsOf(r)
                   PROVE  win[l] \in QuoteSlots /\ Live(quotes[win[l]]) /\ quotes[win[l]] # Vacant
        OBVIOUS
      <4>1. win[l] \in QuoteSlots /\ win[l] \in chain[r][l] /\ Live(quotes[win[l]])
        BY <1>2 DEF Plan, Best, Eligible
      <4> QED BY <1>2, <1>3, <4>1, OpenLegs
    <3>3. \A l \in LegsOf(r) : QuoteBacked(book, win[l])
      BY <3>1, <3>2 DEF BookInv, BookBacked
    <3>4. RequestBacked(book, r)
      BY <1>2, <1>3, <3>1 DEF BookInv, BookBacked
    <3> HIDE DEF book
    <3>5. ASSUME NEW l \in LegsOf(r)
          PROVE  book[win[l]].list = Vacant /\ now < book[win[l]].expires_at
      <4>1. QuoteBacked(book, win[l]) /\ now < quotes[win[l]].expires_at
        BY <3>2, <3>3, <3>5 DEF Live
      <4> QED BY <4>1 DEF QuoteBacked, Reserved
    <3>6. book[r].list = Vacant /\ now < book[r].expires_at
      BY <1>2, <1>3, <3>4 DEF RequestBacked, Reserved
    <3> QED BY <3>5, <3>6
  <2>7. r # Vacant
    BY VacantIsNoValue
  <2> HIDE DEF book, winners, losers
  <2>4. ASSUME NEW o \in Owners, claims'[o] # Vacant
        PROVE  /\ claims[o] # Vacant /\ claims[o].account = claims'[o].account
               /\ claims'[o].amount <= claims[o].amount
               /\ claims'[o] = claims[o] \/ Commits(claims'[o], claims[o])
    <3>1. o \notin losers
      <4>1. o \in losers => claims'[o] = Vacant
        BY <2>1, <2>5 DEF CommitClaims
      <4> QED BY <2>4, <4>1
    <3>2. /\ book[o] # Vacant /\ claims'[o].account = book[o].account
          /\ claims'[o].amount <= book[o].amount /\ claims'[o].amount \in Nat
          /\ claims'[o] = book[o] \/ Commits(claims'[o], book[o])
      <4>1. CASE o \in winners /\ book[o] # Vacant /\ o # r
        <5>1. claims'[o] = Committed(book[o], r, book[o].amount)
          BY <2>1, <3>1, <4>1 DEF CommitClaims
        <5>2. book[o].amount \in Nat
          BY <2>2, <4>1 DEF Claim
        <5>3. Commits(claims'[o], book[o])
          BY <2>6, <2>7, <4>1, <5>1 DEF Commits, Committed
        <5> QED BY <4>1, <5>1, <5>2, <5>3 DEF Committed
      <4>2. CASE o = r
        <5>1. claims'[o] = Committed(book[o], r, total)
          BY <2>1, <2>5, <4>2 DEF CommitClaims
        <5>2. book[o].amount \in Nat /\ total <= book[o].amount /\ total \in Nat
          BY <2>1, <2>2, <2>3, <4>2 DEF Claim
        <5>3. Commits(claims'[o], book[o])
          BY <2>6, <2>7, <4>2, <5>1 DEF Commits, Committed
        <5> QED BY <2>3, <4>2, <5>1, <5>2, <5>3 DEF Committed
      <4>3. CASE ~(o \in winners /\ book[o] # Vacant) /\ o # r
        <5>1. claims'[o] = book[o]
          BY <2>1, <3>1, <4>3 DEF CommitClaims
        <5>2. book[o].amount \in Nat
          BY <2>2, <2>4, <5>1 DEF Claim
        <5> QED BY <2>4, <5>1, <5>2
      <4> QED BY <4>1, <4>2, <4>3
    <3>3. claims[o] # Vacant /\ claims[o].account = book[o].account
          /\ book[o].amount <= claims[o].amount /\ book[o] = claims[o]
      <4>1. book[o] \in {Vacant, claims[o]}
        BY NormalisedBook DEF book
      <4>2. book[o] = claims[o] /\ book[o] \in Claim
        BY <2>2, <3>2, <4>1
      <4> QED BY <3>2, <4>2 DEF Claim
    <3>4. claims[o].amount \in Nat /\ book[o].amount \in Nat
      <4>1. claims[o] \in Claim /\ book[o] \in Claim
        BY <2>2, <3>2, <3>3 DEF IInv, BookInv, BookTyped
      <4> QED BY <4>1 DEF Claim
    <3> QED BY <3>2, <3>3, <3>4 DEF Commits
  <2> QED BY <2>4 DEF Shrinks
<1> QED BY <1>1, <1>2 DEF AcceptRequest

LEMMA PollClaims ==
  ASSUME IInv, NEW r \in RequestSlots, NEW status, PollSettlement(r, status)
  PROVE  Shrinks(claims', claims)
<1> DEFINE book == Normalised(Requester(r))
<1>1. book \in [Owners -> Claim \cup {Vacant}] /\ Shrinks(book, claims)
  BY NormalisedBook, NormalisedShrinks DEF BookInv, BookTyped
<1>2. claims' = book \/ \E S : claims' = Without(book, S)
  BY DEF PollSettlement, Refuse, StillUnknown, Discharge
<1> HIDE DEF book
<1> QED BY <1>1, <1>2, WithoutShrinks

LEMMA RejectClaims ==
  ASSUME IInv, NEW r \in RequestSlots, RejectRequest(r)
  PROVE  Shrinks(claims', claims)
<1> DEFINE book == Normalised(Requester(r))
<1>1. book \in [Owners -> Claim \cup {Vacant}] /\ Shrinks(book, claims)
  BY NormalisedBook, NormalisedShrinks DEF BookInv, BookTyped
<1>2. claims' = book \/ \E S : claims' = Without(book, S)
  BY DEF RejectRequest, Refuse
<1> HIDE DEF book
<1> QED BY <1>1, <1>2, WithoutShrinks

LEMMA CreditClaims ==
  ASSUME IInv, NEW a, NEW amount, CreditAccount(a, amount)
  PROVE  Shrinks(claims', claims)
BY NormalisedShrinks DEF CreditAccount

LEMMA NextClaims ==
  ASSUME IInv, [Next]_vars
  PROVE  OnlyShrinks \/ AdmitsClaim
<1> USE EngineConstants
<1>0. ASSUME Shrinks(claims', claims), Fading PROVE OnlyShrinks
  BY <1>0 DEF OnlyShrinks, Fading, QuoteKept
<1>10. ASSUME NEW m \in Makers, NEW r \in RequestSlots, NEW l \in LegIds, NEW price \in Prices,
              NEW size \in Sizes, NEW expires_at \in Times,
              SubmitQuote(m, r, l, price, size, expires_at)
       PROVE  OnlyShrinks \/ AdmitsClaim
  <2>1. m \in Accounts /\ price \in Nat /\ size \in Nat /\ expires_at \in Nat
    BY InputTypes
  <2> QED BY <1>10, <2>1, SubmitQuoteClaims
<1>11. CASE Fading
  <2> SUFFICES Shrinks(claims', claims) \/ OnlyShrinks \/ AdmitsClaim
    BY <1>0, <1>11
  <2>1. CASE Tick \/ UNCHANGED vars
    BY <2>1, SameShrinks DEF Tick, vars
  <2>2. CASE \E a \in Accounts, amount \in Balances : CreditAccount(a, amount)
    BY <2>2, CreditClaims
  <2>3. CASE \E c \in Contracts, date \in EventDates : RegisterContract(c, date)
    BY <2>3, SameShrinks DEF RegisterContract, Refuse
  <2>4. CASE \E a \in Requesters, deadline \in Times, legs \in LegLists :
               SubmitRequest(a, deadline, legs)
    BY <2>4, InputTypes, SubmitRequestClaims
  <2>5. CASE \E r \in RequestSlots : RejectRequest(r)
    BY <2>5, RejectClaims
  <2>7. CASE \E q \in QuoteSlots : CancelQuote(q)
    BY <2>7, RefuseAdmitsNone DEF CancelQuote
  <2>8. CASE \E r \in RequestSlots, expected \in Views : AcceptRequest(r, expected)
    BY <2>8, AcceptClaims
  <2>9. CASE \E r \in RequestSlots, status \in TxStatus : PollSettlement(r, status)
    BY <2>9, PollClaims
  <2>6. CASE \E m \in Makers, r \in RequestSlots, l \in LegIds, price \in Prices,
               size \in Sizes, expires_at \in Times :
               SubmitQuote(m, r, l, price, size, expires_at)
    BY <1>10, <2>6
  <2> QED
    BY <2>1, <2>2, <2>3, <2>4, <2>5, <2>6, <2>7, <2>8, <2>9 DEF Next
<1>12. ASSUME NEW m \in Makers, NEW r \in RequestSlots, NEW l \in LegIds, NEW price \in Prices,
              NEW size \in Sizes, NEW expires_at \in Times,
              Admits(m, r, l, price, size, expires_at)
       PROVE  OnlyShrinks \/ AdmitsClaim
  BY <1>10, <1>12 DEF Admits, SubmitQuote
<1> QED BY <1>11, <1>12, MarketSteps

LEMMA CoverageKept ==
  ASSUME IInv, [Next]_vars, NEW a \in Accounts, free'[a] = free[a],
         Claimed(claims, a) <= free[a]
  PROVE  Claimed(claims', a) <= free'[a]
<1>1. BookTyped(claims) /\ BookTyped(claims')
  <2>1. IInv'
    BY NextInv
  <2> QED BY <2>1 DEF IInv, BookInv, BookTyped
<1>2. Claimed(claims, a) \in Nat /\ Claimed(claims', a) \in Nat /\ free[a] \in Nat
  BY <1>1, ClaimedIsSum DEF IInv, TypeRest
<1>3. CASE Shrinks(claims', claims)
  <2>1. Claimed(claims', a) <= Claimed(claims, a)
    BY <1>1, <1>3, ShrinkingLowers
  <2> QED BY <1>2, <2>1
<1>4. CASE AdmitsClaim
  <2>1. PICK book \in [Owners -> Claim \cup {Vacant}], o \in Owners, c \in Claim :
          /\ Shrinks(book, claims)
          /\ claims' = [book EXCEPT ![o] = c]
          /\ Claimed(book, c.account) + c.amount <= free[c.account]
    BY <1>4 DEF AdmitsClaim
  <2>2. BookTyped(book)
    BY <2>1 DEF BookTyped
  <2>3. Claimed(book, a) <= Claimed(claims, a) /\ Claimed(book, a) \in Nat
    BY <1>1, <2>1, <2>2, ShrinkingLowers, ClaimedIsSum
  <2>4. /\ a # c.account => Claimed(claims', a) <= Claimed(book, a)
        /\ a = c.account => Claimed(claims', a) <= Claimed(book, a) + c.amount
    BY <1>1, <2>1, <2>2, AddingOne
  <2>5. c.amount \in Nat
    BY <2>1 DEF Claim
  <2> QED BY <1>2, <2>1, <2>3, <2>4, <2>5
<1> QED BY <1>3, <1>4, NextClaims DEF OnlyShrinks

(* No command admits a claim its account's mirrored balance does not cover: *)
(* only a mirror update can leave an account over-claimed (ledger.rs        *)
(* check_reservable).                                                       *)
THEOREM AdmissionIsCovered == Spec => AdmissionKeepsCoverage
<1>1. IInv /\ [Next]_vars =>
        [\A a \in Accounts :
           free'[a] = free[a] /\ Claimed(claims, a) <= free[a]
             => Claimed(claims', a) <= free'[a]]_vars
  BY CoverageKept
<1> QED BY <1>1, Inductive, PTL DEF Spec, AdmissionKeepsCoverage

-----------------------------------------------------------------------------
(* The committed basket                                                     *)

\* A settling request holds its own claim, and its list is that claim and those of the
\* quotes it consumed.
RequesterHolds ==
  \A r \in RequestSlots : InState(r, "Settling") => claims[r] # Vacant /\ claims[r].list = r

BasketCost(r) == [l \in LegsOf(r) |-> requests[r].legs[l].size * UNIT]
HeldAmounts(r) == [o \in OnList(claims, r) |-> claims[o].amount]

\* What an accept leaves of a request: the request's claim and one winner per leg.
LEMMA AcceptOutcome ==
  ASSUME IInv, PricesWithinUnit, NEW r \in RequestSlots, NEW expected, InState(r, "Open"),
         NEW win \in Plan(r, expected), CommitAccept(r, win, Normalised(Requester(r)))
  PROVE  /\ claims'[r] # Vacant /\ claims'[r].list = r /\ claims'[r].amount = FillCost(r, win)
         /\ OnList(claims', r) = {win[l] : l \in LegsOf(r)} \cup {r}
         /\ requests'[r].legs = requests[r].legs
         /\ \A l \in LegsOf(r) : chain'[r][l] = {win[l]}
<1> DEFINE book == Normalised(Requester(r))
           winners == {win[l] : l \in LegsOf(r)}
           losers == LinkedOn(r) \ winners
<1>1. BookInv(book)
  BY NormalisedBook
<1>2. PICK total \in 0..book[r].amount :
        total = FillCost(r, win) /\ claims' = CommitClaims(book, r, winners, losers, total)
  BY DEF CommitAccept
<1>3. /\ book[r] # Vacant
      /\ chain' = [chain EXCEPT ![r] =
                     [l \in LegIds |-> IF l \in LegsOf(r) THEN {win[l]} ELSE {}]]
      /\ requests' = [requests EXCEPT ![r].state = "Settling",
                                      ![r].settle_by = now + MaxSettlingTime]
  BY DEF CommitAccept
<1>4. r \notin winners /\ r \notin losers /\ r \in Owners
  <2>1. \A l \in LegsOf(r) : win[l] \in QuoteSlots
    BY DEF Plan
  <2>2. LinkedOn(r) \subseteq QuoteSlots
    BY DEF LinkedOn, IInv, TypeRest
  <2> QED BY <2>1, <2>2, EngineConstants DEF Owners
<1>5. \A o \in winners : o \in Owners /\ claims'[o] # Vacant /\ claims'[o].list = r
  BY WinnerOutcome DEF Owners
<1>6. requests[r] \in Request
  BY DEF InState, IInv, TypeRest
<1>7. requests'[r].legs = requests[r].legs
  BY <1>3, <1>6 DEF IInv, TypeRest, Request
<1>8. \A l \in LegsOf(r) : chain'[r][l] = {win[l]}
  <2>1. LegsOf(r) \subseteq LegIds
    BY OpenLegs
  <2> HIDE DEF winners, losers
  <2> QED BY <1>3, <2>1 DEF IInv, TypeRest
<1>9. \A o \in winners : o \notin losers
  OBVIOUS
<1> HIDE DEF book, winners, losers
<1>10. claims'[r] = Committed(book[r], r, total)
  BY <1>2, <1>4 DEF CommitClaims
<1>11. claims'[r] # Vacant /\ claims'[r].list = r /\ claims'[r].amount = total
  <2>1. book[r] \in Claim
    BY <1>1, <1>3, <1>4 DEF BookInv, BookTyped
  <2>2. total \in Nat
    BY <1>2, <2>1 DEF Claim
  <2>3. Committed(book[r], r, total) \in Claim
    BY <2>1, <2>2 DEF Committed, Claim
  <2> QED BY <1>10, <2>3, VacantIsNoValue DEF Committed
<1>12. ASSUME NEW o \in Owners, o \notin winners, o # r, claims'[o] # Vacant
       PROVE  claims'[o].list # r
  <2>1. o \notin losers
    <3>1. o \in losers => claims'[o] = Vacant
      BY <1>2, <1>4, <1>9 DEF CommitClaims
    <3> QED BY <1>12, <3>1
  <2>2. claims'[o] = book[o]
    BY <1>2, <1>12, <2>1 DEF CommitClaims
  <2>3. book[o].list # Vacant => InState(book[o].list, "Settling")
    BY <1>1, <1>12, <2>2 DEF BookInv, BookCoherent, CommittedClaimCoherent
  <2>4. r # Vacant
    BY VacantIsNoValue
  <2> QED BY <2>2, <2>3, <2>4 DEF InState
<1>13. OnList(claims', r) = winners \cup {r}
  BY <1>4, <1>5, <1>11, <1>12 DEF OnList
<1> QED BY <1>2, <1>7, <1>8, <1>11, <1>13 DEF winners

(* The capital committed by an accept is the notional of its basket.        *)
LEMMA AcceptFunds ==
  ASSUME IInv, IInv', PricesWithinUnit, NEW r \in RequestSlots, NEW expected,
         InState(r, "Open"), NEW win \in Plan(r, expected),
         CommitAccept(r, win, Normalised(Requester(r)))
  PROVE  SumFunction(HeldAmounts(r)') = SumFunction(BasketCost(r)')
<1> DEFINE L == LegsOf(r)
           W == {win[l] : l \in L}
           H == W \cup {r}
           cost == [l \in L |-> requests[r].legs[l].size * quotes[win[l]].price]
           rest == [l \in L |-> MakerContribution(requests[r].legs[l], quotes[win[l]].price)]
           full == BasketCost(r)
           held == HeldAmounts(r)'
<1>1. /\ claims'[r] # Vacant /\ claims'[r].list = r /\ claims'[r].amount = FillCost(r, win)
      /\ OnList(claims', r) = H
      /\ requests'[r].legs = requests[r].legs
  BY AcceptOutcome
<1>2. full = BasketCost(r)'
  BY <1>1 DEF BasketCost, LegsOf
<1>3. requests[r] \in Request
  BY DEF InState, IInv, TypeRest
<1>4. IsFiniteSet(L) /\ \A l \in L : requests[r].legs[l].size \in Nat
                                   /\ requests[r].legs[l] \in LegSpec
  <2>1. requests[r].legs \in Seq(LegSpec)
    BY <1>3 DEF Request, Basket
  <2>2. Len(requests[r].legs) \in Nat /\ L = 1..Len(requests[r].legs)
        /\ \A l \in L : requests[r].legs[l] \in LegSpec
    BY <2>1 DEF LegsOf
  <2>3. 1 \in Int /\ Len(requests[r].legs) \in Int
    BY <2>2
  <2>4. IsFiniteSet(1..Len(requests[r].legs))
    BY <2>3, FS_Interval
  <2> HIDE DEF L
  <2> QED BY <2>2, <2>4 DEF LegSpec
<1>5. \A l \in L : /\ win[l] \in QuoteSlots /\ quotes[win[l]] \in Quote
                   /\ quotes[win[l]].leg = l /\ quotes[win[l]].price <= UNIT
                   /\ claims'[win[l]].amount = rest[l]
  BY WinnerOutcome
<1>6. \A l \in L : cost[l] \in Nat /\ rest[l] \in Nat /\ full[l] = cost[l] + rest[l]
  <2> SUFFICES ASSUME NEW l \in L
               PROVE  cost[l] \in Nat /\ rest[l] \in Nat /\ full[l] = cost[l] + rest[l]
    OBVIOUS
  <2> DEFINE s == requests[r].legs[l].size
             p == quotes[win[l]].price
  <2>1. s \in Nat /\ p \in Nat /\ p <= UNIT /\ UNIT \in Nat
    BY <1>4, <1>5, EngineConstants DEF Quote
  <2>2. cost[l] = s * p /\ rest[l] = s * (UNIT - p) /\ full[l] = s * UNIT
    BY DEF MakerContribution, BasketCost
  <2> HIDE DEF s, p, cost, rest, full
  <2>3. \A a, b, c \in Nat : b <= c =>
          a * b \in Nat /\ a * (c - b) \in Nat /\ a * c = a * b + a * (c - b)
    OBVIOUS
  <2> QED BY <2>1, <2>2, <2>3
<1>7. DOMAIN full = L /\ DOMAIN cost = L /\ DOMAIN held = H
  BY <1>1 DEF BasketCost, HeldAmounts
<1>8. \A o \in H : held[o] = claims'[o].amount
  BY <1>1 DEF HeldAmounts
<1>9. FillCost(r, win) = SumFunctionOnSet(cost, L)
  BY <1>7 DEF FillCost, SumFunction
<1>10. r \notin W
  BY <1>5, EngineConstants
<1>11. \A k, l \in L : win[k] = win[l] => k = l
  BY <1>5
<1>12. \A l \in L : win[l] \in H /\ win[l] \in W
  OBVIOUS
<1> HIDE DEF L, cost, rest, full, held
<1>13. \A l \in L : held[win[l]] = rest[l]
  BY <1>5, <1>8, <1>12
<1>14. SumFunctionOnSet(held, W) = SumFunctionOnSet(rest, L)
  BY <1>4, <1>6, <1>11, <1>13, SumRenamed
<1>15. SumFunctionOnSet(full, L) = SumFunctionOnSet(cost, L) + SumFunctionOnSet(rest, L)
  BY <1>4, <1>6, SumPlus
<1>16. SumFunctionOnSet(held, H) = held[r] + SumFunctionOnSet(held, W)
  <2>1. IsFiniteSet(H) /\ r \in H /\ H \ {r} = W
    <3>1. IsFiniteSet(W)
      BY <1>5, FS_Subset, EngineConstants DEF L
    <3> HIDE DEF W
    <3> QED BY <1>10, <3>1, FS_AddElement
  <2>2. \A o \in H : held[o] \in Nat
    <3>1. held[r] \in Nat
      <4>1. SumFunctionOnSet(cost, L) \in Nat
        BY <1>4, <1>6, SumOne
      <4> QED BY <1>1, <1>8, <1>9, <4>1
    <3> QED BY <1>6, <1>13, <3>1
  <2> HIDE DEF H
  <2> QED BY <2>1, <2>2, SumOne
<1>17. held[r] = SumFunctionOnSet(cost, L)
  BY <1>1, <1>8, <1>9
<1>18. SumFunctionOnSet(held, H) = SumFunctionOnSet(full, L)
  <2>1. SumFunctionOnSet(cost, L) \in Nat /\ SumFunctionOnSet(rest, L) \in Nat
    BY <1>4, <1>6, SumOne
  <2> QED BY <1>14, <1>15, <1>16, <1>17
<1> QED BY <1>2, <1>7, <1>18 DEF SumFunction, held

\* The step by which a request starts settling, and what no other step touches.
AcceptsNow(r) ==
  \E expected :
    /\ AcceptAdmissible(r, expected)
    /\ \E win \in Plan(r, expected) : CommitAccept(r, win, Normalised(Requester(r)))

LegsStand(r) == requests'[r].legs = requests[r].legs /\ chain'[r] = chain[r]

LEMMA SettlingByAccept ==
  ASSUME IInv, [Next]_vars, NEW r \in RequestSlots, InState(r, "Settling")'
  PROVE  AcceptsNow(r) \/ (InState(r, "Settling") /\ LegsStand(r))
<1>0. ASSUME requests' = requests, chain' = chain
      PROVE  InState(r, "Settling") /\ LegsStand(r)
  BY <1>0 DEF InState, LegsStand
<1>1. CASE Tick \/ UNCHANGED vars
  BY <1>0, <1>1 DEF Tick, vars
<1>2. CASE \E a \in Accounts, amount \in Balances : CreditAccount(a, amount)
  BY <1>0, <1>2 DEF CreditAccount
<1>3. CASE \E c \in Contracts, date \in EventDates : RegisterContract(c, date)
  BY <1>0, <1>3 DEF RegisterContract, Refuse
<1>4. ASSUME NEW a, NEW deadline, NEW legs, SubmitRequest(a, deadline, legs)
      PROVE  InState(r, "Settling") /\ LegsStand(r)
  <2>1. ASSUME NEW s \in RequestSlots, OpenRequest(s, a, deadline, legs, Normalised({a}))
        PROVE  InState(r, "Settling") /\ LegsStand(r)
    <3>1. requests' = [requests EXCEPT ![s] =
            [requester |-> a, deadline |-> deadline, legs |-> legs,
             state |-> "Open", settle_by |-> 0]] /\ chain' = chain
      BY <2>1 DEF OpenRequest
    <3>2. requests'[s].state = "Open" /\ (r # s => requests'[r] = requests[r])
      BY <3>1 DEF IInv, TypeRest
    <3> QED BY <3>1, <3>2 DEF InState, LegsStand
  <2> QED BY <1>0, <1>4, <2>1 DEF SubmitRequest, Refuse
<1>5. ASSUME NEW s \in RequestSlots, RejectRequest(s)
      PROVE  InState(r, "Settling") /\ LegsStand(r)
  <2>1. CASE Refuse(Normalised(Requester(s)))
    BY <1>0, <2>1 DEF Refuse
  <2>2. CASE /\ InState(s, "Open")
             /\ requests' = [requests EXCEPT ![s].state = "Rejected"]
             /\ chain' = [chain EXCEPT ![s] = [l \in LegIds |-> {}]]
    <3>1. requests[s] \in Request
      BY <2>2 DEF InState, IInv, TypeRest
    <3>2. requests'[s].state = "Rejected"
          /\ (r # s => requests'[r] = requests[r] /\ chain'[r] = chain[r])
      BY <2>2, <3>1 DEF IInv, TypeRest, Request
    <3> QED BY <3>2 DEF InState, LegsStand
  <2> QED BY <1>5, <2>1, <2>2 DEF RejectRequest, RejectAdmissible
<1>6. CASE \E m \in Makers, s \in RequestSlots, l \in LegIds, price \in Prices,
             size \in Sizes, expires_at \in Times :
             SubmitQuote(m, s, l, price, size, expires_at)
  <2>1. PICK m \in Makers, s \in RequestSlots, l \in LegIds, price \in Prices,
             size \in Sizes, expires_at \in Times :
             SubmitQuote(m, s, l, price, size, expires_at)
    BY <1>6
  <2>2. m \in Accounts /\ price \in Nat /\ size \in Nat /\ expires_at \in Nat
    BY <2>1, InputTypes, EngineConstants
  <2>3. CASE Admits(m, s, l, price, size, expires_at)
    <3>1. InState(s, "Open")
      BY <2>3 DEF Admits, QuoteAdmissible
    <3>2. \E old, added, quote : Exchanged(s, l, old, added, quote)
      BY <2>2, <2>3, Admission
    <3>3. requests' = requests /\ \E C : chain' = [chain EXCEPT ![s][l] = C]
      BY <3>2 DEF Exchanged
    <3>4. r # s => chain'[r] = chain[r]
      BY <3>3 DEF IInv, TypeRest
    <3> QED BY <3>1, <3>3, <3>4 DEF InState, LegsStand
  <2>4. CASE ~Admits(m, s, l, price, size, expires_at)
    BY <1>0, <2>1, <2>4 DEF SubmitQuote, Admits, Refuse
  <2> QED BY <2>3, <2>4
<1>7. CASE \E q \in QuoteSlots : CancelQuote(q)
  BY <1>0, <1>7 DEF CancelQuote, Refuse
<1>8. ASSUME NEW s \in RequestSlots, NEW expected, AcceptRequest(s, expected)
      PROVE  AcceptsNow(r) \/ (InState(r, "Settling") /\ LegsStand(r))
  <2>1. CASE Refuse(Normalised(Requester(s)))
    BY <1>0, <2>1 DEF Refuse
  <2>2. ASSUME AcceptAdmissible(s, expected), NEW win \in Plan(s, expected),
               CommitAccept(s, win, Normalised(Requester(s)))
        PROVE  AcceptsNow(r) \/ (InState(r, "Settling") /\ LegsStand(r))
    <3>1. CASE s = r
      BY <2>2, <3>1 DEF AcceptsNow
    <3>2. CASE s # r
      <4>1. /\ chain' = [chain EXCEPT ![s] =
                     [l \in LegIds |-> IF l \in LegsOf(s) THEN {win[l]} ELSE {}]]
            /\ requests' = [requests EXCEPT ![s].state = "Settling",
                                            ![s].settle_by = now + MaxSettlingTime]
        BY <2>2 DEF CommitAccept
      <4>2. requests'[r] = requests[r] /\ chain'[r] = chain[r]
        BY <3>2, <4>1 DEF IInv, TypeRest
      <4> QED BY <4>2 DEF InState, LegsStand
    <3> QED BY <3>1, <3>2
  <2> QED BY <1>8, <2>1, <2>2 DEF AcceptRequest
<1>9. ASSUME NEW s \in RequestSlots, NEW status, PollSettlement(s, status)
      PROVE  InState(r, "Settling") /\ LegsStand(r)
  <2>1. CASE requests' = requests /\ chain' = chain
    BY <1>0, <2>1
  <2>2. ASSUME NEW state, InState(s, "Settling"),
               requests' = [requests EXCEPT ![s].state = state], chain' = chain
        PROVE  InState(r, "Settling") /\ LegsStand(r)
    <3>1. requests[s] \in Request
      BY <2>2 DEF InState, IInv, TypeRest
    <3>2. requests'[r].legs = requests[r].legs /\ requests[r] # Vacant
      BY <2>2, <3>1 DEF IInv, TypeRest, Request, InState
    <3>3. r # s => requests'[r] = requests[r]
      BY <2>2 DEF IInv, TypeRest
    <3> QED BY <2>2, <3>2, <3>3 DEF InState, LegsStand
  <2> QED BY <1>9, <2>1, <2>2 DEF PollSettlement, StillUnknown, Discharge, Refuse
<1> QED
  BY <1>1, <1>2, <1>3, <1>4, <1>5, <1>6, <1>7, <1>8, <1>9 DEF Next

(* While a request settles, its committed list is left as the accept made it. *)
LEMMA ListStands ==
  ASSUME MInv, RequesterHolds, [Next]_vars, NEW r \in RequestSlots,
         InState(r, "Settling"), InState(r, "Settling")'
  PROVE  /\ OnList(claims', r) = OnList(claims, r)
         /\ \A o \in OnList(claims, r) : claims'[o] = claims[o]
<1>1. IInv /\ IInv'
  BY NextInv DEF MInv
<1>2. r # Vacant
  BY VacantIsNoValue
<1>3. \A o \in OnList(claims, r) : claims'[o] = claims[o]
  BY <1>1, <1>2, HeldStep DEF OnList, Held, InState
<1>4. ASSUME NEW o \in OnList(claims', r) PROVE o \in OnList(claims, r)
  <2>1. o \in Owners /\ claims'[o] # Vacant /\ claims'[o].list = r
    BY <1>4 DEF OnList
  <2>2. IF o \in QuoteSlots
        THEN quotes'[o] # Vacant /\ quotes'[o].state = "Consumed" /\ quotes'[o].request = r
        ELSE o = r
    BY <1>1, <1>2, <2>1 DEF IInv, BookInv, BookCoherent, CommittedClaimCoherent
  <2>3. CASE o \notin QuoteSlots
    BY <2>2, <2>3, <2>1 DEF RequesterHolds, OnList
  <2>4. CASE o \in QuoteSlots /\ quotes'[o] = quotes[o]
    BY <2>1, <2>2, <2>4 DEF MInv, ConsumedHold, OnList
  <2>5. CASE o \in QuoteSlots /\ quotes'[o] # quotes[o]
    <3>1. quotes[o] # Vacant /\ quotes'[o] = ConsumedFrom(o)
      <4>1. CASE Fading
        BY <2>2, <2>5, <4>1 DEF Fading
      <4>2. ASSUME NEW m \in Accounts, NEW s \in RequestSlots, NEW l \in LegIds,
                   NEW price \in Nat, NEW size \in Nat, NEW expires_at \in Nat,
                   Admits(m, s, l, price, size, expires_at)
            PROVE  FALSE
        <5> DEFINE quote == NewQuote(m, s, l, price, size, expires_at)
        <5>1. \E added : Exchanged(s, l, StandingQuote(s, l, m), added, quote)
          BY <1>1, <4>2, Admission
        <5>2. quote.state = "Active"
          BY DEF NewQuote
        <5> HIDE DEF quote
        <5> QED BY <2>2, <2>5, <5>1, <5>2 DEF Exchanged
      <4> QED BY <1>1, <4>1, <4>2, StepKinds
    <3>2. quotes[o] \in Quote /\ quotes[o].request = r
      <4>1. quotes[o] \in Quote
        BY <1>1, <2>5, <3>1 DEF IInv, TypeRest
      <4> QED BY <2>2, <2>5, <3>1, <4>1 DEF ConsumedFrom, Quote
    <3>3. quotes[o].state = "Consumed"
      <4>1. quotes[o].state # "Active"
        BY <1>1, <2>5, <3>1, <3>2 DEF IInv, QuotesPlaced, QuotesFollowTheirRequest, InState
      <4> QED BY <3>2, <4>1 DEF Quote
    <3> QED BY <2>1, <2>5, <3>1, <3>2, <3>3 DEF MInv, ConsumedHold, OnList
  <2> QED BY <2>3, <2>4, <2>5
<1>5. ASSUME NEW o \in OnList(claims, r) PROVE o \in OnList(claims', r)
  BY <1>3, <1>5 DEF OnList
<1> QED BY <1>3, <1>4, <1>5

FundsInv == MInv /\ RequesterHolds /\ SettlingFullyFunded

LEMMA NextFunds ==
  ASSUME FundsInv, [Next]_vars
  PROVE  FundsInv'
<1>1. MInv' /\ IInv /\ IInv' /\ PricesWithinUnit
  <2>1. IInv'
    BY NextInv DEF FundsInv, MInv
  <2> QED BY <2>1, NextKeepsPrices, NextKeepsHold DEF FundsInv, MInv
<1>2. ASSUME NEW r \in RequestSlots, InState(r, "Settling")'
      PROVE  /\ claims'[r] # Vacant /\ claims'[r].list = r
             /\ \A l \in LegsOf(r)' : Cardinality(chain'[r][l]) = 1
             /\ SumFunction(HeldAmounts(r)') = SumFunction(BasketCost(r)')
  <2>1. CASE AcceptsNow(r)
    <3>1. PICK expected :
            /\ AcceptAdmissible(r, expected)
            /\ \E win \in Plan(r, expected) : CommitAccept(r, win, Normalised(Requester(r)))
      BY <2>1 DEF AcceptsNow
    <3>2. PICK win \in Plan(r, expected) : CommitAccept(r, win, Normalised(Requester(r)))
      BY <3>1
    <3>3. InState(r, "Open")
      BY <3>1 DEF AcceptAdmissible
    <3>4. SumFunction(HeldAmounts(r)') = SumFunction(BasketCost(r)')
      BY <1>1, <3>2, <3>3, AcceptFunds
    <3>5. /\ claims'[r] # Vacant /\ claims'[r].list = r
          /\ requests'[r].legs = requests[r].legs
          /\ \A l \in LegsOf(r) : chain'[r][l] = {win[l]}
      BY <1>1, <3>2, <3>3, AcceptOutcome
    <3>6. \A l \in LegsOf(r)' : Cardinality(chain'[r][l]) = 1
      BY <3>5, FS_Singleton DEF LegsOf
    <3> QED BY <3>4, <3>5, <3>6
  <2>2. CASE InState(r, "Settling") /\ LegsStand(r)
    <3>1. /\ OnList(claims', r) = OnList(claims, r)
          /\ \A o \in OnList(claims, r) : claims'[o] = claims[o]
      BY <1>2, <2>2, ListStands DEF FundsInv
    <3>2. HeldAmounts(r)' = HeldAmounts(r)
      BY <3>1 DEF HeldAmounts
    <3>3. BasketCost(r)' = BasketCost(r) /\ LegsOf(r)' = LegsOf(r)
      BY <2>2 DEF BasketCost, LegsOf, LegsStand
    <3>4. /\ \A l \in LegsOf(r) : Cardinality(chain[r][l]) = 1
          /\ SumFunction(HeldAmounts(r)) = SumFunction(BasketCost(r))
      BY <2>2 DEF FundsInv, SettlingFullyFunded, HeldAmounts, BasketCost
    <3>5. r \in OnList(claims, r) /\ claims[r] # Vacant /\ claims[r].list = r
      BY <2>2 DEF FundsInv, RequesterHolds, OnList, Owners
    <3> QED BY <2>2, <3>1, <3>2, <3>3, <3>4, <3>5 DEF LegsStand
  <2> QED BY <1>1, <1>2, <2>1, <2>2, SettlingByAccept
<1>3. RequesterHolds'
  BY <1>2 DEF RequesterHolds
<1>4. SettlingFullyFunded'
  BY <1>2 DEF SettlingFullyFunded, HeldAmounts, BasketCost
<1> QED BY <1>1, <1>3, <1>4 DEF FundsInv

(* An accepted basket stands funded in full, to the unit, from the accept    *)
(* until settlement is known (engine.rs accept_request, commit phase): the   *)
(* winners' contributions and the requester's cost are the notional, and no  *)
(* command in between takes a claim off the committed list.                  *)
THEOREM BasketFunded == Spec => []SettlingFullyFunded
<1>1. Init => FundsInv
  <2>1. Init => MInv
    BY InitInv DEF MInv, Init, PricesWithinUnit, ConsumedHold
  <2> QED BY <2>1 DEF Init, FundsInv, RequesterHolds, SettlingFullyFunded, InState
<1>2. FundsInv /\ [Next]_vars => FundsInv'
  BY NextFunds
<1>3. FundsInv => SettlingFullyFunded
  BY DEF FundsInv
<1> QED BY <1>1, <1>2, <1>3, PTL DEF Spec

-----------------------------------------------------------------------------
(***************************************************************************)
(* What is offered and until when, and what an account still owes: for     *)
(* whoever must know how long a claim can be called upon.                  *)
(***************************************************************************)

RequestKept(r) ==
  /\ requests'[r] # Vacant
  /\ requests'[r].requester = requests[r].requester
  /\ requests'[r].deadline = requests[r].deadline
  /\ requests'[r].legs = requests[r].legs
  /\ requests'[r].state = "Settling" =>
       \/ requests[r].state = "Settling" /\ requests'[r].settle_by = requests[r].settle_by
       \/ now < requests[r].deadline /\ requests'[r].settle_by = now + MaxSettlingTime

RequestMade(r) ==
  /\ now' = now /\ requests'[r].state = "Open"
  /\ now < requests'[r].deadline /\ requests'[r].deadline <= now + MaxRequestTtl
  /\ requests'[r].requester \in Requesters
  /\ \A l \in DOMAIN requests'[r].legs : requests'[r].legs[l].size \in Sizes

QuoteMade(q) ==
  /\ now' = now /\ quotes'[q].state = "Active"
  /\ now < quotes'[q].expires_at /\ quotes'[q].expires_at <= now + MaxQuoteTtl
  /\ quotes'[q].maker \in Makers /\ quotes'[q].price \in Prices

RequestMoves(r) ==
  /\ requests[r] # Vacant => RequestKept(r)
  /\ requests[r] = Vacant /\ requests'[r] # Vacant => RequestMade(r)

LEMMA RequestTyped ==
  ASSUME IInv, NEW r \in RequestSlots, requests[r] # Vacant
  PROVE  /\ requests[r] \in Request /\ requests[r].deadline \in Nat
         /\ requests[r].settle_by \in Nat /\ requests[r].state \in RequestState
BY DEF IInv, TypeRest, Request

(* No command changes who asks, for what, or until when.                    *)
LEMMA RequestChanged ==
  ASSUME IInv, NEW s \in RequestSlots, requests[s] # Vacant,
         NEW state \in RequestState, NEW t \in Nat,
         requests' = [requests EXCEPT ![s] = [requests[s] EXCEPT !.state = state, !.settle_by = t]],
         state = "Settling" => now < requests[s].deadline /\ t = now + MaxSettlingTime,
         NEW r \in RequestSlots
  PROVE  RequestMoves(r)
<1>1. CASE r = s
  <2>1. requests[s] \in Request
    BY RequestTyped
  <2>2. requests'[s] = [requests[s] EXCEPT !.state = state, !.settle_by = t]
    BY DEF IInv, TypeRest
  <2>3. /\ requests'[s] \in Request
        /\ requests'[s].requester = requests[s].requester
        /\ requests'[s].deadline = requests[s].deadline
        /\ requests'[s].legs = requests[s].legs
        /\ requests'[s].state = state /\ requests'[s].settle_by = t
    <3> DEFINE old == requests[s]
               new == [old EXCEPT !.state = state, !.settle_by = t]
    <3>1. old \in Request
      BY <2>1
    <3> HIDE DEF old
    <3>2. new \in Request
      BY <3>1 DEF Request
    <3>3. new.requester = old.requester /\ new.deadline = old.deadline /\ new.legs = old.legs
      BY <3>1 DEF Request
    <3>4. new.state = state /\ new.settle_by = t
      BY <3>1 DEF Request
    <3> HIDE DEF new
    <3>5. requests'[s] = new /\ requests[s] = old
      BY <2>2 DEF new, old
    <3> QED BY <3>2, <3>3, <3>4, <3>5
  <2>4. requests'[s] # Vacant
    BY <2>3, VacantIsNoValue
  <2> QED BY <1>1, <2>3, <2>4 DEF RequestMoves, RequestKept
<1>2. CASE r # s
  BY <1>2 DEF IInv, TypeRest, RequestMoves, RequestKept
<1> QED BY <1>1, <1>2

LEMMA RequestsSame ==
  ASSUME requests' = requests, NEW r \in RequestSlots PROVE RequestMoves(r)
BY DEF RequestMoves, RequestKept

\* A slot taken by SubmitRequest, one slot at a time.
LEMMA RequestOpened ==
  ASSUME IInv, NEW a \in Requesters, NEW deadline \in Times, NEW legs \in LegLists,
         SubmitRequest(a, deadline, legs), NEW r \in RequestSlots
  PROVE  RequestMoves(r)
<1>1. CASE Refuse(Normalised({a}))
  BY <1>1, RequestsSame DEF Refuse
<1>2. ASSUME RequestAdmissible(deadline, legs), NEW s \in RequestSlots,
             OpenRequest(s, a, deadline, legs, Normalised({a}))
      PROVE  RequestMoves(r)
  <2> DEFINE new == [requester |-> a, deadline |-> deadline, legs |-> legs,
                     state |-> "Open", settle_by |-> 0]
  <2>1. requests[s] = Vacant /\ requests' = [requests EXCEPT ![s] = new] /\ now' = now
    BY <1>2 DEF OpenRequest
  <2>2. requests' [s] = new /\ (r # s => requests'[r] = requests[r])
    BY <2>1 DEF IInv, TypeRest
  <2>3. CASE r = s
    <3>1. now < deadline /\ deadline - now <= MaxRequestTtl
      BY <1>2 DEF RequestAdmissible
    <3>2. now \in Nat /\ deadline \in Nat /\ MaxRequestTtl \in Nat
      BY InputTypes, EngineConstants DEF IInv, TypeRest
    <3>3. \A l \in DOMAIN legs : legs[l].size \in Sizes
      BY DEF LegLists, LegSpecs
    <3> QED BY <2>1, <2>2, <2>3, <3>1, <3>2, <3>3 DEF RequestMoves, RequestMade
  <2>4. CASE r # s
    BY <2>2, <2>4 DEF RequestMoves, RequestKept
  <2> QED BY <2>3, <2>4
<1> QED BY <1>1, <1>2 DEF SubmitRequest

LEMMA TimeMoves ==
  ASSUME IInv, [Next]_vars
  PROVE  now \in Nat /\ now <= now' /\ now' \in Nat
<1>1. now \in Nat
  BY DEF IInv, TypeRest
<1>2. CASE Fading
  BY <1>1, <1>2 DEF Fading
<1>3. ASSUME NEW m \in Accounts, NEW s \in RequestSlots, NEW l \in LegIds, NEW price \in Nat,
             NEW size \in Nat, NEW expires_at \in Nat, Admits(m, s, l, price, size, expires_at)
      PROVE  now' = now
  BY <1>3 DEF Admits, ReplaceAndOpen
<1> QED BY <1>1, <1>2, <1>3, StepKinds

LEMMA RequestsMove ==
  ASSUME IInv, [Next]_vars, NEW r \in RequestSlots
  PROVE  RequestMoves(r)
<1>0. now \in Nat
  BY DEF IInv, TypeRest
<1>1. CASE Tick \/ UNCHANGED vars
  BY <1>1, RequestsSame DEF Tick, vars
<1>2. CASE \E a \in Accounts, amount \in Balances : CreditAccount(a, amount)
  BY <1>2, RequestsSame DEF CreditAccount
<1>3. CASE \E c \in Contracts, date \in EventDates : RegisterContract(c, date)
  BY <1>3, RequestsSame DEF RegisterContract, Refuse
<1>4. CASE \E a \in Requesters, deadline \in Times, legs \in LegLists :
             SubmitRequest(a, deadline, legs)
  BY <1>4, RequestOpened
<1>5. ASSUME NEW s \in RequestSlots, RejectRequest(s)
      PROVE  RequestMoves(r)
  <2>1. CASE Refuse(Normalised(Requester(s)))
    BY <2>1, RequestsSame DEF Refuse
  <2>2. CASE InState(s, "Open") /\ requests' = [requests EXCEPT ![s].state = "Rejected"]
    <3>1. requests[s] \in Request /\ requests[s] # Vacant /\ requests[s].settle_by \in Nat
      BY <2>2, RequestTyped DEF InState
    <3>2. [requests[s] EXCEPT !.state = "Rejected"]
            = [requests[s] EXCEPT !.state = "Rejected", !.settle_by = requests[s].settle_by]
      BY <3>1 DEF Request
    <3> QED BY <2>2, <3>1, <3>2, RequestChanged DEF RequestState
  <2> QED BY <1>5, <2>1, <2>2 DEF RejectRequest, RejectAdmissible
<1>6. ASSUME NEW m, NEW s, NEW l, NEW price, NEW size, NEW expires_at,
             SubmitQuote(m, s, l, price, size, expires_at)
      PROVE  RequestMoves(r)
  BY <1>6, RequestsSame DEF SubmitQuote, ReplaceAndOpen, Refuse
<1>7. CASE \E q \in QuoteSlots : CancelQuote(q)
  BY <1>7, RequestsSame DEF CancelQuote, Refuse
<1>8. ASSUME NEW s \in RequestSlots, NEW expected, AcceptRequest(s, expected)
      PROVE  RequestMoves(r)
  <2>1. CASE Refuse(Normalised(Requester(s)))
    BY <2>1, RequestsSame DEF Refuse
  <2>2. ASSUME AcceptAdmissible(s, expected), NEW win, CommitAccept(s, win, Normalised(Requester(s)))
        PROVE  RequestMoves(r)
    <3>1. /\ requests[s] # Vacant /\ now < requests[s].deadline
          /\ requests' = [requests EXCEPT ![s].state = "Settling",
                                          ![s].settle_by = now + MaxSettlingTime]
      BY <2>2 DEF AcceptAdmissible, CommitAccept, InState
    <3>2. now + MaxSettlingTime \in Nat
      BY <1>0, EngineConstants
    <3>3. requests' = [requests EXCEPT ![s] =
             [requests[s] EXCEPT !.state = "Settling", !.settle_by = now + MaxSettlingTime]]
      BY <3>1 DEF IInv, TypeRest
    <3> QED BY <3>1, <3>2, <3>3, RequestChanged DEF RequestState
  <2> QED BY <1>8, <2>1, <2>2 DEF AcceptRequest
<1>9. ASSUME NEW s \in RequestSlots, NEW status, PollSettlement(s, status)
      PROVE  RequestMoves(r)
  <2>1. CASE requests' = requests
    BY <2>1, RequestsSame
  <2>2. ASSUME InState(s, "Settling"), NEW state \in {"Escrowed", "SettlementFailed"},
               requests' = [requests EXCEPT ![s].state = state]
        PROVE  RequestMoves(r)
    <3>1. requests[s] \in Request /\ requests[s] # Vacant /\ requests[s].settle_by \in Nat
      BY <2>2, RequestTyped DEF InState
    <3>2. [requests[s] EXCEPT !.state = state]
            = [requests[s] EXCEPT !.state = state, !.settle_by = requests[s].settle_by]
      BY <3>1 DEF Request
    <3> QED BY <2>2, <3>1, <3>2, RequestChanged DEF RequestState
  <2> QED BY <1>9, <2>1, <2>2 DEF PollSettlement, StillUnknown, Discharge, Refuse
<1> QED
  BY <1>1, <1>2, <1>3, <1>4, <1>5, <1>6, <1>7, <1>8, <1>9 DEF Next

(* Offers come one at a time, and nothing changes them but being consumed.  *)
LEMMA QuotesMove ==
  ASSUME IInv, [Next]_vars, NEW q \in QuoteSlots
  PROVE  QuoteKept(q) \/ QuoteMade(q)
<1>1. CASE Fading
  BY <1>1 DEF Fading, QuoteKept
<1>2. ASSUME NEW m \in Makers, NEW r \in RequestSlots, NEW l \in LegIds, NEW price \in Prices,
             NEW size \in Sizes, NEW expires_at \in Times,
             Admits(m, r, l, price, size, expires_at)
      PROVE  QuoteKept(q) \/ QuoteMade(q)
  <2> DEFINE quote == NewQuote(m, r, l, price, size, expires_at)
  <2>1. m \in Accounts /\ price \in Nat /\ size \in Nat /\ expires_at \in Nat
    BY InputTypes, EngineConstants
  <2>2. \E old, added : Exchanged(r, l, old, added, quote)
    BY <1>2, <2>1, Admission
  <2>3. quotes'[q] = quote \/ quotes'[q] = Vacant \/ quotes'[q] = quotes[q]
    BY <2>2 DEF Exchanged
  <2>4. /\ quote.state = "Active" /\ quote.expires_at = expires_at
        /\ quote.maker = m /\ quote.price = price
    BY DEF NewQuote
  <2>5. now < expires_at /\ expires_at <= now + MaxQuoteTtl
    BY <1>2, <2>1, EngineConstants DEF Admits, QuoteAdmissible, IInv, TypeRest
  <2>6. now' = now
    BY <2>2 DEF Exchanged
  <2> HIDE DEF quote
  <2> QED BY <2>3, <2>4, <2>5, <2>6 DEF QuoteKept, QuoteMade
<1> QED BY <1>1, <1>2, MarketSteps

-----------------------------------------------------------------------------
(* The terms of what is offered                                             *)

\* Who offers what, no longer ahead than the configuration allows, and a claim held for
\* an offer expires with it.
RequestTerms(r) ==
  /\ requests[r].requester \in Requesters
  /\ \A l \in DOMAIN requests[r].legs : requests[r].legs[l].size \in Sizes
  /\ requests[r].deadline <= now + MaxRequestTtl
  /\ requests[r].state = "Settling" =>
       requests[r].settle_by <= requests[r].deadline + MaxSettlingTime

QuoteTerms(q) ==
  /\ quotes[q].maker \in Makers /\ quotes[q].price \in Prices
  /\ quotes[q].expires_at <= now + MaxQuoteTtl

TermsInv ==
  /\ \A r \in RequestSlots : requests[r] # Vacant => RequestTerms(r)
  /\ \A q \in QuoteSlots : quotes[q] # Vacant => QuoteTerms(q)
  /\ \A o \in Owners : claims[o] # Vacant /\ claims[o].list = Vacant =>
       claims[o].expires_at = OfferEnd(o)

LEMMA QuoteTyped ==
  ASSUME IInv, NEW q \in QuoteSlots, quotes[q] # Vacant
  PROVE  /\ quotes[q] \in Quote /\ quotes[q].expires_at \in Nat
         /\ quotes[q].request \in RequestSlots /\ requests[quotes[q].request] # Vacant
<1>1. quotes[q] \in Quote
  BY DEF IInv, TypeRest
<1>2. requests[quotes[q].request] # Vacant
  BY DEF IInv, QuotesPlaced, QuotesFollowTheirRequest, InState
<1> QED BY <1>1, <1>2 DEF Quote

\* What is kept of an offer.
LEMMA KeptQuote ==
  ASSUME IInv, NEW q \in QuoteSlots, quotes'[q] # Vacant, QuoteKept(q)
  PROVE  /\ quotes[q] # Vacant
         /\ quotes'[q].maker = quotes[q].maker /\ quotes'[q].price = quotes[q].price
         /\ quotes'[q].request = quotes[q].request
         /\ quotes'[q].expires_at = quotes[q].expires_at
<1>1. quotes[q] # Vacant /\ quotes'[q] \in {quotes[q], ConsumedFrom(q)}
  BY DEF QuoteKept
<1>2. quotes[q] \in Quote
  BY <1>1, QuoteTyped
<1> QED BY <1>1, <1>2 DEF ConsumedFrom, Quote

\* The slot of a claim is never empty.
LEMMA ClaimOwned ==
  ASSUME IInv, NEW o \in Owners, claims[o] # Vacant
  PROVE  /\ o \in QuoteSlots => quotes[o] # Vacant
         /\ o \notin QuoteSlots => o \in RequestSlots /\ requests[o] # Vacant
<1>1. CASE claims[o].list = Vacant
  BY <1>1 DEF IInv, BookInv, BookCoherent, ReservedClaimCoherent, InState, Owners
<1>2. CASE claims[o].list # Vacant
  BY <1>2 DEF IInv, BookInv, BookCoherent, CommittedClaimCoherent, InState, Owners
<1> QED BY <1>1, <1>2

LEMMA ClaimOwnedNext ==
  ASSUME IInv', NEW o \in Owners, claims'[o] # Vacant
  PROVE  /\ o \in QuoteSlots => quotes'[o] # Vacant
         /\ o \notin QuoteSlots => o \in RequestSlots /\ requests'[o] # Vacant
<1>1. CASE claims'[o].list = Vacant
  BY <1>1 DEF IInv, BookInv, BookCoherent, ReservedClaimCoherent, InState, Owners
<1>2. CASE claims'[o].list # Vacant
  BY <1>2 DEF IInv, BookInv, BookCoherent, CommittedClaimCoherent, InState, Owners
<1> QED BY <1>1, <1>2

\* The end of the offer behind a claim that was there does not move.
LEMMA OfferEndStays ==
  ASSUME IInv, IInv', NEW o \in Owners, claims[o] # Vacant, claims'[o] # Vacant,
         o \in QuoteSlots => QuoteKept(o), o \in RequestSlots => RequestMoves(o)
  PROVE  OfferEnd(o)' = OfferEnd(o)
<1>1. CASE o \in QuoteSlots
  <2>1. quotes'[o] # Vacant
    BY <1>1, ClaimOwnedNext
  <2> QED BY <1>1, <2>1, KeptQuote DEF OfferEnd
<1>2. CASE o \notin QuoteSlots
  <2>1. o \in RequestSlots /\ requests[o] # Vacant
    BY <1>2, ClaimOwned
  <2> QED BY <1>2, <2>1 DEF RequestMoves, RequestKept, OfferEnd
<1> QED BY <1>1, <1>2

LEMMA NextTerms ==
  ASSUME IInv, IInv', TermsInv, [Next]_vars
  PROVE  TermsInv'
<1>1. now \in Nat /\ now <= now' /\ now' \in Nat
  BY TimeMoves
<1>0. MaxSettlingTime \in Nat /\ MaxRequestTtl \in Nat /\ MaxQuoteTtl \in Nat
  BY EngineConstants
<1>2. ASSUME NEW r \in RequestSlots, requests'[r] # Vacant PROVE RequestTerms(r)'
  <2>1. RequestMoves(r)
    BY RequestsMove
  <2>2. CASE requests[r] # Vacant
    <3>1. RequestKept(r) /\ RequestTerms(r) /\ requests[r].deadline \in Nat
      BY <2>1, <2>2, RequestTyped DEF RequestMoves, TermsInv
    <3>2. requests'[r].deadline <= now' + MaxRequestTtl
      BY <1>0, <1>1, <3>1 DEF RequestKept, RequestTerms
    <3>3. requests'[r].state = "Settling" =>
            requests'[r].settle_by <= requests'[r].deadline + MaxSettlingTime
      BY <1>0, <1>1, <3>1 DEF RequestKept, RequestTerms
    <3> QED BY <3>1, <3>2, <3>3 DEF RequestKept, RequestTerms
  <2>3. CASE requests[r] = Vacant
    BY <1>2, <2>1, <2>3 DEF RequestMoves, RequestMade, RequestTerms
  <2> QED BY <2>2, <2>3
<1>3. ASSUME NEW q \in QuoteSlots, quotes'[q] # Vacant PROVE QuoteTerms(q)'
  <2>1. CASE QuoteKept(q)
    <3>1. /\ quotes[q] # Vacant
          /\ quotes'[q].maker = quotes[q].maker /\ quotes'[q].price = quotes[q].price
          /\ quotes'[q].expires_at = quotes[q].expires_at
      BY <1>3, <2>1, KeptQuote
    <3>2. QuoteTerms(q) /\ quotes[q].expires_at \in Nat
      BY <3>1, QuoteTyped DEF TermsInv
    <3> QED BY <1>0, <1>1, <3>1, <3>2 DEF QuoteTerms
  <2>2. CASE QuoteMade(q)
    BY <2>2 DEF QuoteMade, QuoteTerms
  <2> QED BY <2>1, <2>2, QuotesMove
<1>4. ASSUME NEW o \in Owners, claims'[o] # Vacant, claims'[o].list = Vacant,
             NEW book, Shrinks(book, claims), claims'[o] = book[o],
             o \in QuoteSlots => QuoteKept(o)
      PROVE  claims'[o].expires_at = OfferEnd(o)'
  <2>1. claims[o] # Vacant /\ book[o] = claims[o]
    BY <1>4 DEF Shrinks, Commits
  <2>2. OfferEnd(o)' = OfferEnd(o)
    BY <1>4, <2>1, OfferEndStays, RequestsMove
  <2> QED BY <1>4, <2>1, <2>2 DEF TermsInv
<1>5. ASSUME NEW o \in Owners, claims'[o] # Vacant, claims'[o].list = Vacant
      PROVE  claims'[o].expires_at = OfferEnd(o)'
  <2>1. CASE OnlyShrinks
    BY <1>4, <1>5, <2>1 DEF OnlyShrinks
  <2>2. CASE AdmitsClaim
    <3>1. PICK book \in [Owners -> Claim \cup {Vacant}], p \in Owners, c \in Claim :
            /\ Shrinks(book, claims) /\ claims' = [book EXCEPT ![p] = c]
            /\ c.list = Vacant /\ c.expires_at = OfferEnd(p)'
            /\ \A q \in QuoteSlots \ {p} : QuoteKept(q)
      BY <2>2 DEF AdmitsClaim
    <3>2. claims'[o] = IF o = p THEN c ELSE book[o]
      BY <3>1
    <3>3. CASE o = p
      BY <3>1, <3>2, <3>3
    <3>4. CASE o # p
      BY <1>4, <1>5, <3>1, <3>2, <3>4
    <3> QED BY <3>3, <3>4
  <2> QED BY <2>1, <2>2, NextClaims
<1> QED BY <1>2, <1>3, <1>5 DEF TermsInv, Owners

-----------------------------------------------------------------------------
(* What an account may still be called upon for                             *)

\* Claims of a that can still be used and whose request is not among the answered N.
Unanswered(N, a) ==
  {o \in ClaimsOf(claims, a) : ~ClaimExpired(claims[o]) /\ claims[o].list \notin N}

\* What a set of claims holds.
Holding(S) == SumFunctionOnSet(Amounts(claims), S)

\* The request behind a claim, and whether nothing can be made of the claim after h.
Behind(o) == IF o \in QuoteSlots THEN quotes[o].request ELSE o
Within(o, h) ==
  /\ requests[Behind(o)].deadline + MaxSettlingTime <= h
  /\ o \in QuoteSlots => quotes[o].expires_at <= h

TermsStand(o) ==
  /\ Behind(o)' = Behind(o)
  /\ requests'[Behind(o)].deadline = requests[Behind(o)].deadline
  /\ o \in QuoteSlots => quotes'[o].expires_at = quotes[o].expires_at

\* Whatever a may be called upon for after the step, it could be before, until as late.
Lessens(N, a) ==
  \A o \in Unanswered(N, a)' :
    o \in Unanswered(N, a) /\ claims'[o].amount <= claims[o].amount /\ TermsStand(o)

LEMMA TermsStay ==
  ASSUME IInv, IInv', [Next]_vars, NEW o \in Owners, claims[o] # Vacant, claims'[o] # Vacant,
         o \in QuoteSlots => QuoteKept(o)
  PROVE  TermsStand(o)
<1>1. CASE o \in QuoteSlots
  <2>1. quotes'[o] # Vacant
    BY <1>1, ClaimOwnedNext
  <2>2. /\ quotes[o] # Vacant /\ quotes'[o].request = quotes[o].request
        /\ quotes'[o].expires_at = quotes[o].expires_at
    BY <1>1, <2>1, KeptQuote
  <2>3. quotes[o].request \in RequestSlots /\ requests[quotes[o].request] # Vacant
    BY <1>1, <2>2, QuoteTyped
  <2>4. RequestMoves(quotes[o].request)
    BY <2>3, RequestsMove
  <2> QED BY <1>1, <2>2, <2>3, <2>4 DEF RequestMoves, RequestKept, TermsStand, Behind
<1>2. CASE o \notin QuoteSlots
  <2>1. o \in RequestSlots /\ requests[o] # Vacant
    BY <1>2, ClaimOwned
  <2> QED BY <1>2, <2>1, RequestsMove DEF RequestMoves, RequestKept, TermsStand, Behind
<1> QED BY <1>1, <1>2

LEMMA ClaimLessens ==
  ASSUME IInv, IInv', [Next]_vars, NEW N \in SUBSET RequestSlots, NEW a,
         NEW o \in Unanswered(N, a)', NEW book, Shrinks(book, claims), claims'[o] = book[o],
         o \in QuoteSlots => QuoteKept(o)
  PROVE  o \in Unanswered(N, a) /\ claims'[o].amount <= claims[o].amount /\ TermsStand(o)
<1>1. /\ o \in Owners /\ claims'[o] # Vacant /\ claims'[o].account = a
      /\ ~(claims'[o].list = Vacant /\ claims'[o].expires_at <= now')
      /\ claims'[o].list \notin N
  BY DEF Unanswered, ClaimsOf, ClaimExpired
<1>2. /\ claims[o] # Vacant /\ claims[o].account = a /\ claims'[o].amount <= claims[o].amount
      /\ claims'[o] = claims[o] \/ Commits(claims'[o], claims[o])
  BY <1>1 DEF Shrinks
<1>3. ~ClaimExpired(claims[o]) /\ claims[o].list \notin N
  <2>1. CASE claims'[o] = claims[o]
    <3>1. claims[o] \in Claim
      BY <1>1, <1>2 DEF IInv, BookInv, BookTyped
    <3>2. claims[o].expires_at \in Nat
      BY <3>1 DEF Claim
    <3> QED BY <1>1, <2>1, <3>2, TimeMoves DEF ClaimExpired
  <2>2. CASE Commits(claims'[o], claims[o])
    <3>1. claims[o].expires_at \in Nat
      BY <1>1, <1>2 DEF IInv, BookInv, BookTyped, Claim
    <3> QED BY <2>2, <3>1, TimeMoves, VacantIsNoValue DEF Commits, ClaimExpired
  <2> QED BY <1>2, <2>1, <2>2
<1> QED BY <1>1, <1>2, <1>3, TermsStay DEF Unanswered, ClaimsOf

(* A command asks no more of an account, or has checked all its claims       *)
(* against its mirrored balance (ledger.rs check_reservable).                *)
LEMMA NextLessens ==
  ASSUME IInv, IInv', [Next]_vars, NEW N \in SUBSET RequestSlots, NEW a \in Accounts
  PROVE  Lessens(N, a) \/ Claimed(claims', a) <= free'[a]
<1>1. CASE OnlyShrinks
  <2>1. ASSUME NEW o \in Unanswered(N, a)'
        PROVE  o \in Unanswered(N, a) /\ claims'[o].amount <= claims[o].amount /\ TermsStand(o)
    BY <1>1, <2>1, ClaimLessens DEF OnlyShrinks
  <2> QED BY <2>1 DEF Lessens
<1>2. CASE AdmitsClaim
  <2>1. PICK book \in [Owners -> Claim \cup {Vacant}], p \in Owners, c \in Claim :
          /\ Shrinks(book, claims) /\ claims' = [book EXCEPT ![p] = c]
          /\ Claimed(book, c.account) + c.amount <= free[c.account] /\ free' = free
          /\ \A q \in QuoteSlots \ {p} : QuoteKept(q)
    BY <1>2 DEF AdmitsClaim
  <2>2. BookTyped(book) /\ BookTyped(claims')
    BY <2>1 DEF IInv, BookInv, BookTyped
  <2>3. CASE c.account = a
    <3>1. Claimed(claims', a) <= Claimed(book, a) + c.amount
      BY <2>1, <2>2, <2>3, AddingOne
    <3>2. Claimed(book, a) \in Nat /\ Claimed(claims', a) \in Nat /\ c.amount \in Nat
      BY <2>2, ClaimedIsSum DEF Claim
    <3>3. free[a] \in Nat
      BY DEF IInv, TypeRest
    <3> QED BY <2>1, <2>3, <3>1, <3>2, <3>3
  <2>4. CASE c.account # a
    <3>1. ASSUME NEW o \in Unanswered(N, a)'
          PROVE  o \in Unanswered(N, a) /\ claims'[o].amount <= claims[o].amount /\ TermsStand(o)
      <4>1. o \in Owners /\ claims'[o].account = a
        BY DEF Unanswered, ClaimsOf
      <4>2. o # p /\ claims'[o] = book[o]
        BY <2>1, <2>4, <4>1
      <4> QED BY <2>1, <4>2, ClaimLessens
    <3> QED BY <3>1 DEF Lessens
  <2> QED BY <2>3, <2>4
<1> QED BY <1>1, <1>2, NextClaims

LEMMA HoldingNatural ==
  ASSUME IInv, NEW S \in SUBSET Owners
  PROVE  /\ Holding(S) \in Nat /\ IsFiniteSet(S)
         /\ \A o \in Owners : Amounts(claims)[o] \in Nat
<1>1. IsFiniteSet(S)
  BY OwnersFinite, FS_Subset
<1>2. \A o \in Owners : Amounts(claims)[o] \in Nat
  BY ClaimedIsSum DEF IInv, BookInv
<1> QED BY <1>1, <1>2, SumOne DEF Holding

LEMMA HoldingEmpty == ASSUME IInv PROVE Holding({}) = 0
<1>1. IsFiniteSet({}) /\ \A o \in {} : Amounts(claims)[o] \in Nat
  BY FS_EmptySet
<1> QED BY <1>1, SumOne DEF Holding

LEMMA HoldingMore ==
  ASSUME IInv, NEW S \in SUBSET Owners, NEW T \in SUBSET S PROVE Holding(T) <= Holding(S)
<1>1. \A o \in Owners : Amounts(claims)[o] \in Nat
  BY HoldingNatural
<1>2. IsFiniteSet(S)
  BY HoldingNatural
<1> QED BY <1>1, <1>2, SumMonotone DEF Holding

LEMMA HoldingParts ==
  ASSUME IInv, NEW S \in SUBSET Owners, NEW T \in SUBSET S, NEW R \in SUBSET S, T \cap R = {}
  PROVE  Holding(T) + Holding(R) <= Holding(S)
<1>1. /\ \A o \in Owners : Amounts(claims)[o] \in Nat
      /\ IsFiniteSet(T) /\ IsFiniteSet(R)
  BY HoldingNatural
<1>2. Holding(T \cup R) = Holding(T) + Holding(R)
  BY <1>1, SumUnion DEF Holding
<1>3. Holding(T \cup R) <= Holding(S)
  BY HoldingMore
<1> QED BY <1>2, <1>3

\* What is held by claims that stay, or that were larger.
LEMMA HoldingLess ==
  ASSUME IInv, IInv', NEW S \in SUBSET Owners, NEW T \in SUBSET S,
         \A o \in T : /\ claims[o] # Vacant /\ claims'[o] # Vacant
                      /\ claims'[o].amount <= claims[o].amount
  PROVE  Holding(T)' <= Holding(S)
<1>1. /\ \A o \in Owners : Amounts(claims)[o] \in Nat
      /\ IsFiniteSet(S)
  BY HoldingNatural
<1>2. \A o \in T : Amounts(claims')[o] \in Nat /\ Amounts(claims')[o] <= Amounts(claims)[o]
  <2>1. \A o \in Owners : Amounts(claims')[o] \in Nat
    BY ClaimedIsSum DEF IInv, BookInv
  <2>2. T \subseteq Owners
    OBVIOUS
  <2> QED BY <2>1, <2>2 DEF Amounts
<1> QED BY <1>1, <1>2, SumMonotone DEF Holding

LEMMA LessensHolding ==
  ASSUME IInv, IInv', NEW N, NEW a, Lessens(N, a)
  PROVE  Holding(Unanswered(N, a))' <= Holding(Unanswered(N, a))
<1> DEFINE S == Unanswered(N, a)
           T == Unanswered(N, a)'
<1>1. /\ S \subseteq Owners /\ T \subseteq S
      /\ \A o \in T : /\ claims[o] # Vacant /\ claims'[o] # Vacant
                      /\ claims'[o].amount <= claims[o].amount
  BY DEF Lessens, Unanswered, ClaimsOf
<1> HIDE DEF S, T
<1>2. PICK U : U = T
  OBVIOUS
<1>3. Holding(U)' <= Holding(S)
  BY <1>1, <1>2, HoldingLess
<1> QED BY <1>2, <1>3 DEF T, S, Holding

LEMMA ClaimedHolds ==
  ASSUME IInv, NEW a PROVE Claimed(claims, a) = Holding(ClaimsOf(claims, a))
BY ClaimedIsSum DEF IInv, BookInv, Holding

\* The claims on a request's list, of one account.
Share(r, a) == {o \in ClaimsOf(claims, a) : claims[o].list = r}

(* What answered requests still hold is no part of what may be called upon. *)
LEMMA AnsweredApart ==
  ASSUME IInv, NEW N, NEW a, NEW S \in SUBSET {o \in ClaimsOf(claims, a) : claims[o].list \in N}
  PROVE  Holding(Unanswered(N, a)) + Holding(S) <= Claimed(claims, a)
<1>1. /\ ClaimsOf(claims, a) \subseteq Owners /\ S \subseteq ClaimsOf(claims, a)
      /\ Unanswered(N, a) \subseteq ClaimsOf(claims, a) /\ Unanswered(N, a) \cap S = {}
  BY DEF ClaimsOf, Unanswered
<1> QED BY <1>1, HoldingParts, ClaimedHolds

(* An answer takes the claims on the request's list out of it.              *)
LEMMA AnswerLessens ==
  ASSUME IInv, NEW N \in SUBSET RequestSlots, NEW r \in RequestSlots \ N, NEW a,
         NEW T \in SUBSET Share(r, a)
  PROVE  /\ Unanswered(N \cup {r}, a) \subseteq Unanswered(N, a)
         /\ Holding(Unanswered(N \cup {r}, a)) + Holding(T) <= Holding(Unanswered(N, a))
<1>0. r # Vacant /\ Vacant \notin N
  BY VacantIsNoValue
<1>1. /\ Unanswered(N, a) \subseteq Owners
      /\ Unanswered(N \cup {r}, a) \subseteq Unanswered(N, a)
      /\ Unanswered(N \cup {r}, a) \cap T = {}
  BY DEF Unanswered, ClaimsOf, Share
<1>2. T \subseteq Unanswered(N, a)
  BY <1>0 DEF Unanswered, Share, ClaimExpired
<1> QED BY <1>1, <1>2, HoldingParts

-----------------------------------------------------------------------------
(* What stands behind an accepted basket                                   *)

\* Quote q stands behind a leg of r: its maker committed what the leg takes of it, by
\* an offer that is good until the leg says.
PledgedLeg(r, q, leg) ==
  /\ claims[q] # Vacant /\ claims[q].list = r
  /\ claims[q].account = leg.maker /\ claims[q].amount = leg.maker_contribution
  /\ quotes[q] # Vacant /\ quotes[q].request = r /\ quotes[q].expires_at = leg.quote_expiry

\* What legs take of their requester, and of an account that may be on both sides.
CostOf(legs) == SumFunction([l \in DOMAIN legs |-> legs[l].requester_contribution])
DebitOf(legs, b, a) ==
  SumFunction([l \in DOMAIN legs |->
                 (IF legs[l].maker = a THEN legs[l].maker_contribution ELSE 0)
                 + (IF b = a THEN legs[l].requester_contribution ELSE 0)])

\* Each leg of r by a quote w[l] of its own, and requester a committed the cost of all.
Pledged(r, w, a, legs) ==
  /\ \A l \in DOMAIN legs : PledgedLeg(r, w[l], legs[l])
  /\ \A k, l \in DOMAIN legs : w[k] = w[l] => k = l
  /\ claims[r] # Vacant /\ claims[r].list = r
  /\ claims[r].account = a /\ claims[r].amount = CostOf(legs)

\* The legs, by what the quotes and the request say.
WonLeg(r, q, l) ==
  [maker |-> quotes[q].maker, quote_expiry |-> quotes[q].expires_at,
   maker_contribution |-> MakerContribution(requests[r].legs[l], quotes[q].price),
   requester_contribution |-> requests[r].legs[l].size * quotes[q].price]
PledgedBy(r, w) ==
  Pledged(r, w, requests[r].requester, [l \in LegsOf(r) |-> WonLeg(r, w[l], l)])

\* Legs that say the same are pledged alike.
LEMMA PledgedAlike ==
  ASSUME NEW r, NEW w, NEW a, NEW legs, NEW others, Pledged(r, w, a, legs),
         DOMAIN others = DOMAIN legs,
         \A l \in DOMAIN legs :
           /\ others[l].maker = legs[l].maker /\ others[l].quote_expiry = legs[l].quote_expiry
           /\ others[l].maker_contribution = legs[l].maker_contribution
           /\ others[l].requester_contribution = legs[l].requester_contribution
  PROVE  Pledged(r, w, a, others)
<1>1. CostOf(others) = CostOf(legs)
  <2>1. [l \in DOMAIN others |-> others[l].requester_contribution]
          = [l \in DOMAIN legs |-> legs[l].requester_contribution]
    OBVIOUS
  <2> QED BY <2>1 DEF CostOf
<1> QED BY <1>1 DEF Pledged, PledgedLeg

LEMMA AcceptPledges ==
  ASSUME IInv, IInv', PricesWithinUnit, NEW r \in RequestSlots, AcceptsNow(r)
  PROVE  \E w \in [LegsOf(r) -> QuoteSlots] :
           (\A l \in LegsOf(r) : chain'[r][l] = {w[l]}) /\ PledgedBy(r, w)'
<1>1. PICK expected :
        /\ AcceptAdmissible(r, expected)
        /\ \E win \in Plan(r, expected) : CommitAccept(r, win, Normalised(Requester(r)))
  BY DEF AcceptsNow
<1>2. PICK w \in Plan(r, expected) : CommitAccept(r, w, Normalised(Requester(r)))
  BY <1>1
<1>3. InState(r, "Open") /\ now < requests[r].deadline /\ AcceptRequest(r, expected)
  BY <1>1, <1>2 DEF AcceptAdmissible, AcceptRequest
<1>4. requests[r] \in Request
  BY <1>3, RequestTyped DEF InState
<1>5. ASSUME NEW l \in LegsOf(r)
      PROVE  /\ w[l] \in QuoteSlots /\ quotes[w[l]] \in Quote /\ quotes[w[l]].request = r
             /\ quotes[w[l]].leg = l
             /\ quotes'[w[l]] = ConsumedFrom(w[l])
             /\ claims'[w[l]] # Vacant /\ claims'[w[l]].list = r
             /\ claims'[w[l]].amount = MakerContribution(requests[r].legs[l], quotes[w[l]].price)
  BY <1>2, <1>3, <1>5, WinnerOutcome
<1>6. /\ claims'[r] # Vacant /\ claims'[r].list = r /\ claims'[r].amount = FillCost(r, w)
      /\ requests'[r].legs = requests[r].legs
      /\ \A l \in LegsOf(r) : chain'[r][l] = {w[l]}
  BY <1>2, <1>3, AcceptOutcome
<1>7. Shrinks(claims', claims)
  BY <1>3, AcceptClaims
<1>8. ASSUME NEW l \in LegsOf(r) PROVE claims'[w[l]].account = quotes[w[l]].maker
  <2> DEFINE q == w[l]
  <2>1. quotes[q] # Vacant /\ Live(quotes[q]) /\ q \in QuoteSlots
    BY <1>2, <1>5, <1>8, VacantIsNoValue DEF Plan, Best, Eligible
  <2>2. claims'[q] # Vacant
    BY <1>5, <1>8
  <2> HIDE DEF q
  <2>3. QuoteBacked(claims, q)
    BY <2>1 DEF IInv, BookInv, BookBacked
  <2>4. claims[q].account = quotes[q].maker
    BY <2>1, <2>3 DEF QuoteBacked, Reserved
  <2>5. claims'[q].account = quotes[q].maker
    BY <1>7, <2>1, <2>2, <2>4 DEF Shrinks, Owners
  <2> QED BY <2>5 DEF q
<1>9. claims'[r].account = requests[r].requester
  <2>1. RequestBacked(claims, r)
    BY <1>3 DEF IInv, BookInv, BookBacked
  <2>2. claims[r].account = requests[r].requester
    BY <2>1 DEF RequestBacked, Reserved
  <2> QED BY <1>6, <1>7, <2>2 DEF Shrinks, Owners
<1>10. requests'[r].requester = requests[r].requester
  <2>1. requests' = [requests EXCEPT ![r].state = "Settling",
                                     ![r].settle_by = now + MaxSettlingTime]
    BY <1>2 DEF CommitAccept
  <2> QED BY <1>4, <2>1 DEF IInv, TypeRest, Request
<1>11. ASSUME NEW l \in LegsOf(r)
       PROVE  /\ quotes'[w[l]].maker = quotes[w[l]].maker
              /\ quotes'[w[l]].price = quotes[w[l]].price
              /\ quotes'[w[l]].request = r /\ quotes'[w[l]] # Vacant
  <2>1. quotes'[w[l]] # Vacant
    BY <1>5, <1>11, ClaimOwnedNext DEF Owners
  <2> QED BY <1>5, <1>11, <2>1 DEF ConsumedFrom, Quote
<1>12. w \in [LegsOf(r) -> QuoteSlots]
  BY <1>2 DEF Plan
<1>13. LegsOf(r)' = LegsOf(r)
  BY <1>6 DEF LegsOf
<1>14. PICK legs : legs = [l \in LegsOf(r) |-> WonLeg(r, w[l], l)]'
  OBVIOUS
<1>15. /\ DOMAIN legs = LegsOf(r)
       /\ \A l \in LegsOf(r) :
            /\ legs[l].maker = quotes[w[l]].maker
            /\ legs[l].quote_expiry = quotes'[w[l]].expires_at
            /\ legs[l].maker_contribution =
                 MakerContribution(requests[r].legs[l], quotes[w[l]].price)
            /\ legs[l].requester_contribution = requests[r].legs[l].size * quotes[w[l]].price
  <2>1. DOMAIN legs = LegsOf(r)
    BY <1>13, <1>14
  <2>2. ASSUME NEW l \in LegsOf(r) PROVE legs[l] = WonLeg(r, w[l], l)'
    BY <1>13, <1>14, <2>2
  <2>3. ASSUME NEW l \in LegsOf(r)
        PROVE  WonLeg(r, w[l], l)' =
                 [maker |-> quotes[w[l]].maker, quote_expiry |-> quotes'[w[l]].expires_at,
                  maker_contribution |->
                    MakerContribution(requests[r].legs[l], quotes[w[l]].price),
                  requester_contribution |-> requests[r].legs[l].size * quotes[w[l]].price]
    BY <1>6, <1>11, <2>3 DEF WonLeg, MakerContribution
  <2>4. ASSUME NEW l \in LegsOf(r)
        PROVE  /\ legs[l].maker = quotes[w[l]].maker
               /\ legs[l].quote_expiry = quotes'[w[l]].expires_at
               /\ legs[l].maker_contribution =
                    MakerContribution(requests[r].legs[l], quotes[w[l]].price)
               /\ legs[l].requester_contribution = requests[r].legs[l].size * quotes[w[l]].price
    <3>1. legs[l] = [maker |-> quotes[w[l]].maker, quote_expiry |-> quotes'[w[l]].expires_at,
                     maker_contribution |->
                       MakerContribution(requests[r].legs[l], quotes[w[l]].price),
                     requester_contribution |-> requests[r].legs[l].size * quotes[w[l]].price]
      BY <2>2, <2>3, <2>4
    <3> QED BY <3>1
  <2> QED BY <2>1, <2>4
<1>16. CostOf(legs) = FillCost(r, w)
  <2>1. [l \in DOMAIN legs |-> legs[l].requester_contribution]
          = [l \in LegsOf(r) |-> requests[r].legs[l].size * quotes[w[l]].price]
    BY <1>15
  <2> QED BY <2>1 DEF CostOf, FillCost
<1>17. \A l \in DOMAIN legs : PledgedLeg(r, w[l], legs[l])'
  BY <1>5, <1>8, <1>11, <1>15 DEF PledgedLeg
<1>18. \A k, l \in DOMAIN legs : w[k] = w[l] => k = l
  BY <1>5, <1>15
<1>19. Pledged(r, w, requests[r].requester, legs)'
  BY <1>6, <1>9, <1>10, <1>16, <1>17, <1>18 DEF Pledged
<1>20. PledgedBy(r, w)'
  BY <1>14, <1>19 DEF PledgedBy
<1> QED BY <1>6, <1>12, <1>20

LEMMA PledgeStands ==
  ASSUME MInv, RequesterHolds, [Next]_vars, NEW r \in RequestSlots,
         InState(r, "Settling"), InState(r, "Settling")', NEW legs,
         NEW w, \A l \in DOMAIN legs : w[l] \in QuoteSlots,
         NEW a, Pledged(r, w, a, legs)
  PROVE  Pledged(r, w, a, legs)'
<1>0. IInv /\ IInv'
  BY NextInv DEF MInv
<1>1. claims'[r] = claims[r]
  <2>1. r \in OnList(claims, r)
    BY DEF Pledged, OnList, Owners
  <2> QED BY <2>1, ListStands
<1>2. ASSUME NEW l \in DOMAIN legs PROVE PledgedLeg(r, w[l], legs[l])'
  <2> DEFINE q == w[l]
  <2>0. q \in QuoteSlots /\ PledgedLeg(r, q, legs[l])
    BY <1>2 DEF Pledged
  <2> HIDE DEF q
  <2>1. q \in OnList(claims, r)
    BY <2>0 DEF PledgedLeg, OnList, Owners
  <2>2. claims'[q] = claims[q]
    BY <2>1, ListStands
  <2>3. quotes'[q] # Vacant /\ quotes'[q].state = "Consumed"
    BY <1>0, <2>0, <2>2, VacantIsNoValue
       DEF IInv, BookInv, BookCoherent, CommittedClaimCoherent, PledgedLeg, Owners
  <2>4. QuoteKept(q)
    BY <1>0, <2>0, <2>3, QuotesMove DEF QuoteMade
  <2>5. quotes'[q].request = quotes[q].request /\ quotes'[q].expires_at = quotes[q].expires_at
    BY <1>0, <2>0, <2>3, <2>4, KeptQuote
  <2>6. PledgedLeg(r, q, legs[l])'
    BY <2>0, <2>2, <2>3, <2>5 DEF PledgedLeg
  <2> QED BY <2>6 DEF q
<1> QED BY <1>1, <1>2 DEF Pledged

-----------------------------------------------------------------------------
(* What the claims on the lists of some requests hold of an account        *)

OfLists(M, a) == {o \in ClaimsOf(claims, a) : claims[o].list \in M}
Listed(M, a) == Holding(OfLists(M, a))

LEMMA ListedNatural ==
  ASSUME IInv, NEW M, NEW a PROVE Listed(M, a) \in Nat
<1>1. OfLists(M, a) \in SUBSET Owners
  BY DEF OfLists, ClaimsOf
<1> QED BY <1>1, HoldingNatural DEF Listed

\* A command leaves what is on a list that it does not answer.
LEMMA ListedStay ==
  ASSUME IInv, [Next]_vars, NEW M \in SUBSET RequestSlots, NEW a,
         \A n \in M : InState(n, "Settling") =>
           requests'[n].state \notin {"Escrowed", "SettlementFailed"},
         NEW o \in OfLists(M, a)
  PROVE  claims'[o] = claims[o]
<1>1. o \in Owners /\ claims[o] # Vacant /\ claims[o].list \in M
  BY DEF OfLists, ClaimsOf
<1>2. Held(o)
  BY <1>1, VacantIsNoValue DEF Held
<1>3. InState(claims[o].list, "Settling")
  BY <1>1, <1>2, HeldOwner
<1> QED BY <1>1, <1>2, <1>3, HeldStep

LEMMA ListedKept ==
  ASSUME IInv, IInv', NEW M, NEW N, M \subseteq N, NEW a,
         \A o \in OfLists(M, a) : claims'[o] = claims[o]
  PROVE  Listed(M, a) <= Listed(N, a)'
<1> DEFINE S == OfLists(M, a)
<1>0. PICK T : T = OfLists(N, a)'
  OBVIOUS
<1>1. S \in SUBSET Owners /\ T \in SUBSET Owners /\ S \subseteq T
  BY <1>0 DEF OfLists, ClaimsOf
<1>2. /\ \A o \in Owners : Amounts(claims)[o] \in Nat
      /\ IsFiniteSet(T)
  BY <1>1, HoldingNatural
<1>3. \A o \in Owners : Amounts(claims')[o] \in Nat
  BY ClaimedIsSum DEF IInv, BookInv
<1>4. \A o \in S : Amounts(claims)[o] = Amounts(claims')[o]
  BY <1>1 DEF Amounts
<1>5. \A o \in S : Amounts(claims)[o] \in Nat /\ Amounts(claims)[o] <= Amounts(claims')[o]
  BY <1>1, <1>2, <1>4
<1>6. \A o \in T : Amounts(claims')[o] \in Nat
  BY <1>1, <1>3
<1> HIDE DEF S
<1>7. SumFunctionOnSet(Amounts(claims), S) <= SumFunctionOnSet(Amounts(claims'), T)
  BY <1>1, <1>2, <1>5, <1>6, SumMonotone
<1> QED BY <1>0, <1>7 DEF Listed, Holding, S

\* One more list, and what its claims held.
LEMMA ListedMore ==
  ASSUME IInv, NEW M, NEW n, n \notin M, NEW N, M \cup {n} \subseteq N, NEW a,
         NEW T \in SUBSET Share(n, a)
  PROVE  Listed(M, a) + Holding(T) <= Listed(N, a)
<1>1. /\ OfLists(N, a) \in SUBSET Owners
      /\ OfLists(M, a) \subseteq OfLists(N, a) /\ T \subseteq OfLists(N, a)
      /\ OfLists(M, a) \cap T = {}
  BY DEF OfLists, ClaimsOf, Share
<1> QED BY <1>1, HoldingParts DEF Listed

\* What may still be called upon, and what answered requests hold, is claimed apart.
LEMMA ListedApart ==
  ASSUME IInv, NEW N, NEW M \in SUBSET N, NEW a
  PROVE  Holding(Unanswered(N, a)) + Listed(M, a) <= Claimed(claims, a)
<1>1. OfLists(M, a) \subseteq {o \in ClaimsOf(claims, a) : claims[o].list \in N}
  BY DEF OfLists
<1> QED BY <1>1, AnsweredApart DEF Listed

Apart ==
  \A N \in SUBSET RequestSlots, a \in Accounts : \A M \in SUBSET N :
    Holding(Unanswered(N, a)) + Listed(M, a) <= Claimed(claims, a)
LEMMA ApartNow == IInv => Apart
BY ListedApart DEF Apart
LEMMA ApartNext == IInv' => Apart'
BY ApartNow, PTL

\* What a pledge holds of an account: what the legs take of it, by the claims of the
\* quotes it made and, if it asked, of the request.
Shares(r, w, b, legs, a) ==
  \E T \in SUBSET Share(r, a) :
    /\ Holding(T) = DebitOf(legs, b, a)
    /\ \A l \in DOMAIN legs : legs[l].maker = a => w[l] \in T
    /\ \A q \in QuoteSlots \cap T : \E l \in DOMAIN legs : q = w[l] /\ legs[l].maker = a

\* The quotes of one account behind the legs.
QuotesMade(legs, w, a) == {w[l] : l \in {k \in DOMAIN legs : legs[k].maker = a}}

\* What the legs one account makes take of it.
LEMMA MakersShare ==
  ASSUME IInv, NEW r \in RequestSlots, NEW legs, IsFiniteSet(DOMAIN legs),
         NEW w, NEW b, NEW a, Pledged(r, w, b, legs),
         \A l \in DOMAIN legs : w[l] \in QuoteSlots /\ legs[l].maker_contribution \in Nat,
         NEW f, \A l \in DOMAIN legs :
                  f[l] = IF legs[l].maker = a THEN legs[l].maker_contribution ELSE 0
  PROVE  Holding(QuotesMade(legs, w, a)) = SumFunctionOnSet(f, DOMAIN legs)
<1> DEFINE D == DOMAIN legs
           M == {l \in D : legs[l].maker = a}
           N == D \ M
<1>1. M \subseteq D /\ N \subseteq D /\ M \cup N = D /\ M \cap N = {}
  OBVIOUS
<1>2. IsFiniteSet(M) /\ IsFiniteSet(N)
  BY <1>1, FS_Subset
<1>3. \A l \in M : f[l] \in Nat /\ Amounts(claims)[w[l]] = f[l]
  BY DEF Amounts, Pledged, PledgedLeg, Owners
<1>4. \A k, l \in M : w[k] = w[l] => k = l
  BY DEF Pledged
<1>5. \A l \in N : f[l] = 0
  OBVIOUS
<1>0. QuotesMade(legs, w, a) = {w[l] : l \in M}
  BY DEF QuotesMade
<1> HIDE DEF M, N, D
<1>6. SumFunctionOnSet(Amounts(claims), {w[l] : l \in M}) = SumFunctionOnSet(f, M)
  BY <1>2, <1>3, <1>4, SumRenamed
<1>7. SumFunctionOnSet(f, N) = 0
  BY <1>2, <1>5, SumZero
<1>8. SumFunctionOnSet(f, M) \in Nat
  BY <1>2, <1>3, SumOne
<1>9. SumFunctionOnSet(f, M \cup N) = SumFunctionOnSet(f, M) + SumFunctionOnSet(f, N)
  <2>1. \A l \in M \cup N : f[l] \in Nat
    BY <1>3, <1>5
  <2> QED BY <1>1, <1>2, <2>1, SumUnion
<1>10. SumFunctionOnSet(f, D) = SumFunctionOnSet(Amounts(claims), {w[l] : l \in M})
  <2>1. SumFunctionOnSet(f, D) = SumFunctionOnSet(f, M \cup N)
    BY <1>1
  <2>2. SumFunctionOnSet(f, M \cup N) = SumFunctionOnSet(f, M)
    BY <1>7, <1>8, <1>9
  <2> QED BY <1>6, <2>1, <2>2
<1> QED BY <1>0, <1>10 DEF Holding, D

\* What the legs take of their requester.
LEMMA RequesterShare ==
  ASSUME IInv, NEW r \in RequestSlots, NEW legs, IsFiniteSet(DOMAIN legs),
         NEW w, NEW b, NEW a, Pledged(r, w, b, legs),
         NEW h, \A l \in DOMAIN legs :
                  h[l] = IF b = a THEN legs[l].requester_contribution ELSE 0,
         \A l \in DOMAIN legs : legs[l].requester_contribution \in Nat
  PROVE  Holding(IF b = a THEN {r} ELSE {}) = SumFunctionOnSet(h, DOMAIN legs)
<1>1. CASE b = a
  <2> DEFINE c == [l \in DOMAIN legs |-> legs[l].requester_contribution]
  <2>1. \A l \in DOMAIN legs : c[l] \in Nat /\ h[l] = c[l]
    BY <1>1
  <2>2. DOMAIN c = DOMAIN legs /\ CostOf(legs) = SumFunction(c)
    BY DEF CostOf
  <2> HIDE DEF c
  <2>3. SumFunctionOnSet(h, DOMAIN legs) = SumFunctionOnSet(c, DOMAIN legs)
    BY <2>1, SumSame
  <2>4. CostOf(legs) = SumFunctionOnSet(c, DOMAIN legs)
    BY <2>2 DEF SumFunction
  <2>5. r \in Owners /\ Amounts(claims)[r] = CostOf(legs) /\ Amounts(claims)[r] \in Nat
    BY HoldingNatural DEF Owners, Amounts, Pledged
  <2>6. IsFiniteSet({r}) /\ \A o \in {r} : Amounts(claims)[o] = IF o = r THEN CostOf(legs) ELSE 0
    BY <2>5, FS_Singleton
  <2>7. SumFunctionOnSet(Amounts(claims), {r}) = CostOf(legs)
    BY <2>5, <2>6, SumPoint
  <2> QED BY <1>1, <2>3, <2>4, <2>7 DEF Holding
<1>2. CASE b # a
  <2>1. SumFunctionOnSet(h, DOMAIN legs) = 0
    BY <1>2, SumZero
  <2> QED BY <1>2, <2>1, HoldingEmpty
<1> QED BY <1>1, <1>2

LEMMA PledgeShare ==
  ASSUME IInv, NEW r \in RequestSlots, NEW legs, IsFiniteSet(DOMAIN legs),
         NEW w, NEW b, NEW a, Pledged(r, w, b, legs),
         \A l \in DOMAIN legs :
           w[l] \in QuoteSlots /\ legs[l].maker_contribution \in Nat
           /\ legs[l].requester_contribution \in Nat
  PROVE  Shares(r, w, b, legs, a)
<1> DEFINE D == DOMAIN legs
           Q == QuotesMade(legs, w, a)
           R == IF b = a THEN {r} ELSE {}
           f == [l \in D |-> IF legs[l].maker = a THEN legs[l].maker_contribution ELSE 0]
           h == [l \in D |-> IF b = a THEN legs[l].requester_contribution ELSE 0]
           k == [l \in D |-> (IF legs[l].maker = a THEN legs[l].maker_contribution ELSE 0)
                              + (IF b = a THEN legs[l].requester_contribution ELSE 0)]
<1>1. /\ Q \in SUBSET Owners /\ R \in SUBSET Owners /\ Q \cap R = {}
      /\ r \notin QuoteSlots
  BY EngineConstants DEF Owners, QuotesMade
<1>2. Q \in SUBSET Share(r, a) /\ R \in SUBSET Share(r, a)
  BY <1>1 DEF Share, ClaimsOf, Pledged, PledgedLeg, QuotesMade
<1>3. \A l \in D : f[l] \in Nat /\ h[l] \in Nat /\ k[l] = f[l] + h[l]
  OBVIOUS
<1>4. DebitOf(legs, b, a) = SumFunctionOnSet(k, D)
  <2>1. DebitOf(legs, b, a) = SumFunction(k) /\ DOMAIN k = D
    BY DEF DebitOf
  <2> HIDE DEF k
  <2> QED BY <2>1 DEF SumFunction
<1>5. /\ \A l \in DOMAIN legs :
           f[l] = IF legs[l].maker = a THEN legs[l].maker_contribution ELSE 0
      /\ \A l \in DOMAIN legs : h[l] = IF b = a THEN legs[l].requester_contribution ELSE 0
  OBVIOUS
<1> HIDE DEF f, h, k
<1>6. SumFunctionOnSet(k, D) = SumFunctionOnSet(f, D) + SumFunctionOnSet(h, D)
  <2>1. IsFiniteSet(D)
    OBVIOUS
  <2> HIDE DEF D
  <2> QED BY <1>3, <2>1, SumPlus
<1>7. Holding(Q) = SumFunctionOnSet(f, D)
  <2>1. \A l \in DOMAIN legs : w[l] \in QuoteSlots /\ legs[l].maker_contribution \in Nat
    OBVIOUS
  <2> QED BY <1>5, <2>1, MakersShare
<1>8. Holding(R) = SumFunctionOnSet(h, D)
  <2>1. \A l \in DOMAIN legs : legs[l].requester_contribution \in Nat
    OBVIOUS
  <2> QED BY <1>5, <2>1, RequesterShare
<1>9. /\ \A l \in DOMAIN legs : legs[l].maker = a => w[l] \in Q \cup R
      /\ \A q \in QuoteSlots \cap (Q \cup R) : \E l \in DOMAIN legs : q = w[l] /\ legs[l].maker = a
  BY <1>1 DEF QuotesMade
<1> HIDE DEF Q, R
<1>10. Holding(Q \cup R) = Holding(Q) + Holding(R)
  <2>1. /\ IsFiniteSet(Q) /\ IsFiniteSet(R)
        /\ \A o \in Owners : Amounts(claims)[o] \in Nat
    BY <1>1, HoldingNatural
  <2>2. \A o \in Q \cup R : Amounts(claims)[o] \in Nat
    BY <1>1, <2>1
  <2> QED BY <1>1, <2>1, <2>2, SumUnion DEF Holding
<1>11. Holding(Q \cup R) = DebitOf(legs, b, a)
  BY <1>4, <1>6, <1>7, <1>8, <1>10
<1> QED BY <1>2, <1>9, <1>11 DEF Shares

-----------------------------------------------------------------------------
(* Until when a claim can be called upon                                   *)

LEMMA BehindTyped ==
  ASSUME IInv, NEW o \in Owners, claims[o] # Vacant
  PROVE  /\ Behind(o) \in RequestSlots /\ requests[Behind(o)] # Vacant
         /\ requests[Behind(o)].deadline \in Nat
         /\ o \in QuoteSlots => quotes[o] # Vacant /\ quotes[o].expires_at \in Nat
<1>1. CASE o \in QuoteSlots
  <2>1. quotes[o] # Vacant
    BY <1>1, ClaimOwned
  <2>2. /\ quotes[o].request \in RequestSlots /\ requests[quotes[o].request] # Vacant
        /\ quotes[o].expires_at \in Nat
    BY <1>1, <2>1, QuoteTyped
  <2> QED BY <1>1, <2>1, <2>2, RequestTyped DEF Behind
<1>2. CASE o \notin QuoteSlots
  <2>1. o \in RequestSlots /\ requests[o] # Vacant
    BY <1>2, ClaimOwned
  <2> QED BY <1>2, <2>1, RequestTyped DEF Behind
<1> QED BY <1>1, <1>2

LEMMA WithinLater ==
  ASSUME IInv, NEW o \in Owners, claims[o] # Vacant, NEW h \in Int, NEW k \in Int, h <= k,
         Within(o, h)
  PROVE  Within(o, k)
<1>1. /\ requests[Behind(o)].deadline \in Nat /\ MaxSettlingTime \in Nat
      /\ o \in QuoteSlots => quotes[o].expires_at \in Nat
  BY BehindTyped, EngineConstants
<1>2. /\ requests[Behind(o)].deadline + MaxSettlingTime <= h
      /\ o \in QuoteSlots => quotes[o].expires_at <= h
  BY DEF Within
<1>3. requests[Behind(o)].deadline + MaxSettlingTime <= k
  BY <1>1, <1>2
<1>4. o \in QuoteSlots => quotes[o].expires_at <= k
  BY <1>1, <1>2
<1> QED BY <1>3, <1>4 DEF Within

\* Whatever is claimed now, nothing can be made of it a claim window from now.
LEMMA WithinWindow ==
  ASSUME IInv, TermsInv, NEW o \in Owners, claims[o] # Vacant, NEW w \in Nat,
         MaxRequestTtl + MaxSettlingTime <= w, MaxQuoteTtl <= w
  PROVE  Within(o, now + w)
<1>1. /\ Behind(o) \in RequestSlots /\ requests[Behind(o)] # Vacant
      /\ requests[Behind(o)].deadline \in Nat
      /\ o \in QuoteSlots => quotes[o] # Vacant /\ quotes[o].expires_at \in Nat
  BY BehindTyped
<1>2. now \in Nat /\ {MaxRequestTtl, MaxSettlingTime, MaxQuoteTtl} \subseteq Nat
  BY EngineConstants DEF IInv, TypeRest
<1>3. requests[Behind(o)].deadline <= now + MaxRequestTtl
  BY <1>1 DEF TermsInv, RequestTerms
<1>4. o \in QuoteSlots => quotes[o].expires_at <= now + MaxQuoteTtl
  BY <1>1 DEF TermsInv, QuoteTerms
<1>5. requests[Behind(o)].deadline + MaxSettlingTime <= now + w
  BY <1>1, <1>2, <1>3
<1>6. o \in QuoteSlots => quotes[o].expires_at <= now + w
  BY <1>1, <1>2, <1>4
<1> QED BY <1>5, <1>6 DEF Within

\* A claim out of its time: an offer that has expired, or a settlement that is late.
LEMMA WithinOver ==
  ASSUME IInv, TermsInv, NEW o \in Owners, claims[o] # Vacant, NEW h \in Int, h <= now, Within(o, h)
  PROVE  /\ claims[o].list = Vacant => ClaimExpired(claims[o])
         /\ claims[o].list # Vacant =>
              /\ InState(claims[o].list, "Settling") /\ claims[o].list \in RequestSlots
              /\ requests[claims[o].list].settle_by \in Nat
              /\ requests[claims[o].list].settle_by <= h
<1>1. /\ Behind(o) \in RequestSlots /\ requests[Behind(o)] # Vacant
      /\ requests[Behind(o)].deadline \in Nat
      /\ o \in QuoteSlots => quotes[o] # Vacant /\ quotes[o].expires_at \in Nat
  BY BehindTyped
<1>2. /\ requests[Behind(o)].deadline + MaxSettlingTime <= h
      /\ o \in QuoteSlots => quotes[o].expires_at <= h
  BY DEF Within
<1>3. now \in Nat /\ MaxSettlingTime \in Nat
  BY EngineConstants DEF IInv, TypeRest
<1>4. ASSUME claims[o].list = Vacant PROVE ClaimExpired(claims[o])
  <2>1. claims[o].expires_at = OfferEnd(o)
    BY <1>4 DEF TermsInv
  <2>2. CASE o \in QuoteSlots
    <3>1. quotes[o].expires_at <= now
      BY <1>1, <1>2, <1>3, <2>2
    <3> QED BY <1>4, <2>1, <2>2, <3>1 DEF OfferEnd, ClaimExpired
  <2>3. CASE o \notin QuoteSlots
    <3>1. Behind(o) = o
      BY <2>3 DEF Behind
    <3>2. requests[o].deadline <= now
      BY <1>1, <1>2, <1>3, <3>1
    <3> QED BY <1>4, <2>1, <2>3, <3>2 DEF OfferEnd, ClaimExpired
  <2> QED BY <2>2, <2>3
<1>5. ASSUME claims[o].list # Vacant
      PROVE  /\ InState(claims[o].list, "Settling") /\ claims[o].list \in RequestSlots
             /\ requests[claims[o].list].settle_by \in Nat
             /\ requests[claims[o].list].settle_by <= h
  <2> DEFINE n == claims[o].list
  <2>1. Held(o)
    BY <1>5 DEF Held
  <2>2. n \in RequestSlots /\ InState(n, "Settling") /\ Behind(o) = n
    BY <2>1, HeldOwner DEF Behind
  <2> HIDE DEF n
  <2>3. requests[n].settle_by \in Nat
    BY <1>1, <2>2, RequestTyped
  <2>4. requests[n].settle_by <= requests[n].deadline + MaxSettlingTime
    BY <1>1, <2>2 DEF TermsInv, RequestTerms, InState
  <2>5. requests[n].settle_by <= h
    BY <1>1, <1>2, <1>3, <2>2, <2>3, <2>4
  <2> QED BY <2>2, <2>3, <2>5 DEF n
<1> QED BY <1>4, <1>5
=============================================================================
