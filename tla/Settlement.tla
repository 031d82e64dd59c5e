----------------------------- MODULE Settlement -----------------------------
(***************************************************************************)
(* The harness of crates/runtime: one engine, one custody, two clocks, and *)
(* the wires between them.  An engine step may leave a bundle with the     *)
(* adapter; the adapter submits it and sends it again; custody includes it *)
(* and answers in its log; the indexer carries the log back to the engine. *)
(*                                                                         *)
(* Every action is an action of Engine, Custody, ChainLog or Indexer with  *)
(* what the harness adds.  The harness pumps the indexer to the end after  *)
(* each operation, so an operation waits until nothing can be delivered,   *)
(* unless the indexer is stalled.  Withdrawals are of what custody says is *)
(* available; payouts and resolution are composed elsewhere.               *)
(***************************************************************************)
EXTENDS Integers, Sequences, FiniteSets, FiniteSetsExt, SequencesExt

CONSTANTS
  Accounts, Requesters, Makers, Contracts, RequestSlots, QuoteSlots,
  MaxLegs, MaxQuotesPerLeg, MaxReservations, MaxEscrows, EventCapacity, UNIT,
  MaxQuoteTtl, MaxRequestTtl, MinHorizon, MaxSettlingTime,
  Confirmations, BlockTime, MaxIndexerLag, MaxInclusionTime,
  Vacant,
  Prices, Sizes, EventDates,
  Deposits, Withdrawals,   \* amounts asked of custody
  MaxSkew,          \* bound: how far the two clocks drift apart
  MaxTime, MaxArrivals, MaxDeposited, MaxQueue, MaxSubmissions, MaxLosses,
  MaxRepeats,       \* bound: submissions in all while an answered bundle is repeated
  MaxHead, MaxReorgs, MaxRestarts   \* bounds on the rest

VARIABLES
  now, free, contracts, requests, chain, published, quotes, claims,
  next_arrival, reply,                                     \* the engine
  chain_now, balance, pending, matures_at, escrows, resolved, queue, submitted,
  deposited, withdrawn,                                    \* custody
  entries, head, next_tx,                                  \* the chain log
  cursor, delivered, handed, tip, reorgs, restarts,        \* the indexer
  outbox,       \* bundles the adapter has picked up and not sent
  in_flight,    \* bundles sent, kept for sending again
  lost,         \* submissions dropped so far
  stalled, lag  \* the indexer is not pumped, and for how long it has not been

ASSUME SettlementConstants ==
  /\ IsFiniteSet(Accounts) /\ Requesters \subseteq Accounts /\ Makers \subseteq Accounts
  /\ IsFiniteSet(RequestSlots) /\ IsFiniteSet(QuoteSlots) /\ RequestSlots \cap QuoteSlots = {}
  /\ {MaxReservations, MaxQuotesPerLeg, MaxEscrows, EventCapacity} \subseteq Nat
  /\ {MaxQuoteTtl, MaxRequestTtl, MinHorizon, MaxSettlingTime} \subseteq Nat
  /\ {Confirmations, BlockTime, MaxIndexerLag, MaxInclusionTime} \subseteq Nat
  /\ MaxLegs \in Nat \ {0} /\ UNIT \in Nat \ {0}
  /\ Prices \cup Sizes \cup EventDates \cup Deposits \cup Withdrawals \subseteq Nat
  /\ {MaxTime, MaxArrivals, MaxHead, MaxReorgs, MaxRestarts} \subseteq Nat

-----------------------------------------------------------------------------
(* Config::validate: what a deployment may start with *)

ClaimWindow ==
  IF MaxQuoteTtl > MaxRequestTtl + MaxSettlingTime
  THEN MaxQuoteTtl ELSE MaxRequestTtl + MaxSettlingTime

Lags == BlockTime * Confirmations + MaxIndexerLag + MaxInclusionTime

\* Faulty variant: the requester's claim window is forgotten.
TimelockOfMakers(delay) == delay > MaxQuoteTtl + Lags

TimelockLongEnough(delay) == delay > ClaimWindow + Lags

Validate(delay) ==
  /\ MinHorizon > MaxRequestTtl + MaxSettlingTime
  /\ TimelockLongEnough(delay)

\* A deployment whose request window fits its event horizon can be started.
ASSUME SomeDelayIsValid == MinHorizon > MaxRequestTtl + MaxSettlingTime

\* The shortest withdrawal delay a deployment with these bounds may start with.
WithdrawalDelay == Min({d \in 0..(ClaimWindow + Lags + 1) : Validate(d)})

-----------------------------------------------------------------------------
Leg == [contract : Contracts, side : {"Yes"}, maker : Makers,
        maker_contribution : {UNIT * s - p * s : s \in Sizes, p \in Prices},
        requester_contribution : {p * s : s \in Sizes, p \in Prices},
        quote_expiry : 0..(MaxTime + MaxQuoteTtl)]
Bundles == [nonce : RequestSlots, requester : Requesters,
            legs : UNION {[1..n -> Leg] : n \in 1..MaxLegs}]

E == INSTANCE Engine WITH Balances <- {}
C == INSTANCE Custody WITH now <- chain_now, Nonces <- RequestSlots, Amounts <- {}
I == INSTANCE Indexer WITH Payloads <- {}, MaxEntries <- 0

ASSUME VacantIsNoValue ==
  /\ Vacant \notin E!Claim /\ Vacant \notin E!Quote /\ Vacant \notin E!Request
  /\ Vacant \notin RequestSlots /\ Vacant \notin Nat
  /\ Vacant \notin {"Settled", "Reverted"}

engineVars == <<now, free, contracts, requests, chain, published, quotes, claims,
                next_arrival, reply>>
custodyVars == <<chain_now, balance, pending, matures_at, escrows, resolved, queue,
                 submitted, deposited, withdrawn>>
logVars == <<entries, head, next_tx>>
readerVars == <<cursor, delivered, handed>>
chainVars == <<tip, reorgs, restarts>>
adapterVars == <<outbox, in_flight, lost>>
pumpVars == <<stalled, lag>>
vars == <<engineVars, custodyVars, logVars, readerVars, chainVars, adapterVars, pumpVars>>

Init ==
  /\ E!Init
  /\ C!CustodyInit
  /\ cursor = 0 /\ delivered = {} /\ handed = <<>>
  /\ tip = 0 /\ reorgs = 0 /\ restarts = 0
  /\ outbox = <<>> /\ in_flight = <<>> /\ lost = 0
  /\ stalled = FALSE /\ lag = 0

-----------------------------------------------------------------------------
(* The wires *)

\* The winner of a leg, as custody takes it.
BundleLeg(r, l) ==
  LET spec == requests[r].legs[l]
      quote == quotes[CHOOSE q \in chain[r][l] : TRUE]
  IN  [contract |-> spec.contract, side |-> "Yes", maker |-> quote.maker,
       maker_contribution |-> E!MakerContribution(spec, quote.price),
       requester_contribution |-> spec.size * quote.price,
       quote_expiry |-> quote.expires_at]

\* bundle_from: the winners of an accepted request.
BundleOf(r) ==
  [nonce |-> r, requester |-> requests[r].requester,
   legs |-> [l \in DOMAIN requests[r].legs |-> BundleLeg(r, l)]]

\* The adapter takes every intent off the engine's events, and nothing else.
IntentsTaken ==
  LET intents == {r \in RequestSlots : [kind |-> "SubmitIntent", request |-> r] \in reply'.events}
  IN  outbox' = outbox \o SetToSeq({BundleOf(r)' : r \in intents})

\* An entry the indexer is free to deliver now.
Deliverable == cursor < Len(entries) /\ I!Confirmed(entries[cursor + 1])

\* The indexer is pumped dry after every operation, unless it is stalled.
Quiet == stalled \/ ~Deliverable

\* Harness::apply: one command, and the intents it leaves.
Apply(command) ==
  /\ Quiet
  /\ command
  /\ IntentsTaken
  /\ UNCHANGED <<custodyVars, logVars, readerVars, chainVars, in_flight, lost, pumpVars>>

\* A transaction at custody.
Transact(transaction) ==
  /\ Quiet
  /\ transaction
  /\ UNCHANGED <<engineVars, readerVars, chainVars, pumpVars>>

\* translate: an entry as the command it stands for.
Told(payload) ==
  \/ /\ payload.kind = "BalanceChanged"
     /\ E!CreditAccount(payload.account, payload.available)
  \/ /\ payload.kind = "SettlementResolved"
     /\ E!PollSettlement(payload.nonce, payload.status)

\* One turn of pump_indexer; an entry seen before yields no command.
Pump ==
  /\ ~stalled
  /\ I!ReadNext
  /\ IF handed' = handed THEN UNCHANGED <<engineVars, outbox>>
     ELSE Told(entries[cursor + 1].payload) /\ IntentsTaken
  /\ UNCHANGED <<custodyVars, in_flight, lost, pumpVars>>

StallIndexer ==
  /\ MaxIndexerLag > 0
  /\ Quiet /\ ~stalled
  /\ stalled' = TRUE
  /\ UNCHANGED <<engineVars, custodyVars, logVars, readerVars, chainVars, adapterVars, lag>>

ResumeIndexer ==
  /\ stalled
  /\ stalled' = FALSE /\ lag' = 0
  /\ UNCHANGED <<engineVars, custodyVars, logVars, readerVars, chainVars, adapterVars>>

-----------------------------------------------------------------------------
(* Operations *)

Register == \E c \in Contracts, date \in EventDates : Apply(E!RegisterContract(c, date))
Request == \E a \in Requesters, deadline \in now..(now + MaxRequestTtl), legs \in E!LegLists :
  Apply(E!SubmitRequest(a, deadline, legs))
Offer == \E m \in Makers, r \in RequestSlots, l \in E!LegIds, price \in Prices, size \in Sizes,
           expires_at \in now..(now + MaxQuoteTtl) :
  /\ next_arrival < MaxArrivals
  /\ Apply(E!SubmitQuote(m, r, l, price, size, expires_at))
Accept == \E r \in RequestSlots, expected \in E!Views : Apply(E!AcceptRequest(r, expected))
Reject == \E r \in RequestSlots : Apply(E!RejectRequest(r))

\* Faulty variant: a direct read is taken for the chain's announcement.
Reportable(status) == TRUE

\* Only an unresolved status is handed on; a terminal one is the log's to announce.
ReportableStatus(status) == status \in {"Unknown", "Pending"}

\* poll_settlement, of a request that is settling.
Poll(r) ==
  /\ E!InState(r, "Settling")
  /\ ReportableStatus(C!Status(r))
  /\ Apply(E!PollSettlement(r, C!Status(r)))

Deposit == \E a \in Accounts, amount \in Deposits :
  Transact(C!Deposit(a, amount)) /\ UNCHANGED adapterVars
RequestWithdrawal == \E a \in Accounts, amount \in Withdrawals :
  Transact(C!RequestWithdrawal(a, amount)) /\ UNCHANGED adapterVars
ExecuteWithdrawal == \E a \in Accounts :
  Transact(C!ExecuteWithdrawal(a)) /\ UNCHANGED adapterVars

\* submit_pending: sent, and kept.
SubmitPending ==
  /\ outbox # <<>>
  /\ Transact(C!Submit(Head(outbox)))
  /\ outbox' = Tail(outbox)
  /\ in_flight' = Append(in_flight, Head(outbox))
  /\ UNCHANGED lost

\* Faulty variant: what was sent is not kept.
KeptNowhere(r) == {}

\* Where the adapter keeps r's bundle.
Kept(r) == {i \in DOMAIN in_flight : in_flight[i].nonce = r}

\* resubmit: the same bundle again, whatever has become of the first.
Resubmit(r) ==
  /\ Kept(r) # {}
  /\ C!Status(r) = "Unknown" \/ submitted < MaxRepeats
  /\ Transact(C!Submit(in_flight[Min(Kept(r))]))
  /\ UNCHANGED adapterVars

LoseNextSubmission ==
  /\ lost < MaxLosses
  /\ lost' = lost + 1
  /\ Transact(C!DropNextSubmission)
  /\ UNCHANGED <<outbox, in_flight>>

Include == Transact(C!IncludeNext) /\ UNCHANGED adapterVars

\* A block is mined while an entry waits for one (a bound: later ones change nothing).
MineBlock ==
  /\ Quiet
  /\ \E i \in DOMAIN entries : ~I!Confirmed(entries[i])
  /\ I!Mine
  /\ UNCHANGED <<engineVars, custodyVars, adapterVars, pumpVars>>

\* A reorg within the confirmation depth, or a restart of the indexer.
ReorgOrRestart ==
  /\ Quiet
  /\ I!Rewind \/ \E block \in 1..MaxHead : I!ShallowReorg(block)
  /\ UNCHANGED <<engineVars, custodyVars, adapterVars, pumpVars>>

\* Time passes.
Clocks(step) ==
  /\ Quiet
  /\ stalled => lag < MaxIndexerLag
  /\ lag' = IF stalled THEN lag + 1 ELSE lag
  /\ step
  /\ UNCHANGED <<logVars, readerVars, chainVars, adapterVars, stalled>>

Tick ==
  \/ Clocks(E!Tick /\ C!Tick)
  \/ Clocks(E!Tick /\ now < chain_now + MaxSkew /\ UNCHANGED custodyVars)
  \/ Clocks(C!Tick /\ chain_now < now + MaxSkew /\ UNCHANGED engineVars)

Next ==
  \/ Register \/ Request \/ Offer \/ Accept \/ Reject
  \/ \E r \in RequestSlots : Poll(r) \/ Resubmit(r)
  \/ Deposit \/ RequestWithdrawal \/ ExecuteWithdrawal
  \/ SubmitPending \/ LoseNextSubmission \/ Include
  \/ MineBlock \/ ReorgOrRestart \/ Pump \/ StallIndexer \/ ResumeIndexer
  \/ Tick

Spec == Init /\ [][Next]_vars

\* The adapter sends what it has and sends again what is unknown, the chain includes and
\* mines, and the indexer is resumed and pumped.  Nothing makes anyone ask, offer,
\* accept or withdraw, and nothing stops losses but their bound.
FairSpec ==
  /\ Spec
  /\ WF_vars(SubmitPending) /\ WF_vars(Include) /\ WF_vars(MineBlock)
  /\ \A r \in RequestSlots : WF_vars(C!Status(r) = "Unknown" /\ Resubmit(r))
  /\ WF_vars(Pump) /\ WF_vars(ResumeIndexer)

-----------------------------------------------------------------------------
(* Correctness *)

\* The adapter's bundles are well formed, and none is for a request that was not accepted.
TypeOK ==
  /\ E!TypeOK /\ C!TypeOK
  /\ \A i \in DOMAIN outbox : outbox[i] \in Bundles
  /\ \A i \in DOMAIN in_flight : in_flight[i] \in Bundles
  /\ \A i \in DOMAIN in_flight : ~E!InState(in_flight[i].nonce, "Open")
  /\ cursor \in 0..Len(entries)
  /\ stalled \in BOOLEAN /\ lag \in 0..MaxIndexerLag

\* The engine believes of a trade what custody decided of it, custody decides it once
\* whatever is lost, repeated, reordered by a reorg or read twice, and only for a
\* request the engine has accepted; a settled basket forms an escrow for every leg the
\* engine accepted, in that one step, and no other step forms one (harness.rs, SPEC
\* section 8.1).
Believed(r) ==
  CASE E!InState(r, "Escrowed") -> "Settled"
    [] E!InState(r, "SettlementFailed") -> "Reverted"
    [] OTHER -> Vacant
Wanted == {r \in RequestSlots :
             \E s \in {"Settling", "Escrowed", "SettlementFailed"} : E!InState(r, s)}
\* No answer for a nonce nobody used, nor for the absent list of a reserved claim.
Decided(r) == IF r \in DOMAIN resolved THEN resolved[r] ELSE Vacant

A == INSTANCE Agreement WITH
       Trades <- RequestSlots, Answers <- {"Settled", "Reverted"}, Undecided <- Vacant,
       MaxParts <- MaxLegs,
       wanted <- Wanted,
       parts <- [r \in RequestSlots |-> IF r \in Wanted THEN Len(requests[r].legs) ELSE 0],
       decision <- [r \in RequestSlots |-> Decided(r)],
       known <- [r \in RequestSlots |-> Believed(r)],
       formed <- Len(escrows)

ImplementsAgreement == A!Spec

\* A settlement takes longer than the configuration allows for.
SomeOverdue ==
  \E r \in RequestSlots :
    /\ E!InState(r, "Settling") /\ r \notin DOMAIN resolved
    /\ now > requests[r].settle_by + MaxInclusionTime

\* What the engine has promised of an account, still may use, and custody has not answered.
Outstanding(a) ==
  LET held == {o \in E!ClaimsOf(claims, a) : /\ ~E!ClaimExpired(claims[o])
                                             /\ Decided(claims[o].list) = Vacant}
  IN  SumFunction([o \in held |-> claims[o].amount])

\* What custody has taken of an account by a settlement whose claims the engine holds.
Taken(a) ==
  LET held == {o \in E!ClaimsOf(claims, a) : Decided(claims[o].list) = "Settled"}
  IN  SumFunction([o \in held |-> claims[o].amount])

\* harness.rs check_claim_coverage, without the escrow term: no unit is promised twice,
\* and none that has gone can be promised again: what settlement has taken leaves the
\* engine's claims no earlier than its mirror.
PromisesAreHeld ==
  /\ TypeOK
  /\ \A a \in Accounts : /\ SomeOverdue \/ Outstanding(a) <= balance[a]
                         /\ free[a] <= balance[a] + Taken(a)

\* harness.rs check_mirror_agreement, exactly: an indexer that has read everything
\* leaves the mirror at what custody would let go.
MirrorIsExact ==
  cursor = Len(entries) => \A a \in Accounts : free[a] = C!Available(balance, pending, a)

\* A bundle custody could still honour by its quotes and has not answered.
Honourable(b) ==
  /\ ~C!Answered(b.nonce)
  /\ \A i \in DOMAIN b.legs : chain_now < b.legs[i].quote_expiry

Accepted == ToSet(outbox) \cup ToSet(in_flight)

\* SPEC section 9.3: settlement never finds the money gone, unless one is overdue.
FundsHeldUnlessOverdue ==
  \A b \in Accepted : Honourable(b) /\ ~SomeOverdue => C!Covered(b)

\* harness.rs:561-564, SPEC section 9.3: settlement never finds the money gone.
InsufficientFundsUnreachable == \A b \in Accepted : Honourable(b) => C!Covered(b)

\* The maker's side of it: nobody can quote and run, however late the settlement and
\* however far the mirror lags within its bound.
MakersCannotQuoteAndRun ==
  \A b \in Accepted : Honourable(b) =>
    \A i \in DOMAIN b.legs : C!Debit(b, b.legs[i].maker) <= balance[b.legs[i].maker]

\* Every accepted request learns its fate, unless a reorg discarded the only entry that
\* would have told it: custody answers a nonce once, and a retry bounces in silence.
AnswerLost(r) ==
  /\ r \in DOMAIN resolved
  /\ ~\E i \in DOMAIN entries : entries[i].payload = C!SettlementResolved(r, resolved[r])
SettlingEnds ==
  \A r \in RequestSlots :
    E!InState(r, "Settling") ~> (~E!InState(r, "Settling") \/ AnswerLost(r))

\* SPEC section 8.1: the outcome is polled until it is definitively known, and an unknown
\* one is a delay, the orphaned block included.
UnknownIsADelay ==
  \A r \in RequestSlots : E!InState(r, "Settling") ~> ~E!InState(r, "Settling")
=============================================================================
