# rfq-matching-settlement: a TLA+ verification

These modules model the venue of this repository: a matching engine that holds
claims on mirrored balances, an escrow contract that settles baskets of fills, a
chain log that carries facts back to the engine, and an oracle that decides what
each escrow pays; and, around these, the threads that run the engine and the gateway
that feeds it. TLC checks them on small instances; TLAPS proves the safety properties of the engine, the
slab, custody, the indexer, resolution, the venue and the gateway, and those of the
harness that do not depend on durations, for every instance. Paths below are relative
to `src/`.

## The system

| Component | State it keeps | Operations | What makes it hard |
|---|---|---|---|
| Matching engine (`crates/core/src/engine.rs`, `selection.rs`, `quote.rs`, `request.rs`) | requests, legs with their quote chains, quotes, arrival numbers | eleven commands through one `apply`, each normalising the accounts it addresses, then plan, check, commit | one balance backs offers on many legs of many requests; offers die by time, in silence; accept is all-or-nothing over legs |
| Claim ledger (`ledger.rs`, `reservation.rs`, `account.rs`) | mirrored balances with totals, claims on an expiry chain or a committed list | reserve, release, commit, discharge, expire, mirror update | intrusive chains and stored totals must agree with the claims in every order of operations |
| Slab (`slab.rs`) | slots, generations, free list | insert, remove, resolve | stale handles, generation limit |
| Resolution (`contract.rs`, `engine.rs` section 10) | event date and oracle status of each contract | report status, settle escrow | the outcome is derived, never stored; time alone can produce one |
| Custody (`crates/chain/src/custody.rs`, `bundle.rs`, `escrow.rs`) | balances, pending withdrawals, escrows, fate of nonces, submission queue | deposit, request and execute withdrawal, submit, include, drop, pay out | lost and repeated submissions, withdrawals racing settlements, its own clock |
| Chain log and indexer (`log.rs`, `indexer.rs`) | entries, head; cursor and deduplication set | append, mine, reorg; drain, rewind | reorgs, restarts, ordering |
| Oracle (`oracle.rs`) | proposal of each contract | propose, contest, finalise, escalate | a third clock, one trusted key |
| Adapters (`crates/runtime/src/harness.rs`, `settlement.rs`) | bundles and payouts on their way | the two wires between engine and chain | anything between two systems may wait, vanish or repeat |
| Venue (`venue.rs`, `handoff.rs`) | three threads, bounded channels, the command log | start, run, halt, replay | a full channel drops events or halts the engine |
| Gateway (`gateway.rs`) | account and contract indices | registration, command building | a registry shared under a lock |

How they interact: clients reach the engine only by commands. The engine answers
with events; one of them, `SubmitIntent`, becomes a bundle that an adapter submits
to custody. Custody never calls the engine: it writes balances and settlement
answers to the chain log, the oracle adapter writes oracle statuses there, anyone
may write a request for payout, and the indexer turns confirmed entries into
commands. `SettleIntent` events become payouts at custody. There are three clocks:
the engine's, custody's and the oracle's.

Which properties make each part correct:

* engine and ledger: every live offer is backed by exactly its claim; an accepted
  basket is funded to the unit; admission never lends a unit twice; committed
  capital moves only on the answer of settlement; nobody loses a quote in silence;
* custody: money is conserved; a trade forms once or not at all; the fate of a nonce
  is final; whatever moved is announced, in the right order;
* indexer: the engine gets the log, in order, once, and nothing that later vanishes;
* resolution: nobody is paid what was not ruled; decisions stand; a contest is no exit;
* slab: a handle names one occupant, ever, and no slot is lost but to retirement;
* the two together: what the engine promises, custody still holds; a trade is decided
  once and the engine believes that decision; an accepted request learns its fate;
* venue: a replayed command log rebuilds the engine; a lost event shows; a round ends;
* gateway: an index names one contract, and the engine is told of it first.

## Modules

| Module | What it models |
|---|---|
| `Engine` | The trading commands of the engine over an abstract claim book. |
| `ClaimBook`, `Ledger` | What the ledger promises, and its layout: chains, lists, totals, back-pointers. |
| `Registry`, `Slab` | What a slab promises of its handles, and the free list and generations behind them. |
| `ChainLog` | The append-only log; extended by the three modules that follow. |
| `Custody` | The escrow contract and the log entries it writes. |
| `Indexer` | The reader of the log, with reorgs and restarts. |
| `Resolution` | Oracle, contract status, payout intents and the payment of escrows. |
| `Agreement`, `Settlement` | What handing a trade to custody promises, and the harness that composes engine, custody, log and indexer to keep it. |
| `Venue` | The three threads, their channels, the halt and the command log. |
| `Gateway` | Dense indices for contracts and accounts, and the registrations that go ahead of them. |
| `EngineProofs` | Theorems about `Engine`: claims and offers; prices, quotes and notices; sums of money. |
| `ChainProofs` | Theorems about `Custody`, the log it writes, and `Indexer`, which reads it. |
| `LedgerProofs` | Theorems about `Ledger`. |
| `CoreProofs` | Theorems about `Slab` and `Resolution`. |
| `RuntimeProofs` | Theorems about `Venue` and `Gateway`. |
| `SettlementProofs` | Theorems about the composition, from those of `EngineProofs` and `ChainProofs`. |
| `TimelockProofs` | More about the composition: the withdrawal delay is long enough. |
| `Induction` | What all of them take induction from: recursive functions, folds over a sequence, sums over a finite set. |
| `MCEngine`, `MCLedger`, `MCSlab`, `MCCustody`, `MCIndexer`, `MCResolution`, `MCSettlement`, `MCVenue`, `MCGateway` | The instances TLC checks. |

`Settlement` instantiates `Engine`, `Custody` and `Indexer`, so its variables are
theirs; `Ledger`, `Slab` and `Settlement` each instantiate the abstract module they
implement under a refinement mapping.

Definitions whose comment says *faulty variant* are deliberate mistakes (a dropped
condition, an off-by-one, a swapped order). No specification uses them: replacing the
real definition by one of them breaks the property listed beside it in
`PROJECT.json`, which shows that the property depends on the code it is about.

### Engine

One action is one command of `Engine::apply`; its precondition is split into the
admissible case and the refusal, which leaves the normalised state. `claims` is
indexed by the claim's owner (a request or a quote slot), so the reservation slab is a
set of records and `MaxReservations` its capacity; `list` says whether a claim is
reserved (`Vacant`) or on a request's committed list. `chain` holds, for each leg, the
quotes linked on it. `published` is the price last put on the feed. `reply` is the
result of the last command and the events it pushed.

| Code | Action |
|---|---|
| `submit_request`, `reject_request` | `SubmitRequest`, `RejectRequest` |
| `submit_quote` with replacement, link and publication | `SubmitQuote`, `ReplaceAndOpen`, `OpenQuote` |
| `accept_request`, `plan_accept` and the commit phase | `AcceptRequest`, `Plan`, `CommitAccept` |
| `poll_settlement`, `discharge_committed`, `close_consumed_quotes` | `PollSettlement`, `Discharge` |
| `CreditAccount`, `RegisterContract`, `CancelQuote` | actions of the same names |

`ReplaceAndOpen` keeps the order of the code: the standing quote is released, with its
notice, before the step that may still refuse. Arithmetic is exact: refusals for
overflow of 64-bit amounts are left out, as is the side of a leg, which no decision
reads. A request slot is never freed (nothing calls `close_request`), so a nonce is its
request slot. All refusals of one command look alike.

### Ledger and ClaimBook

`ledger` is the `Ledger` struct: accounts with balance, stored totals and the two ends
of their expiry chain, reservation slots with `prev` and `next`, requests with the head of
their committed list, and quotes, each owner pointing back at its claim. The operators
on it are the private methods (`SpliceAfter`, `UnlinkFromChain`, and `InsertAfter`, the walk
from the tail that finds a claim's place), and one action is one public operation: opening
and closing owners, `Reserve`, `Release`, `Commit`, `DischargeCommitted`, `ReleaseExpired` and
`ApplyMirrorUpdate`. A handle is a slot here; stale handles are
`Slab`'s subject. `ClaimBook` is the same interface over a function from owners to
claims, and is the book `Engine` keeps: admission against the claims themselves,
normalisation that drops exactly the dead ones, discharge of exactly one request's.
The contract table of the ledger is in `Engine` and `Resolution`.

### Slab and Registry

`slots` holds for each slot its generation and either a value or the next vacant
handle. Every handle ever issued is offered again to `SlabRemove` and `GetMut`, so a stale
one is an ordinary input. A slot freed at the last generation is retired. `Registry`
says what that machinery is for: a handle is issued once, names its entry until it is
removed, and never names anything again.

### Custody

One action is one transaction. `IncludeNext` takes the oldest submission and either
bounces it off the answer its nonce has, settles it, or reverts it. Legs carry the two
contributions their size and price imply. Every write to the log is part of the action
that makes it, in the order the code makes it.

### Indexer

`ReadNext` is one turn of the loop in `drain`. `ShallowReorg` may discard anything
that is not yet buried under the confirmation depth, measured from the highest head
there has been. That is an assumption about the chain: two shallow reorgs in a row, each
within the depth of the head the last one left, amount to a deep one, and the code says
that those need a recovery which is not built (`log.rs:149-155`).

### Resolution

Reports and payout requests go through the log in order; `Deliver` hands the engine
one entry. `ForgetEverything` is the reader that lost cursor and deduplication set, so
the engine sees old entries again. `payouts` are the intents in the adapter, and
`paid` the outcome an escrow was paid under. Balances are left to `Custody`.

### Settlement and Agreement

Every action is an action of `Engine`, `Custody`, `ChainLog` or `Indexer` with what
`Harness` adds to it. `Apply` is `Harness::apply`: any trading command with any arguments
(`Request` asks for a basket of up to `MaxLegs` legs, `Offer` quotes any leg, `Accept`
expects any price of each), and the bundles of the requests whose `SubmitIntent` it emitted
put in `outbox`. A bundle has one leg per leg of its request (`BundleOf`). `SubmitPending` sends one and
keeps it in `in_flight`; `Resubmit` sends a kept one again, whatever became of the first;
`LoseNextSubmission` drops one. `Pump` is one turn of `pump_indexer`, with the command
the entry stands for. The harness pumps after every operation until nothing is left,
so every operation waits for `Quiet`; a stalled indexer (`StallIndexer`) lifts that,
for at most `MaxIndexerLag`. `Poll` is the direct read of `poll_settlement`, which
reports a status only while it is unresolved.
`Tick` moves both clocks or one, within `MaxSkew` of each other. `WithdrawalDelay` is
the shortest one that `Config::validate` accepts for the other bounds, so the runs sit on
the edge of the inequality.

`Agreement` is the specification of all that for an observer: a wanted trade has a number
of parts and is decided once; all of its parts form at that moment if it was decided
`Settled` and none otherwise; and what the engine comes to believe of it is that
decision. Under the refinement mapping a trade is a request, its parts are the legs of its
basket, and what has formed is the number of escrows, one per leg.

### Venue

`Apply`, `Record`, `Emit`, `NextTurn` and `Halt` are the engine thread between two channel
operations; `KeepEntry` is the logger, `TakeEvent`, `Published` and `PublisherDies` the
publisher and its sink, `Join` the end of a round. A client's `Send` blocks while the
channel is full; a full event channel drops the event and the number stays used; a
full log halts the engine in the middle of the command. What a command does to the
engine is `Engine`'s business: here its state is the list of commands applied, each at
the instant the engine sampled for it, and how many events it emits is left open.
This is the thread of a release build. A debug build checks claim coverage after each
command (`venue.rs:309-319`) and panics the engine thread when it fails; that end of the
thread is left out, and `MCEngineCoverage` (below) reaches a state in which the check does
fail.

### Gateway

A call resolves the requester's or maker's key, then the contracts leg by leg; each new
contract takes the next index, is entered in the store the publisher reads, if the lock is
not poisoned, and is announced by a `RegisterContract` ahead of the command. A call that fails
half-way hands back nothing and keeps the indices it took. A basket with more legs than
`MaxLegs` is refused before any of this. The core is external: the
set of contracts it has been told of.

## What is checked

| Run | Bounds | Shows |
|---|---|---|
| `engine_basket` | one request of up to two legs, one maker besides the requester (who may quote too), three quote arrivals, two prices, two event dates for the one contract (a conflicting registration is refused), time 0..2 | `TypeOK`, `LiveOffersAreBacked`, `SettlingFullyFunded`, `OneStandingQuotePerMaker`, `FeedNeverPessimistic`, `CommittedUntilAnswered`, `NoSilentRelease` |
| `engine_market` | two requests of one leg, two quote slots used again by both, one claim slot fewer than owners, mirror up and down | `ClaimStateCoherence`, `QuotesFollowTheirRequest`, `LegChainsSound`, `AdmissionKeepsCoverage` |
| `ledger` | two accounts, one request, three quotes, four claim slots, amounts and times in {1, 2}, balances in {0, 4} | `ExpiryChainsSound`, `CommittedListsSound`, `ImplementsClaimBook` |
| `slab` | three slots, generations 0..2, two values | `FreeListSound`, `CapacityAccounted`, `ImplementsRegistry` |
| `custody` | two accounts, a bundle with two legs won by one maker and one with one leg, three submissions, deposits and withdrawals of two or three units up to five deposited (so that a maker may cover each of its legs and not both), time 0..1 | `Conservation`, `EscrowsFormedOncePerSettledNonce`, `AvailabilityIsAnnounced`, `AnswersAnnouncedOnceAfterDebits`, `PositionsMoveOnlyByOutcome` |
| `indexer` | depth 2, four blocks, three entries, two reorgs, one restart | `HandedIsLogPrefix`, `ConfirmedIsHanded` |
| `resolution` | two contracts, one escrow, three log entries, one replay, time 0..1 | `PaidAsRuled`, `ContestingBuysNoUnwind`, `DecisionsStand`, `RequestedPayoutIsMade` |
| `settlement_answer` | one basket of one or two legs, one maker who may win both, depth 1, clocks one apart, one loss, one reorg, one restart, a submission sent twice, time 0..1 | `ImplementsAgreement`, `SettlingEnds` |
| `settlement_timelock` | one trade of one leg whose requester and maker may withdraw, an indexer that may lag by one, a settling time of one, the shortest delay the configuration allows, settlements that may be late, time 0..6 | `FundsHeldUnlessOverdue`, `MakersCannotQuoteAndRun`, `PromisesAreHeld`, `MirrorIsExact` |
| `venue` | two clients with two commands each, channels of 2, 1 and 1, one event a command, time 0..1 | `ReplayRebuildsEngine`, `GapsExposeLoss`, `RoundEnds`, `AcceptedIsApplied` |
| `gateway` | three contracts for two indices, two keys for one account, two legs, three calls | `IndexNamesOneContract`, `UnknownOnlyAfterFailure` |

The type invariant of each module is the first conjunct of one of its properties
(`TypeOK` of `Engine` stands alone).

Why the bounds are enough for what they are used for. The engine's hazards need two legs
(all-or-nothing, a maker winning both), two offers by one maker on one leg (replacement),
an offer that dies between quote and accept (two instants) and a request beside another
(shared capital); three arrivals reach all of them. A chain needs a middle: three claims
of one account, and a fourth that finds its place among them. A slab needs a slot that
is reused, one that retires and one that is neither. Custody needs a maker that must
cover a sum, a resubmitted nonce, and a withdrawal requested before a settlement and
executed after it; a maker with two of the three units its two legs take is the smallest that a check
of each leg by itself would let through. The indexer needs an entry one block short of the depth when it is
discarded, and a replay of a transaction with two entries. The timelock run needs time for
a quote to be given, accepted at its last instant and settled after the longest delay, with
a withdrawal asked for while the mirror is behind: six instants with these durations, of which
one is within the settling time and not overdue. A basket needs two legs one maker may
win: `settlement_answer` has them, with the durations at their least, since a basket and a lagging
indexer in one run are beyond a few minutes of TLC; for baskets of any size under any
durations there are the theorems. Its histories include a basket that is settled after its
first submission was lost, one that is settled and submitted again, and one that fails; its two
clocks differ, so that a quote may be live to the engine and expired at custody, and the trade
then fails as agreed. The timelock run has them agree, as its inequality needs. The
venue needs each channel full while the next thread is elsewhere.

Custody, indexer, resolution, slab, venue and gateway stop when their bounds are used up or
when their round is over, so deadlock is not checked there. The engine, the ledger and the
composition can always answer a command, and there it is.

### Where the code and its documents disagree

`engine_refusal` is a run that states what a comment says and ends in a counterexample: a
refused replacement has already released the quote it was to replace
(`engine.rs:509-535` against `engine.rs:208`).

The configurations below are kept beside the runs and end in a counterexample in the same
way. Several of them are limits the documents name elsewhere; the configuration gives
the shortest history that reaches them. For three hazards such a configuration is all that shows
them: dead quotes against the leg limit, the coverage assertion, and a void that waits in the
adapter while the oracle rules otherwise. The properties nearest to them hold, and say so:
`OneStandingQuotePerMaker` counts the quotes of one maker only, `AdmissionKeepsCoverage` clears
admission of the blame, `PaidAsRuled` lets a payout be made under any outcome the contract had.

| Configuration | Property | What happens |
|---|---|---|
| `MCEngineIrrevocable` | `IrrevocableUntilExpiry` (`SPEC.md:616`) | a maker re-quotes at the same price with an earlier expiry |
| `MCEngineLegLimit` | `LegLimitMeansLiveQuotes` (`engine.rs:88`) | dead quotes count against the limit on live quotes |
| `MCEngineFullSlab` | `FullSlabHoldsClaims` (`docs/known-limitations.md:24`) | request slots are never freed, so a full slab does not recover when claims expire |
| `MCEngineCoverage` | `CoveredAfterCommand` (`venue.rs:304-309`) | a mirror update leaves claims above the balance, and the next command by their owner fails the assertion |
| `MCResolutionOutcome` | `OneOutcomePerContract` (`docs/failure-modes.md:41-43`) | the stall exit refunds one escrow, the oracle speaks later, and an identical escrow is paid in full |
| `MCResolutionRuling` | `RulingNeedsAContest` (`docs/known-limitations.md:25`) | the escalation authority may rule where nobody contested |
| `MCGatewayLost` | `KnownToTheCore` (`gateway.rs:141-143`) | a call fails after it has taken an index; the next call takes the contract for a known one |
| `MCVenueUnrecorded` | `RoundReplays` (`venue.rs:266-270`) | the command the log refused has been applied, and replay does not reproduce it |
| `MCVenueSlowSink` | `NeverRefusedWhilePublishing` (`venue.rs:276-279`) | one command emits more events than a slow sink leaves room for |
| `MCSettlementStalled` | `InsufficientFundsUnreachable` (`harness.rs:561-564`, `SPEC.md:926-927`) | nothing enforces `MaxSettlingTime`: a requester withdraws under a settlement that is late |
| `MCSettlementOrphaned` | `UnknownIsADelay` (`SPEC.md:808-810`) | a reorg within the depth discards the only announcement of a settlement, and the request settles for ever |

Two more pass. `MCEngineEvents`: with more makers on a leg than the event buffer
holds notices, the room each command verifies beforehand covers what it pushes (`EventsFit`).
`MCSettlementBasket`: a basket of up to two legs, one maker with money for one or for both, and
withdrawals asked for meanwhile (`FundsHeldUnlessOverdue`, which `settlement_timelock` checks
for one leg, and `ImplementsAgreement`).

### Fairness

Safety needs none.

* `Indexer` assumes that the chain keeps mining and that the reader is run when there is
  something to read: the harness pumps it after each block and each operation
  (`harness.rs:510-542`). `Resolution` assumes for the same reason that log entries are
  delivered and intents applied (`pump_indexer`, `apply_payouts`).
* `FairSpec` of `Settlement` adds the adapter's own duties: what is pending is sent, a
  bundle of unknown status is sent again, custody includes what is queued, a
  stalled indexer is resumed. Losses stop only at their bound, as the documents' "eventually
  included" has it. Nothing makes a participant ask, offer, accept or withdraw.
  `SettlingEnds` makes one exception, the answer a reorg discarded, which is the
  disagreement above.
* `Venue` assumes that each thread runs when it can, since the engine thread spins and the
  workers block on their channels, and that a sink returns from each call. `RoundEnds` and
  `AcceptedIsApplied` assume nothing of clients and hold even if the publisher dies.

No fairness is assumed of participants, of the oracle or of time.

## What is proved

Each theorem holds for every value of the constants that satisfies the assumptions named
in the modules: `EngineConstants` and `VacantIsNoValue`; `LedgerConstants`; `SlabConstants`; `CustodyConstants`;
`IndexerConstants`; `ResolutionConstants` and `NoneIsNoOutcome`; `VenueConstants`;
`GatewayConstants`; and for the composition `SettlementConstants`, `VacantIsNoValue` and
`SomeDelayIsValid`. They say that sets are finite and limits are numbers, that the values
standing for "nothing" are no values, and, the last, that some withdrawal delay passes
`Config::validate`: a deployment for which none does cannot be started. The bounds the
modules name (`MaxTime`, `MaxReorgs`, ...) are constants like any other, so the theorems
hold whatever they are.

Some theorems have hypotheses of their own. `EscrowsAreSettledLegs` assumes
`NonceNamesOneBundle`: two bundles that may be submitted do not share a nonce, which is what
the engine sees to by taking a nonce once. Two different baskets under one nonce would still
settle at most once, but the nonce alone would not say which of them did.

The theorems of `TimelockProofs` assume three things of the environment. The clocks agree
(`MaxSkew = 0`): the inequality has no term for a drift between them.
No reorg has discarded anything yet: one that does may cut an announcement off the log and with it
the mirror's only way to learn of a withdrawal. And `PromptSpec` is `Spec` with `PromptStep` at
each step: the clock does not move, and the indexer does not stall, while entries wait to be read, unless
it is stalled already. The lag of a stalled indexer is part of the inequality and unrestricted
up to `MaxIndexerLag`. What `PromptStep` leaves out is the time blocks take to be mined, for which
the inequality has `BlockTime * Confirmations` and the module no bound, since it ties no block to
the clock. Where no confirmations are waited for, as in the run, the harness drains all there
is after each operation, `PromptStep` holds of every step and no reorg is shallow enough to happen:
`TimelockIsLongEnough` needs neither hypothesis.

| Module | Theorem | Statement |
|---|---|---|
| `EngineProofs` | `TypeCorrect` | `Spec => []TypeOK` |
| | `ClaimsCoherent` | `Spec => []ClaimStateCoherence` |
| | `NoStrandedQuote` | `Spec => []QuotesFollowTheirRequest` |
| | `ChainsSound` | `Spec => []LegChainsSound` |
| | `OffersBacked` | `Spec => []LiveOffersAreBacked` |
| | `CommittedHeld` | `Spec => CommittedUntilAnswered` |
| | `OneQuotePerMaker` | `Spec => []OneStandingQuotePerMaker` |
| | `FeedSound` | `Spec => []FeedNeverPessimistic` |
| | `EveryLossIsTold` | `Spec => NoSilentRelease` |
| | `AdmissionIsCovered` | `Spec => AdmissionKeepsCoverage` |
| | `BasketFunded` | `Spec => []SettlingFullyFunded` |
| `LedgerProofs` | `ExpiryChainsStaySound` | `LedgerSpec => []ExpiryChainsSound` |
| | `CommittedListsStaySound` | `LedgerSpec => []CommittedListsSound` |
| | `LedgerImplementsClaimBook` | `LedgerSpec => ImplementsClaimBook` |
| `CoreProofs` | `SlabTypeCorrect` | `SlabSpec => []SlabTypeOK` |
| | `CapacityIsAccounted` | `SlabSpec => []CapacityAccounted` |
| | `FreeListIsSound` | `SlabSpec => []FreeListSound` |
| | `SlabImplementsRegistry` | `SlabSpec => ImplementsRegistry` |
| `ChainProofs` | `MoneyIsConserved` | `Spec => []Conservation` |
| | `OnlyOutcomesMoveMoney` | `Spec => PositionsMoveOnlyByOutcome` |
| | `LogSaysWhatIsAvailable` | `Spec => []AvailabilityIsAnnounced` |
| | `AnswersFollowTheirDebits` | `Spec => []AnswersAnnouncedOnceAfterDebits` |
| | `EscrowsAreSettledLegs` | `NonceNamesOneBundle` gives `Spec => []EscrowsFormedOncePerSettledNonce` |
| | `EngineReadsTheLog` | `IndexerSpec => []HandedIsLogPrefix` |
| | `PayoutsFollowTheRuling` | `Spec => []PaidAsRuled` |
| | `DecidedForGood` | `Spec => DecisionsStand` |
| | `NoUnwindWhileWorking` | `Spec => ContestingBuysNoUnwind` |
| `RuntimeProofs` | `LogReplays` | `VenueSpec => []ReplayRebuildsEngine` |
| | `LossesShow` | `VenueSpec => []GapsExposeLoss` |
| | `IndicesAreNotShared` | `GatewaySpec => []IndexNamesOneContract` |
| | `AnnouncedBeforeNamed` | `GatewaySpec => []UnknownOnlyAfterFailure` |
| `SettlementProofs` | `MirrorFollowsCustody` | `Spec => [](reorgs = 0 => MirrorIsExact)` |
| | `SettlementAgrees` | `Spec => ImplementsAgreement` |
| `TimelockProofs` | `SettlementFindsTheMoney` | `MaxSkew = 0` gives `PromptSpec => [](reorgs = 0 => FundsHeldUnlessOverdue)` |
| | `PromisesStandCovered` | `MaxSkew = 0` gives `PromptSpec => [](reorgs = 0 => PromisesAreHeld)` |
| | `QuotesCannotBeRunFrom` | `MaxSkew = 0` gives `PromptSpec => [](reorgs = 0 => MakersCannotQuoteAndRun)` |
| | `TimelockIsLongEnough` | `MaxSkew = 0` and `Confirmations = 0` give `Spec => []` of all three |

**Claims and offers.** The argument is one inductive invariant, `IInv`. None of the
properties is inductive alone. That a live quote is backed survives an accept only because
losers are released together with their claims, which needs the legs to link every quote
of the request (`LegChainsSound`); that, in turn, needs the legs of an unused request slot
to be empty (`VacantLegsEmpty`) and every quote to sit on a leg its request has
(`QuotesPlaced`). What must hold of the claims is stated for an arbitrary claim book
(`BookInv`), because a command decides on the normalised book: `NormalisedBook` shows once
that normalisation keeps it, since a live offer's claim expires exactly when the offer
does. Then there is one lemma per command; `ExchangeStep` serves replacement and
`DischargeStep` both terminal answers. `CommittedHeld` goes through the same commands once
more (`HeldStep`), from the fact that a claim on a committed list belongs to a settling
request or to a quote that request consumed (`HeldOwner`).

**Prices, quotes and notices.** Only an admitted quote adds to a leg; every other command
lets a leg fade or leaves it (`StepKinds`). Best prices can therefore only rise between two
publications, which keeps the feed below them (`FeedBelowOffers`), and a second standing
quote could only come from the command that replaces the first. The invariant grows
by `PricesWithinUnit` and `ConsumedHold`: a consumed quote is one of its request's held
claims, so a failed settlement finds, and tells, everyone it owes a notice.

**Ledger.** What makes a doubly linked chain sound is the sequence it spells, so the
invariant exhibits it: `LinksIn` says that for each account there is a path without
repetitions through exactly its reserved claims, in order of expiry, which the links and the two
ends thread (`Threads`), and for each open request such a path through its committed claims. `Booked`
adds that owners and claims name each other and that the stored totals are the sums over those
sets; `Sound` is both. A splice inserts an element into one path (`InsertedThreads`) and an
unlink takes one out (`RemovedThreads`), while every other path stays (`ChainFrame`,
`ListFrame`). Three walks need an induction each. The walk from the tail stops at the last claim
that does not expire after the new one (`WalkFinds`), so the order is kept. A discharge has, after
`m` steps, dropped the first `m` claims of the list (`DischargedClears`). Reclaiming looks
only at the head, which expires first (`HeadFirst`): each pass frees a slot, so after as many passes as
there are slots no dead claim is left (`NormalisedDrops`). For the refinement
an owner's booking is the claim it points at. The stored totals are the sums of the bookings
(`BookedTotal`), so both books admit the same claims, and each operation maps to the operation of
`ClaimBook` of the same name (`LedgerStep`).

**Induction and sums.** `Induction` reaches by hand what the library's induction theorems, which
take an operator as a parameter, cannot give here: it takes the least number, or a
minimal subset of a finite set, outside a given set. From that follow the value of a function
defined by recursion, that folding over a sequence is iterating along it (`FoldIterates`), and
what the arguments need of `SumFunction`: a sum over a disjoint union, a change at one
point, an exchange of one element, sums and differences of functions.

**Sums of money.** Admission is covered because a
command either shrinks the claims of an account or adds one claim that the check it passed
leaves room for. A basket is funded because an accept puts on the list the request's
claim and one winner per leg whose amounts add up to the notional, and because the list then
stands until the answer (`RequesterHolds`). In custody (`MInv`) the same lemmas show
that what a settlement debits is what its escrows lock, leg by leg and account by account
(`DebitsTotal`, `BundleEscrows`), and that a payout credits one escrow's notional in two
shares (`CreditShares`).

**The log.** `AnnouncedInv` relates the log to the state it speaks of: the entry with the greatest
index about an account says what the account may lend, and a nonce has one answer,
after entries for each account its settlement debited. Every operation appends
one block of payloads, so it is enough to know which of the new ones speaks last of an
account (`LastIndex`) and that the announced accounts are all that a bundle names
(`PartiesAreAll`, by `FoldIterates`). `BooksInv` counts the escrows of each form beside the legs
of that form in settled bundles; a settlement adds the same to both (`BundleFormed`).

**Indexer.** `ReaderInv` says that blocks only grow along the log, that what was handed over is its
beginning, and that this beginning is at least the depth below the highest head.
What a reorg retains of a log with growing blocks is a prefix (`RetainedIsPrefix`; the
filter is a fold), and a shallow reorg's prefix is longer than what was handed over. After a
restart the cursor is behind what was handed over, and the keys of those entries, which are
distinct, are all in the deduplication set.

**Slab.** `SlabInv` says that the handles on the free list are unissued (`LinksFresh`), no two
links point at one slot (`LinksNeverMeet`), a slot's handles are issued in order of their
generation, and the count is that of the occupied slots. An insertion therefore issues a
handle nobody holds, and every step maps to a step of `Registry`. That the list loses no slot
is shown with the path itself as a witness (`FreeListIsPath`): a sequence without
repetitions through the fresh slots, which an insertion shortens at the front and a removal
extends there, and along which `FreeWalk` walks.

**Resolution.** `RInv` follows a ruling along its way: what the log reports, what the engine
believes, what an intent names and what an escrow was paid under each were ruled by the
oracle, or are the void of the stall exit. An intent to void is made by one operation only,
which an engine that knows of a ruling in progress refuses (`UnwindStep`).

**Venue.** `VInv` holds the log and the entries on their way to it against the engine's list of
applied commands; `GInv` counts the event numbers the sink has not seen.

**Gateway.** A call is a fold over its legs, and the invariant is one of the call on its way
(`GoodCalls`, kept by one leg in `ResolveKeeps` and by all of them in `LegsKeep`): indices
are dense, the store holds a prefix of them, and an index the call took is announced
by a command ahead of it. `Told` then follows each index through the outbox: the core has heard
of it, will hear of it before any command that names it, or was denied it by a call
that failed.

**The composition.** `SettlementProofs` instantiates `EngineProofs` and `ChainProofs` with the
variables of the harness. Every step is one of the engine's or leaves the engine alone
(`NextMovesEngine`), and likewise of custody (`NextMovesCustody`) and of the reader
(`ReaderFollows`), so their invariants hold of the composition without being proved again.
`IInv` adds what only the whole has: every bundle on its way belongs to an accepted
request (`AdapterInv`), an answer in the log is one custody stands by (`LogTrue`), it decides only
accepted trades (`DecidedWanted`), and a request the engine holds for settled or failed is one
custody settled or reverted (`BeliefsTrue`). What the engine is told is
handed over from the log, the log is true, and custody's answers are final: so the
engine's belief is the decision, and each step maps to a step of `Agreement`. That a
settlement forms as many escrows as the trade has parts needs more than the nonce: a bundle on
its way is well formed and has exactly as many legs as its request (`Sent`, `BundlesReady`),
and a request keeps its legs (`EventKeepsSent`). Nothing of this depends on how many legs
there are. For the
mirror, what is handed over says last of an account what the engine holds, and the
log says last what custody has. With everything read the two are one. A
reorg can discard an announcement whose effect at custody stays, in these modules as in the
code, where nothing reverts custody when the log is cut; hence `reorgs = 0`, which is how the
run checks it too. `IInv` was first checked as an invariant on the instances of both
settlement runs.

**The timelock.** `TimelockInv` relates, for one account, four amounts: what custody holds, what of it
custody would let go (`Free`), what the mirror says, and what the account may still be called upon
for (`Out`: claims not expired whose request custody has not answered). `Covers` bounds the mirror:
it is at most the balance plus what settlements the engine has not heard of took
(`Due`, which is still claimed), and at most `Free` plus that once the last request for a withdrawal is
older than the indexer may lag. `Low` says so of what the engine holds and of every later
entry in the log at once, so reading an entry keeps it (`LowPump`). `Holds` bounds
`Out` by the balance, or else every claim in it ends more than an inclusion's time before the present (`Within`); and, once the request
must have been read, by `Free`, or else every claim in it ends within a claim window of the last moment the
mirror did not show the withdrawal. A command leaves no more in `Out` than there was, or it passed the
check against the mirror, which is low (`EngineEases`, `LowPays`). A settlement takes
as much off the balance as off `Out` (`HoldsAnswered`), because a bundle on its way takes what the engine
holds for it, leg by leg by an offer good until the leg's quote expires (`BackedInv`, from `AcceptPledges`
in `EngineProofs`). What that comes to for one account is the sum over the legs it makes and, if it
asked, over all of them: the very debit custody sums (`PledgeShare`, `SameDebit`). When a withdrawal matures, the whole delay has passed since it was asked for,
longer than lag, window and inclusion together: what is not covered by `Free` is over, and what is
over and unanswered is a settlement that is overdue (`LateMeansOverdue`). The invariant needs the
terms of offers (`TermsInv`: no deadline or expiry lies further ahead than the configuration allows) and
was first checked on the instance of `settlement_timelock`.

Only model-checked is liveness: `ConfirmedIsHanded`, `RequestedPayoutIsMade`, `RoundEnds`,
`AcceptedIsApplied`, `SettlingEnds`.

## Not modelled

* The scenarios crate, the demo, the benchmarks and the build script drive the system or
  measure it and keep no state of their own.
* `Config::validate` compares storage bounds with one another and refuses sums that overflow:
  relations between constants, in which nothing moves.
* 64-bit overflow is refused by checked arithmetic wherever amounts are computed; the
  modules compute exactly and have no such refusal.
* Custody's pre-check only reads. The hook that lets a test act before a settlement is any
  other transaction, which may precede one in the model anyway.
* The two wires of the harness are composed with the engine and custody separately: trades in
  `Settlement`, outcomes and payouts in `Resolution`. A payout moves money custody already
  holds apart (`Conservation`), and raises a balance, which no promise of the engine is hurt by.
* The harness's own assertions are properties of `Settlement` (`PromisesAreHeld`,
  `MirrorIsExact`, `InsufficientFundsUnreachable`), not actions.
* Wording, identity bytes of contracts, logging and metrics.

* `Venue` and `Settlement` are not composed. `GapsExposeLoss` says that a lost event shows in the
  numbers; that a lost `SubmitIntent` would leave its request settling for ever is not a
  property here.

What could be added: a bound on the time between blocks, with which `PromptStep` could be weakened to
what `BlockTime * Confirmations` allows for; payouts in `Settlement`; more than one trade in
`settlement_timelock`, whose state space is the largest here.
