------------------------------ MODULE Custody -------------------------------
(***************************************************************************)
(* The escrow contract of crates/chain: balances and timelocked            *)
(* withdrawals, the queue of submitted bundles, the settlement transaction *)
(* and the fate of each nonce, escrows and their payout, and the entry     *)
(* each of them leaves in the chain log.  One action is one transaction.   *)
(*                                                                         *)
(* A leg carries the two contributions its size and fill price imply.      *)
(* Escrow ids are positions in `escrows`.  `now` is custody's clock, not   *)
(* the engine's.                                                           *)
(***************************************************************************)
EXTENDS ChainLog, FiniteSets, FiniteSetsExt

CONSTANTS
  Accounts, Nonces, Contracts,
  Bundles,           \* what may be submitted: bundles over the sets above
  MaxLegs, MaxEscrows, WithdrawalDelay,
  Amounts,           \* what a deposit or a withdrawal may ask for
  MaxTime,           \* bound: the last instant explored
  MaxDeposited,      \* bound: what enters custody
  MaxQueue,          \* bound: submissions waiting at a time
  MaxSubmissions     \* bound: submissions sent

VARIABLES
  now,         \* custody's clock
  balance,     \* what custody holds for each account
  pending,     \* requested and not yet executed withdrawals
  matures_at,  \* when each becomes executable
  escrows,     \* every escrow ever formed
  resolved,    \* the terminal answer of each nonce that has one
  queue,       \* bundles submitted and not included
  submitted,   \* how many were submitted
  deposited, withdrawn

ledgerVars == <<balance, pending, matures_at, escrows, resolved, deposited, withdrawn>>
custodyVars == <<now, ledgerVars, queue, submitted, logVars>>

Side == {"Yes", "No"}
Outcome == {"Yes", "No", "Void"}
Leg == [contract : Contracts, side : Side, maker : Accounts, maker_contribution : Nat,
        requester_contribution : Nat, quote_expiry : Nat]
Bundle == [nonce : Nonces, requester : Accounts, legs : Seq(Leg)]
Escrow == [contract : Contracts, side : Side, requester : Accounts, maker : Accounts,
           requester_contribution : Nat, maker_contribution : Nat,
           state : {"Locked", "Settled"}]

ASSUME CustodyConstants ==
  /\ \A b \in Bundles : b \in Bundle
  /\ IsFiniteSet(Accounts)
  /\ MaxLegs \in Nat /\ MaxEscrows \in Nat /\ WithdrawalDelay \in Nat
  /\ Amounts \subseteq Nat

-----------------------------------------------------------------------------
\* balance - pending, the number admission lends against.  A settlement may have
\* taken the balance below a withdrawal already requested.
Available(bal, pend, a) == IF bal[a] >= pend[a] THEN bal[a] - pend[a] ELSE 0

\* Faulty variant: the log carries the balance.
AnnounceBalance(accounts, bal, pend) ==
  [i \in DOMAIN accounts |-> BalanceChanged(accounts[i], bal[accounts[i]])]

\* What the log says of the accounts, in their order of appearance.
Announce(accounts, bal, pend) ==
  [i \in DOMAIN accounts |-> BalanceChanged(accounts[i], Available(bal, pend, accounts[i]))]

\* The fate of a nonce: a terminal answer wins over anything in the queue.
Status(n) ==
  IF n \in DOMAIN resolved THEN resolved[n]
  ELSE IF \E i \in DOMAIN queue : queue[i].nonce = n THEN "Pending" ELSE "Unknown"

Notional(e) == e.requester_contribution + e.maker_contribution

CustodyInit ==
  /\ LogInit
  /\ now = 0
  /\ balance = [a \in Accounts |-> 0]
  /\ pending = [a \in Accounts |-> 0]
  /\ matures_at = [a \in Accounts |-> 0]
  /\ escrows = <<>>
  /\ resolved = << >>
  /\ queue = <<>>
  /\ submitted = 0
  /\ deposited = 0
  /\ withdrawn = 0

Tick ==
  /\ now < MaxTime
  /\ now' = now + 1
  /\ UNCHANGED <<ledgerVars, queue, submitted, logVars>>

Deposit(a, amount) ==
  /\ deposited + amount <= MaxDeposited
  /\ deposited' = deposited + amount
  /\ balance' = [balance EXCEPT ![a] = @ + amount]
  /\ Append1(Announce(<<a>>, balance', pending))
  /\ UNCHANGED <<now, pending, matures_at, escrows, resolved, withdrawn, queue, submitted>>

\* Availability drops at once; the balance does not.
RequestWithdrawal(a, amount) ==
  /\ pending[a] = 0
  /\ amount <= Available(balance, pending, a)
  /\ pending' = [pending EXCEPT ![a] = amount]
  /\ matures_at' = [matures_at EXCEPT ![a] = now + WithdrawalDelay]
  /\ Append1(Announce(<<a>>, balance, pending'))
  /\ UNCHANGED <<now, balance, escrows, resolved, deposited, withdrawn, queue, submitted>>

\* Paid out of what is actually there: a settlement may have debited the account.
PaidOut(a) == Min({pending[a], balance[a]})

ExecuteWithdrawal(a) ==
  /\ pending[a] # 0
  /\ now >= matures_at[a]
  /\ balance' = [balance EXCEPT ![a] = @ - PaidOut(a)]
  /\ pending' = [pending EXCEPT ![a] = 0]
  /\ withdrawn' = withdrawn + PaidOut(a)
  /\ Append1(Announce(<<a>>, balance', pending'))
  /\ UNCHANGED <<now, matures_at, escrows, resolved, deposited, queue, submitted>>

-----------------------------------------------------------------------------
(* Settlement *)

\* What a bundle debits an account: its legs as maker and as requester, summed.
Debit(b, a) ==
  SumFunction([i \in DOMAIN b.legs |->
                 (IF b.legs[i].maker = a THEN b.legs[i].maker_contribution ELSE 0)
                 + (IF b.requester = a THEN b.legs[i].requester_contribution ELSE 0)])

\* The accounts of a bundle in the order the debit table meets them.
Parties(b) ==
  FoldLeft(LAMBDA known, leg :
             LET makers == IF Contains(known, leg.maker) THEN known
                           ELSE Append(known, leg.maker)
             IN  IF Contains(makers, b.requester) THEN makers
                 ELSE Append(makers, b.requester),
           <<>>, b.legs)

\* Faulty variant: each leg is checked on its own, and the debits are not summed.
CoveredLegByLeg(b) ==
  \A i \in DOMAIN b.legs :
    /\ b.legs[i].maker_contribution <= balance[b.legs[i].maker]
    /\ b.legs[i].requester_contribution <= balance[b.requester]

\* Balance, not availability: a pending withdrawal does not kill a basket in flight.
Covered(b) ==
  \A i \in DOMAIN b.legs : \A a \in {b.legs[i].maker, b.requester} : Debit(b, a) <= balance[a]

Valid(b) ==
  /\ Len(b.legs) \in 1..MaxLegs
  /\ b.nonce \in DOMAIN resolved => resolved[b.nonce] # "Settled"
  /\ \A i \in DOMAIN b.legs : now < b.legs[i].quote_expiry
  /\ Covered(b)
  /\ Len(escrows) + Len(b.legs) <= MaxEscrows

\* Faulty variant: escrows are kept by what they say, so equal legs share one.
EscrowsShared(b) ==
  SetToSeq({[contract |-> b.legs[i].contract, side |-> b.legs[i].side,
             requester |-> b.requester, maker |-> b.legs[i].maker,
             requester_contribution |-> b.legs[i].requester_contribution,
             maker_contribution |-> b.legs[i].maker_contribution, state |-> "Locked"]
               : i \in DOMAIN b.legs})

EscrowsOf(b) ==
  [i \in DOMAIN b.legs |->
     [contract |-> b.legs[i].contract, side |-> b.legs[i].side,
      requester |-> b.requester, maker |-> b.legs[i].maker,
      requester_contribution |-> b.legs[i].requester_contribution,
      maker_contribution |-> b.legs[i].maker_contribution, state |-> "Locked"]]

Submit(b) ==
  /\ Len(queue) < MaxQueue
  /\ submitted < MaxSubmissions
  /\ submitted' = submitted + 1
  /\ queue' = Append(queue, b)
  /\ UNCHANGED <<now, ledgerVars, logVars>>

\* The submission is lost: nobody is told.
DropNextSubmission ==
  /\ queue # <<>>
  /\ queue' = Tail(queue)
  /\ UNCHANGED <<now, ledgerVars, submitted, logVars>>

Resolve(n, status) == resolved' = [m \in DOMAIN resolved \cup {n} |->
                                     IF m = n THEN status ELSE resolved[m]]

\* Faulty variant: the answer is logged ahead of the balances it moved.
SettleAnsweredFirst(b) ==
  /\ balance' = [a \in Accounts |-> balance[a] - Debit(b, a)]
  /\ escrows' = escrows \o EscrowsOf(b)
  /\ Resolve(b.nonce, "Settled")
  /\ Append1(<<SettlementResolved(b.nonce, "Settled")>> \o
             Announce(Parties(b), balance', pending))

\* settle: debit every party and form every escrow, in one transaction.
SettleAll(b) ==
  /\ balance' = [a \in Accounts |-> balance[a] - Debit(b, a)]
  /\ escrows' = escrows \o EscrowsOf(b)
  /\ Resolve(b.nonce, "Settled")
  /\ Append1(Announce(Parties(b), balance', pending) \o
             <<SettlementResolved(b.nonce, "Settled")>>)

RevertAll(b) ==
  /\ Resolve(b.nonce, "Reverted")
  /\ Append1(<<SettlementResolved(b.nonce, "Reverted")>>)
  /\ UNCHANGED <<balance, escrows>>

\* Faulty variant: a retry is tried again, whatever the nonce was told.
NeverAnswered(n) == FALSE

Answered(n) == n \in DOMAIN resolved

\* include_next: the oldest submission settles, reverts, or bounces off the answer
\* its nonce already has.
IncludeNext ==
  /\ queue # <<>>
  /\ queue' = Tail(queue)
  /\ LET b == Head(queue)
     IN  \/ /\ Answered(b.nonce)
            /\ UNCHANGED <<balance, escrows, resolved, logVars>>
         \/ /\ ~Answered(b.nonce)
            /\ Valid(b)
            /\ SettleAll(b)
         \/ /\ ~Answered(b.nonce)
            /\ ~Valid(b)
            /\ RevertAll(b)
  /\ UNCHANGED <<now, pending, matures_at, deposited, withdrawn, submitted>>

-----------------------------------------------------------------------------
(* Payout *)

\* Faulty variant: the notional is split when the outcome is void.
CreditEvenly(e, outcome, a) ==
  IF outcome = "Void"
  THEN (IF a \in {e.requester, e.maker} THEN Notional(e) \div 2 ELSE 0)
  ELSE IF a = (IF outcome = e.side THEN e.requester ELSE e.maker) THEN Notional(e) ELSE 0

\* What an account is paid: the winner takes the notional, a void escrow gives each
\* side its own contribution back.
Credit(e, outcome, a) ==
  IF outcome = "Void"
  THEN (IF a = e.requester THEN e.requester_contribution ELSE 0)
       + (IF a = e.maker THEN e.maker_contribution ELSE 0)
  ELSE IF a = (IF outcome = e.side THEN e.requester ELSE e.maker) THEN Notional(e) ELSE 0

\* The two accounts in the order settle_escrow credits and announces them.
PayoutOrder(e, outcome) ==
  IF outcome \in {"Void", e.side} THEN <<e.requester, e.maker>> ELSE <<e.maker, e.requester>>

\* Faulty variant: an escrow is paid whatever its state.
AlwaysPayable(id, contract) == escrows[id].contract = contract

\* The intent names the escrow and its contract, and a settled escrow pays nothing.
Payable(id, contract) ==
  escrows[id].contract = contract /\ escrows[id].state = "Locked"

SettleEscrow(id, contract, outcome) ==
  /\ Payable(id, contract)
  /\ balance' = [a \in Accounts |-> balance[a] + Credit(escrows[id], outcome, a)]
  /\ escrows' = [escrows EXCEPT ![id].state = "Settled"]
  /\ Append1(Announce(PayoutOrder(escrows[id], outcome), balance', pending))
  /\ UNCHANGED <<now, pending, matures_at, resolved, deposited, withdrawn, queue, submitted>>

-----------------------------------------------------------------------------
CustodyNext ==
  \/ Tick
  \/ \E a \in Accounts, amount \in Amounts : Deposit(a, amount)
  \/ \E a \in Accounts, amount \in Amounts : RequestWithdrawal(a, amount)
  \/ \E a \in Accounts : ExecuteWithdrawal(a)
  \/ \E b \in Bundles : Submit(b)
  \/ DropNextSubmission
  \/ IncludeNext
  \/ \E id \in DOMAIN escrows, contract \in Contracts, outcome \in Outcome :
       SettleEscrow(id, contract, outcome)

Spec == CustodyInit /\ [][CustodyNext]_custodyVars

-----------------------------------------------------------------------------
(* Correctness *)

TypeOK ==
  /\ now \in Nat
  /\ balance \in [Accounts -> Nat]
  /\ pending \in [Accounts -> Nat]
  /\ matures_at \in [Accounts -> Nat]
  /\ escrows \in Seq(Escrow)
  /\ DOMAIN resolved \subseteq Nonces
  /\ \A n \in DOMAIN resolved : resolved[n] \in {"Settled", "Reverted"}
  /\ queue \in Seq(Bundle)
  /\ deposited \in Nat /\ withdrawn \in Nat
  /\ head \in Nat

LockedEscrows == {id \in DOMAIN escrows : escrows[id].state = "Locked"}

\* SPEC 15.5: every unit deposited and not withdrawn is in a balance or in an escrow
\* that is still locked, and no balance is overdrawn to make it so (TypeOK).
Conservation ==
  /\ TypeOK
  /\ SumFunction(balance) + SumFunction([id \in LockedEscrows |-> Notional(escrows[id])])
     = deposited - withdrawn

\* A trade happens once or not at all: whatever is resubmitted, dropped or reverted,
\* the escrows on the books are the legs of the settled bundles, each formed once.
EscrowsFormedOncePerSettledNonce ==
  LET settled == {b \in Bundles : b.nonce \in DOMAIN resolved /\ resolved[b.nonce] = "Settled"}
      Legs(e) == SumFunction([b \in settled |->
                                Cardinality({i \in DOMAIN b.legs :
                                  EscrowsOf(b)[i] = [e EXCEPT !.state = "Locked"]})])
      Formed(e) == Cardinality({id \in DOMAIN escrows :
                     [escrows[id] EXCEPT !.state = "Locked"] = [e EXCEPT !.state = "Locked"]})
  IN  /\ Len(escrows) = SumFunction([b \in settled |-> Len(b.legs)])
      /\ \A id \in DOMAIN escrows : Formed(escrows[id]) = Legs(escrows[id])

\* What the log last said of an account is what admission may lend against now: no
\* operation moves availability without announcing it, in a transaction of its own.
AvailabilityIsAnnounced ==
  /\ next_tx = Len(entries)
  /\ \A a \in Accounts :
       LET said == {i \in DOMAIN entries : /\ entries[i].payload.kind = "BalanceChanged"
                                           /\ entries[i].payload.account = a}
       IN  Available(balance, pending, a) =
             IF said = {} THEN 0 ELSE entries[Max(said)].payload.available

\* Every terminal answer is announced, once, and after the balances it moved: an
\* engine that reads the log in order never frees a claim on money already in escrow.
AnswersAnnouncedOnceAfterDebits ==
  \A n \in Nonces :
    LET told == {i \in DOMAIN entries : /\ entries[i].payload.kind = "SettlementResolved"
                                        /\ entries[i].payload.nonce = n}
    IN  IF n \notin DOMAIN resolved THEN told = {}
        ELSE /\ Cardinality(told) = 1
             /\ \A i \in told :
                  /\ entries[i].payload.status = resolved[n]
                  /\ resolved[n] = "Settled" =>
                       \E b \in Bundles : b.nonce = n /\
                         \A a \in ToSet(Parties(b)) :
                           \E j \in 1..(i - 1) :
                             /\ i - j <= Len(Parties(b))
                             /\ entries[j].payload.kind = "BalanceChanged"
                             /\ entries[j].payload.account = a

\* What an account has put into an escrow, and what it has in its balance and in
\* locked escrows together.
Stake(e, a) ==
  (IF e.requester = a THEN e.requester_contribution ELSE 0)
  + (IF e.maker = a THEN e.maker_contribution ELSE 0)

Position(a) == balance[a] + SumFunction([id \in LockedEscrows |-> Stake(escrows[id], a)])

\* Money changes hands only by a decided outcome, and then one side takes exactly what
\* the other put in; forming an escrow and voiding it leave every position alone.
PositionsMoveOnlyByOutcome ==
  [][deposited' = deposited /\ withdrawn' = withdrawn =>
       \/ \A a \in Accounts : Position(a)' = Position(a)
       \/ \E id \in DOMAIN escrows :
            LET e == escrows[id]
            IN  /\ e.state = "Locked" /\ escrows'[id].state = "Settled"
                /\ \E x \in {e.maker_contribution, -e.requester_contribution} :
                     \A a \in Accounts :
                       Position(a)' - Position(a) =
                         (IF a = e.requester THEN x ELSE 0) - (IF a = e.maker THEN x ELSE 0)
     ]_custodyVars
=============================================================================
