---------------------------- MODULE Resolution ------------------------------
(***************************************************************************)
(* From an event's outcome to the payout of its escrows: the optimistic    *)
(* oracle (crates/chain oracle.rs), the contract state of the engine       *)
(* (contract.rs, engine.rs section 10), the intents it emits, and the      *)
(* escrows custody pays.  Oracle reports and payout requests reach the     *)
(* engine through the log, in order; a reader that lost everything starts  *)
(* over from the first entry.                                              *)
(*                                                                         *)
(* The oracle and the engine each have their own clock.  Balances are left *)
(* to Custody: what matters here is the outcome an escrow is paid under.   *)
(***************************************************************************)
EXTENDS ChainLog, FiniteSets

CONSTANTS
  Contracts, Escrows,
  ContractOf,       \* the contract each escrow is formed on
  EventDate,        \* of each contract
  StallGrace, ChallengeWindow,
  Accounts, Authority,     \* who may try to rule, and who may
  None,
  Rulings,          \* the outcomes proposed or ruled
  MaxTime,          \* bound: the last instant explored, on either clock
  MaxEntries,       \* bound: entries written to the log
  MaxForgets        \* bound: times the reader starts over

Outcome == {"Yes", "No", "Void"}
Final(o) == [phase |-> "Final", outcome |-> o]
Silent == [phase |-> "Silent"]
InProgress == [phase |-> "InProgress"]
OracleStatus == {Silent, InProgress} \cup {Final(o) : o \in Outcome}
Proposal == {Silent, [phase |-> "Contested"]} \cup {Final(o) : o \in Outcome}
            \cup [phase : {"Proposed"}, outcome : Outcome, window_closes : Nat]

ASSUME ResolutionConstants ==
  /\ ContractOf \in [Escrows -> Contracts]
  /\ EventDate \in [Contracts -> Nat]
  /\ StallGrace \in Nat /\ ChallengeWindow \in Nat
  /\ Authority \in Accounts /\ Rulings \subseteq Outcome
  /\ MaxTime \in Nat /\ MaxEntries \in Nat /\ MaxForgets \in Nat

ASSUME NoneIsNoOutcome == None \notin Outcome

VARIABLES
  now,          \* the engine's clock
  oracle_now,   \* the oracle's clock
  proposals,    \* what the oracle knows of each contract
  cursor,       \* log entries delivered to the engine
  forgets,
  status,       \* what the engine was last told of each contract
  payouts,      \* settlement intents emitted and not yet applied
  paid          \* the outcome each escrow was paid under, None while locked

oracleVars == <<oracle_now, proposals>>
engineVars == <<status, payouts>>
vars == <<now, oracleVars, cursor, forgets, engineVars, paid, logVars>>

Init ==
  /\ LogInit
  /\ now = 0
  /\ oracle_now = 0
  /\ proposals = [c \in Contracts |-> Silent]
  /\ cursor = 0
  /\ forgets = 0
  /\ status = [c \in Contracts |-> Silent]
  /\ payouts = <<>>
  /\ paid = [x \in Escrows |-> None]

Tick ==
  \/ /\ now < MaxTime
     /\ now' = now + 1
     /\ UNCHANGED <<oracleVars, cursor, forgets, engineVars, paid, logVars>>
  \/ /\ oracle_now < MaxTime
     /\ oracle_now' = oracle_now + 1
     /\ UNCHANGED <<now, proposals, cursor, forgets, engineVars, paid, logVars>>

-----------------------------------------------------------------------------
(* The oracle *)

Ruling(c, p) ==
  /\ proposals' = [proposals EXCEPT ![c] = p]
  /\ UNCHANGED <<now, oracle_now, cursor, forgets, engineVars, paid, logVars>>

Propose(c, o) ==
  /\ proposals[c] = Silent
  /\ Ruling(c, [phase |-> "Proposed", outcome |-> o,
                window_closes |-> oracle_now + ChallengeWindow])

Contest(c) ==
  /\ proposals[c].phase = "Proposed"
  /\ Ruling(c, [phase |-> "Contested"])

WindowElapsed(p) == p.phase = "Proposed" /\ oracle_now >= p.window_closes

Finalise(c) ==
  /\ WindowElapsed(proposals[c])
  /\ Ruling(c, Final(proposals[c].outcome))

\* The one trusted key: any outcome, on anything not yet decided.
Escalate(c, o, who) ==
  /\ who = Authority
  /\ proposals[c].phase # "Final"
  /\ Ruling(c, Final(o))

\* All that crosses: proposal, window and contest collapse to working, not final.
StatusOf(p) ==
  IF p.phase \in {"Proposed", "Contested"} THEN InProgress ELSE p

-----------------------------------------------------------------------------
(* The log, from both sides *)

Reported(c, s) == [kind |-> "OracleStatusReported", contract |-> c, status |-> s]
EscrowSettled(x, c) == [kind |-> "EscrowSettled", escrow |-> x, contract |-> c]

\* The oracle adapter reports where the oracle stands.
Report(c) ==
  /\ Len(entries) < MaxEntries
  /\ Append1(<<Reported(c, StatusOf(proposals[c]))>>)
  /\ UNCHANGED <<now, oracleVars, cursor, forgets, engineVars, paid>>

\* Anyone asks for a payout, naming an escrow and a contract.
RequestEscrowSettlement(x, c) ==
  /\ Len(entries) < MaxEntries
  /\ Append1(<<EscrowSettled(x, c)>>)
  /\ UNCHANGED <<now, oracleVars, cursor, forgets, engineVars, paid>>

\* forget_everything: position and deduplication set both lost.
ForgetEverything ==
  /\ forgets < MaxForgets
  /\ forgets' = forgets + 1
  /\ cursor' = 0
  /\ UNCHANGED <<now, oracleVars, engineVars, paid, logVars>>

-----------------------------------------------------------------------------
(* The engine *)

\* Faulty variant: the last report wins.
MayReportAnything(c, s) == TRUE

Rank(s) == CASE s.phase = "Silent" -> 0 [] s.phase = "InProgress" -> 1 [] OTHER -> 2

\* Strictly forwards, so Final is terminal even against itself.
MayReport(c, s) == Rank(s) > Rank(status[c])

\* Faulty variant: no report of an outcome times out, whatever else was heard.
StalledThoughWorking(c) ==
  status[c].phase # "Final" /\ now > EventDate[c] + StallGrace

\* The stall exit conditions on silence, not on the absence of an outcome.
Stalled(c) == status[c] = Silent /\ now > EventDate[c] + StallGrace

\* The outcome of a contract, derived where it is used: at most one.
OutcomeOf(c) ==
  IF status[c].phase = "Final" THEN {status[c].outcome}
  ELSE IF Stalled(c) THEN {"Void"}
  ELSE {}

ReportOracleStatus(c, s) ==
  /\ status' = IF MayReport(c, s) THEN [status EXCEPT ![c] = s] ELSE status
  /\ UNCHANGED payouts

SettleEscrow(x, c) ==
  /\ \/ \E o \in OutcomeOf(c) :
          payouts' = Append(payouts, [escrow |-> x, contract |-> c, outcome |-> o])
     \/ OutcomeOf(c) = {} /\ UNCHANGED payouts
  /\ UNCHANGED status

\* The engine is handed the next entry.
Deliver ==
  /\ cursor < Len(entries)
  /\ cursor' = cursor + 1
  /\ LET p == entries[cursor + 1].payload
     IN  \/ p.kind = "OracleStatusReported" /\ ReportOracleStatus(p.contract, p.status)
         \/ p.kind = "EscrowSettled" /\ SettleEscrow(p.escrow, p.contract)
  /\ UNCHANGED <<now, oracleVars, forgets, paid, logVars>>

-----------------------------------------------------------------------------
(* Custody *)

\* Faulty variants: the contract named by the intent is not compared; an escrow is
\* paid again.
PayableUnderAnyContract(i) == paid[i.escrow] = None
PayableAgain(i) == ContractOf[i.escrow] = i.contract

Payable(i) == ContractOf[i.escrow] = i.contract /\ paid[i.escrow] = None

\* One intent of apply_payouts: it pays, or is refused, or finds the escrow settled.
ApplyPayout ==
  /\ payouts # <<>>
  /\ payouts' = Tail(payouts)
  /\ paid' = IF Payable(Head(payouts))
             THEN [paid EXCEPT ![Head(payouts).escrow] = Head(payouts).outcome]
             ELSE paid
  /\ UNCHANGED <<now, oracleVars, cursor, forgets, status, logVars>>

-----------------------------------------------------------------------------
Next ==
  \/ Tick
  \/ \E c \in Contracts, o \in Rulings : Propose(c, o)
  \/ \E c \in Contracts : Contest(c)
  \/ \E c \in Contracts : Finalise(c)
  \/ \E c \in Contracts, o \in Rulings, who \in Accounts : Escalate(c, o, who)
  \/ \E c \in Contracts : Report(c)
  \/ \E x \in Escrows, c \in Contracts : RequestEscrowSettlement(x, c)
  \/ ForgetEverything
  \/ Deliver
  \/ ApplyPayout

\* Every log entry is pumped to the engine and every intent applied.
Spec == Init /\ [][Next]_vars /\ WF_vars(Deliver) /\ WF_vars(ApplyPayout)

-----------------------------------------------------------------------------
(* Correctness *)

Intent == [escrow : Escrows, contract : Contracts, outcome : Outcome]

TypeOK ==
  /\ now \in 0..MaxTime /\ oracle_now \in 0..MaxTime
  /\ proposals \in [Contracts -> Proposal]
  /\ status \in [Contracts -> OracleStatus]
  /\ cursor \in 0..Len(entries) /\ Len(entries) <= MaxEntries
  /\ \A i \in DOMAIN payouts : payouts[i] \in Intent
  /\ paid \in [Escrows -> Outcome \cup {None}]

\* The engine never believes an outcome the oracle has not ruled, and an escrow is
\* paid to a winner only as the oracle ruled, whatever the intent named and however
\* often the log was replayed.
PaidAsRuled ==
  /\ TypeOK
  /\ \A c \in Contracts : status[c].phase = "Final" => proposals[c] = status[c]
  /\ \A x \in Escrows : paid[x] \in {"Yes", "No"} => proposals[ContractOf[x]] = Final(paid[x])

\* Contesting buys no unwind: while the engine knows the oracle is working on a
\* contract, it emits no further intent to void an escrow of it (SPEC 10.4).
VoidIntents(c) ==
  {i \in DOMAIN payouts : payouts[i].contract = c /\ payouts[i].outcome = "Void"}

ContestingBuysNoUnwind ==
  [][\A c \in Contracts : status[c] = InProgress =>
       Cardinality(VoidIntents(c)') <= Cardinality(VoidIntents(c))]_vars

\* What was decided stays decided: a replayed log takes back no outcome and no
\* progress (contract.rs may_report), and an escrow is paid once, under one outcome.
DecisionsStand ==
  [][/\ \A c \in Contracts : status'[c] = status[c] \/ Rank(status'[c]) > Rank(status[c])
     /\ \A x \in Escrows : paid[x] # None => paid'[x] = paid[x]]_vars

\* A payout that was asked for is made once the engine knows the outcome.
Asked(x) ==
  \E i \in (cursor + 1)..Len(entries) : entries[i].payload = EscrowSettled(x, ContractOf[x])

RequestedPayoutIsMade ==
  \A x \in Escrows :
    (status[ContractOf[x]].phase = "Final" /\ Asked(x)) ~> (paid[x] # None)

\* resolution-design.md on status monotonicity: two escrows of one contract are never
\* paid under different outcomes, decided by which of them was claimed first.
OneOutcomePerContract ==
  \A x, y \in Escrows :
    ContractOf[x] = ContractOf[y] /\ paid[x] # None /\ paid[y] # None => paid[x] = paid[y]

\* known-limitations.md on the escalation authority, free to rule on any contested
\* contract: an outcome is reached through a contest or through an elapsed window.
RulingNeedsAContest ==
  [][\A c \in Contracts : proposals'[c] # proposals[c] /\ proposals'[c].phase = "Final" =>
       proposals[c].phase = "Contested" \/ WindowElapsed(proposals[c])]_vars
=============================================================================
