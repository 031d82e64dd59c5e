--------------------------- MODULE TimelockProofs ---------------------------
(***************************************************************************)
(* The shortest withdrawal delay Config::validate accepts is long enough:  *)
(* while no reorg takes an entry back, whatever the engine has promised of *)
(* an account is there when custody settles it.                            *)
(*                                                                         *)
(* Three things are bounded by each other.  The mirror is at most what     *)
(* custody holds plus what the log will yet take off it (Covers): by the   *)
(* balance at any time, and by what custody would let go of once a request *)
(* for a withdrawal is older than the indexer may lag.  What an account    *)
(* may still be called upon for (Out) was checked against that mirror, so  *)
(* it can be paid, or all of it ends within a claim window of a time past  *)
(* (Holds).  And a bundle on its way takes what the engine holds for it    *)
(* and no more (Backed).  When a withdrawal matures, every claim that did  *)
(* not count it is out of its time, or its settlement is overdue.          *)
(***************************************************************************)
EXTENDS SettlementProofs

-----------------------------------------------------------------------------
(* What is due                                                             *)

\* Requests whose settlement the log tells of after entry i, and after the balance it
\* left to a.
Awaited(a, i) ==
  {n \in DOMAIN resolved : resolved[n] = "Settled" /\ CP!Awaits(entries, i, a, n)}

\* What the engine still claims of a for them.
Due(a, i) == EP!Listed(Awaited(a, i), a)

LEMMA EngineInvOf == IInv => EP!FundsInv /\ EP!MInv /\ EP!IInv
BY DEF IInv, EngineInv, EP!FundsInv, EP!MInv
LEMMA EngineInvNext == IInv' => EP!FundsInv' /\ EP!MInv' /\ EP!IInv'
BY EngineInvOf, PTL

DuesNatural == \A a, i : Due(a, i) \in Nat
LEMMA DueNatural == IInv => DuesNatural
<1> SUFFICES ASSUME IInv, NEW a, NEW i PROVE Due(a, i) \in Nat
  BY DEF DuesNatural
<1>1. PICK M : M = Awaited(a, i)
  OBVIOUS
<1>2. EP!Listed(M, a) \in Nat
  BY EngineInvOf, EngineFits, EP!ListedNatural DEF EngineAssumptions
<1> QED BY <1>1, <1>2 DEF Due
LEMMA DueNaturalNext == IInv' => DuesNatural'
BY DueNatural, PTL

LEMMA DueNext ==
  ASSUME NEW a, NEW i, NEW M, M = Awaited(a, i)'
  PROVE  Due(a, i)' = EP!Listed(M, a)'
BY DEF Due, EP!Listed, EP!Holding, EP!OfLists

\* The step tells the engine nothing of the settlement of n.
SettlesOn(n) ==
  E!InState(n, "Settling") => requests'[n].state \notin {"Escrowed", "SettlementFailed"}

LEMMA FateSettlesOn ==
  ASSUME Fate, NEW n \in RequestSlots PROVE SettlesOn(n)
<1>1. CASE Stands
  BY <1>1 DEF Stands, SettlesOn, E!InState
<1>2. CASE \E r \in RequestSlots : Opens(r) \/ Shifts(r, "Open", "Rejected") \/ Shifts(r, "Open", "Settling")
  BY <1>2 DEF SettlesOn, Opens, Shifts, Others, E!InState
<1> QED BY <1>1, <1>2 DEF Fate

LEMMA AnswersSettlesOn ==
  ASSUME NEW r \in RequestSlots, NEW status, Stands \/ Answers(r, status),
         NEW n \in RequestSlots, n # r
  PROVE  SettlesOn(n)
BY DEF Stands, Answers, Shifts, Others, SettlesOn, E!InState

\* A claim on a list that goes on settling is due as before.
LEMMA DueKept ==
  ASSUME IInv, IInv', [Next]_vars, NEW a \in Accounts, NEW i, NEW j,
         \A n \in Awaited(a, i) : n \in Awaited(a, j)' /\ SettlesOn(n)
  PROVE  Due(a, i) <= Due(a, j)'
<1>1. PICK M, N : M = Awaited(a, i) /\ N = Awaited(a, j)'
  OBVIOUS
<1>2. /\ EP!IInv /\ EP!IInv' /\ [EP!Next]_(EP!vars)
  BY EngineInvOf, EngineInvNext, NextMovesEngine, ReaderKnows DEF IInv, EngineInv, EngineMoves
<1>3. M \subseteq N /\ M \in SUBSET RequestSlots
  BY <1>1 DEF Awaited, IInv, DecidedWanted, Wanted
<1>4. \A n \in M : EP!InState(n, "Settling") => requests'[n].state \notin {"Escrowed", "SettlementFailed"}
  BY <1>1 DEF SettlesOn, E!InState, EP!InState
<1>5. \A o \in EP!OfLists(M, a) : claims'[o] = claims[o]
  BY <1>2, <1>3, <1>4, EngineFits, EP!ListedStay DEF EngineAssumptions
<1>6. EP!Listed(M, a) <= EP!Listed(N, a)'
  BY <1>2, <1>3, <1>5, EngineFits, EP!ListedKept DEF EngineAssumptions
<1> QED BY <1>1, <1>6, DueNext DEF Due

-----------------------------------------------------------------------------
(* What one turn of the indexer tells the engine                           *)

\* The entry the engine is told next.
Upcoming == Len(handed) + 1

LEMMA ReaderPlace ==
  ASSUME IInv
  PROVE  /\ Len(handed) \in Nat /\ Len(entries) \in Nat /\ cursor \in Nat
         /\ Len(handed) <= Len(entries) /\ cursor <= Len(handed)
         /\ handed \in Seq(CP!LogEntry)
         /\ \A i \in 1 .. Len(handed) : CP!Key(entries[i]) \in delivered
<1>1. CP!ReaderTyped /\ CP!HandedInOrder
  BY DEF IInv, CP!ReaderInv
<1> QED BY <1>1 DEF CP!ReaderTyped, CP!HandedInOrder, CP!IndexerTypeOK

LEMMA PumpReads ==
  ASSUME IInv, Pump
  PROVE  /\ UNCHANGED <<custodyVars, logVars, chainVars, in_flight, pumpVars>>
         /\ \/ UNCHANGED <<engineVars, handed, outbox>>
            \/ /\ Upcoming \in 1 .. Len(entries) /\ Len(handed') = Upcoming
               /\ Told(entries[Upcoming].payload) /\ IntentsTaken
<1>1. UNCHANGED <<custodyVars, logVars, chainVars, in_flight, pumpVars>>
  BY DEF Pump, I!ReadNext, chainVars, I!logVars, logVars
<1>2. CASE handed' = handed
  BY <1>1, <1>2 DEF Pump
<1>3. CASE handed' # handed
  <2>1. /\ cursor < Len(entries) /\ Told(entries[cursor + 1].payload) /\ IntentsTaken
        /\ handed' = Append(handed, entries[cursor + 1])
        /\ CP!Key(entries[cursor + 1]) \notin delivered
    BY <1>3 DEF Pump, I!ReadNext, I!Key, CP!Key
  <2>2. cursor + 1 \notin 1 .. Len(handed)
    BY <2>1, ReaderPlace
  <2>3. cursor = Len(handed)
    BY <2>2, ReaderPlace
  <2>4. Len(handed') = Len(handed) + 1
    BY <2>1, ReaderPlace
  <2>5. Upcoming \in 1 .. Len(entries)
    BY <2>1, <2>3, ReaderPlace DEF Upcoming
  <2> QED BY <1>1, <2>1, <2>3, <2>4, <2>5 DEF Upcoming
<1> QED BY <1>2, <1>3

\* It follows the balance the entry says, or it answers the request the entry names.
LEMMA ToldMeans ==
  ASSUME IInv, NEW i \in 1 .. Len(entries), Told(entries[i].payload)
  PROVE  /\ \A a \in Accounts :
              IF CP!Says(entries, i, a) THEN free'[a] = entries[i].payload.available
              ELSE free'[a] = free[a]
         /\ \A n \in RequestSlots : ~CP!Tells(entries, i, n) => SettlesOn(n)
<1> DEFINE payload == entries[i].payload
<1>1. payload \in Notices
  BY ReaderKnows DEF IInv
<1>2. free \in [Accounts -> Nat] /\ Typed
  BY EngineInvOf, EngineTyped DEF EP!IInv, EP!TypeRest
<1>3. CASE payload.kind = "BalanceChanged" /\ E!CreditAccount(payload.account, payload.available)
  <2>1. free' = [free EXCEPT ![payload.account] = payload.available] /\ requests' = requests
    BY <1>3 DEF E!CreditAccount
  <2>2. \A n : SettlesOn(n)
    BY <2>1 DEF SettlesOn, E!InState
  <2>3. \A a \in Accounts :
          IF CP!Says(entries, i, a) THEN free'[a] = payload.available ELSE free'[a] = free[a]
    BY <1>2, <1>3, <2>1 DEF CP!Says
  <2> QED BY <2>2, <2>3
<1>4. CASE payload.kind = "SettlementResolved" /\ E!PollSettlement(payload.nonce, payload.status)
  <2> DEFINE r == payload.nonce
             status == payload.status
  <2>1. free' = free
    BY <1>4 DEF E!PollSettlement, E!Discharge, E!StillUnknown, E!Refuse
  <2>2. r \in RequestSlots
    BY <1>1, <1>4 DEF Notices
  <2>3. \A a \in Accounts : ~CP!Says(entries, i, a)
    BY <1>4 DEF CP!Says
  <2>4. \A n : ~CP!Tells(entries, i, n) => n # r
    BY <1>4 DEF CP!Tells
  <2>5. E!PollSettlement(r, status)
    BY <1>4
  <2> HIDE DEF r, status
  <2>6. Stands \/ Answers(r, status)
    BY <1>2, <2>2, <2>5, PollFate
  <2>7. \A n \in RequestSlots : n # r => SettlesOn(n)
    BY <2>2, <2>6, AnswersSettlesOn
  <2> QED BY <2>1, <2>3, <2>4, <2>7
<1> QED BY <1>3, <1>4 DEF Told

-----------------------------------------------------------------------------
(* The mirror and what it will be told are covered                         *)

Dues(a) == [i \in 0 .. Len(entries) |-> Due(a, i)]

\* No more than x and what is due.
Low(a, x) == CP!Believes(entries, Len(handed), free[a], a, x, Dues(a))

LEMMA AnnouncedFacts ==
  ASSUME CP!AnnouncedInv
  PROVE  CP!LogTyped /\ \A n \in RequestSlots : CP!ToldOnce(entries, resolved, n)
BY DEF CP!AnnouncedInv

\* A settlement the engine is about to be told of is not awaited any more.
LEMMA AwaitedNotTold ==
  ASSUME IInv, CP!AnnouncedInv, NEW i \in 1 .. Len(entries), NEW j \in Nat, i <= j + 1,
         NEW a, NEW n \in Awaited(a, j)
  PROVE  n \in RequestSlots /\ ~CP!Tells(entries, i, n)
<1>1. n \in RequestSlots /\ n \in DOMAIN resolved /\ CP!Awaits(entries, j, a, n)
  BY DEF Awaited, IInv, DecidedWanted, Wanted
<1>2. CP!ToldOnce(entries, resolved, n)
  BY <1>1, AnnouncedFacts
<1> QED BY <1>1, <1>2, ChainFits, CP!AwaitsToldNot DEF ChainAssumptions

LEMMA LowPump ==
  ASSUME IInv, IInv', CP!AnnouncedInv, Pump, [Next]_vars, NEW a \in Accounts, NEW x \in Nat,
         Low(a, x)
  PROVE  CP!Believes(entries', Len(handed'), free'[a], a, x, Dues(a)')
<1>0. PICK h : h = Len(handed)
  OBVIOUS
<1>1. /\ h \in Nat /\ Len(entries) \in Nat /\ entries' = entries /\ resolved' = resolved
      /\ \A i : Awaited(a, i)' = Awaited(a, i)
  BY <1>0, ReaderPlace, PumpReads DEF custodyVars, logVars, Awaited
<1>2. CASE UNCHANGED <<engineVars, handed, outbox>>
  <2>1. ASSUME NEW i PROVE Due(a, i)' = Due(a, i)
    <3>1. PICK M : M = Awaited(a, i)
      OBVIOUS
    <3>2. EP!Listed(M, a)' = EP!Listed(M, a)
      BY <1>2 DEF EP!Listed, EP!Holding, EP!OfLists, engineVars
    <3> QED BY <1>1, <3>1, <3>2, DueNext DEF Due
  <2>2. Dues(a)' = Dues(a)
    BY <1>1, <2>1 DEF Dues
  <2> QED BY <1>0, <1>1, <1>2, <2>2 DEF Low, engineVars
<1>3. CASE Upcoming \in 1 .. Len(entries) /\ Len(handed') = Upcoming /\ Told(entries[Upcoming].payload)
  <2>0. PICK due, more : due = Dues(a) /\ more = Dues(a)'
    OBVIOUS
  <2>1. \A i \in 0 .. Len(entries) :
          /\ due[i] = Due(a, i) /\ more[i] = Due(a, i)'
          /\ due[i] \in Nat /\ more[i] \in Nat
    BY <1>1, <2>0, DueNatural, DueNaturalNext DEF Dues, DuesNatural
  <2>2. ASSUME NEW i \in (h + 1) .. Len(entries) PROVE due[i] <= more[i]
    <3>1. i \in Nat /\ Upcoming <= i + 1 /\ i \in 0 .. Len(entries)
      BY <1>0, <1>1 DEF Upcoming
    <3>2. \A n \in Awaited(a, i) : n \in Awaited(a, i)' /\ SettlesOn(n)
      BY <1>1, <1>3, <3>1, AwaitedNotTold, ToldMeans
    <3>3. Due(a, i) <= Due(a, i)'
      BY <3>2, DueKept
    <3> QED BY <2>1, <3>1, <3>3
  <2>3. ASSUME ~CP!Says(entries, h + 1, a) PROVE due[h] <= more[h + 1]
    <3>1. h \in 0 .. Len(entries) /\ h + 1 \in 0 .. Len(entries) /\ Upcoming = h + 1
      BY <1>0, <1>1, <1>3 DEF Upcoming
    <3>2. ASSUME NEW n \in Awaited(a, h) PROVE n \in Awaited(a, h + 1)'
      <4>1. n \in DOMAIN resolved /\ resolved[n] = "Settled" /\ CP!Awaits(entries, h, a, n)
        BY <3>2 DEF Awaited
      <4>2. CP!Awaits(entries, h + 1, a, n)
        BY <1>1, <2>3, <4>1, ChainFits, CP!AwaitsPast DEF ChainAssumptions
      <4>3. n \in Awaited(a, h + 1)
        BY <4>1, <4>2 DEF Awaited
      <4> QED BY <1>1, <4>3
    <3>3. \A n \in Awaited(a, h) : SettlesOn(n)
      BY <1>1, <1>3, <3>1, AwaitedNotTold, ToldMeans
    <3>4. Due(a, h) <= Due(a, h + 1)'
      BY <3>2, <3>3, DueKept
    <3> QED BY <2>1, <3>1, <3>4
  <2>4. IF CP!Says(entries, h + 1, a) THEN free'[a] = entries[h + 1].payload.available
        ELSE free'[a] = free[a]
    BY <1>0, <1>3, ToldMeans DEF Upcoming
  <2>5. free[a] \in Nat /\ free'[a] \in Nat
    BY EngineInvOf, EngineInvNext DEF EP!IInv, EP!TypeRest
  <2>6. CP!Believes(entries, h, free[a], a, x, due)
    BY <1>0, <2>0 DEF Low
  <2>7. CP!LogTyped
    BY AnnouncedFacts
  <2>8. CP!Believes(entries, h + 1, free'[a], a, x, more)
    BY <1>0, <1>1, <1>3, <2>1, <2>2, <2>3, <2>4, <2>5, <2>6, <2>7, ChainFits, CP!BelievesRead
       DEF ChainAssumptions, Upcoming
  <2> QED BY <1>0, <1>1, <1>3, <2>0, <2>8 DEF Upcoming
<1> QED BY <1>2, <1>3, PumpReads

-----------------------------------------------------------------------------
(* A log that grows                                                        *)

\* What custody would let go of a.
Free(a) == CP!Available(balance, pending, a)

\* Low of the state after the step.
LowNext(a, y) == CP!Believes(entries', Len(handed'), free'[a], a, y, Dues(a)')

LEMMA FreeTyped ==
  ASSUME IInv, NEW a \in Accounts
  PROVE  /\ balance[a] \in Nat /\ pending[a] \in Nat /\ matures_at[a] \in Nat
         /\ Free(a) \in Nat /\ Free(a) <= balance[a]
         /\ balance[a] <= Free(a) + pending[a]
         /\ pending[a] = 0 => Free(a) = balance[a]
<1>1. CP!TypeOK
  BY DEF IInv, CP!MInv
<1>2. balance[a] \in Nat /\ pending[a] \in Nat /\ matures_at[a] \in Nat
  BY <1>1 DEF CP!TypeOK
<1> QED BY <1>2 DEF Free, CP!Available

LEMMA FreeTypedNext ==
  ASSUME IInv', NEW a \in Accounts
  PROVE  /\ balance'[a] \in Nat /\ pending'[a] \in Nat /\ matures_at'[a] \in Nat
         /\ Free(a)' \in Nat /\ Free(a)' <= balance'[a]
         /\ balance'[a] <= Free(a)' + pending'[a]
         /\ pending'[a] = 0 => Free(a)' = balance'[a]
<1>1. CP!TypeOK'
  BY DEF IInv, CP!MInv
<1>2. balance'[a] \in Nat /\ pending'[a] \in Nat /\ matures_at'[a] \in Nat
  BY <1>1 DEF CP!TypeOK
<1> QED BY <1>2 DEF Free, CP!Available

LEMMA LowGrows ==
  ASSUME IInv, IInv', CP!AnnouncedInv, NEW payloads, CP!Speaks(payloads),
         handed' = handed, free' = free, NEW a \in Accounts, NEW x \in Nat, NEW y \in Nat,
         Low(a, x), Free(a)' <= y,
         \A i \in 0 .. Len(entries) : x + Due(a, i) <= y + Due(a, i)'
  PROVE  LowNext(a, y)
<1>0. PICK h, due, more : h = Len(handed) /\ due = Dues(a) /\ more = Dues(a)'
  OBVIOUS
<1>1. /\ payloads \in Seq(CP!Notice) /\ CP!Grown(entries', payloads) /\ CP!LogTyped
      /\ h \in 0 .. Len(entries) /\ free[a] \in Nat
  BY <1>0, EngineInvOf, AnnouncedFacts, ReaderPlace DEF CP!Speaks, EP!IInv, EP!TypeRest
<1>2. /\ Len(entries) \in Nat /\ Len(entries') \in Nat
      /\ \A i \in 0 .. Len(entries) : i \in 0 .. Len(entries')
  BY <1>1, ReaderPlace DEF CP!Grown
<1>3. \A i \in 0 .. Len(entries) : due[i] = Due(a, i) /\ due[i] \in Nat
  BY <1>0, DueNatural DEF Dues, DuesNatural
<1>4. \A i \in 0 .. Len(entries') : more[i] = Due(a, i)' /\ more[i] \in Nat
  BY <1>0, DueNaturalNext DEF Dues, DuesNatural
<1>5. \A i \in 0 .. Len(entries) : x + due[i] <= y + more[i]
  BY <1>2, <1>3, <1>4
<1>6. ASSUME NEW i \in 1 .. Len(payloads),
             payloads[i].kind = "BalanceChanged", payloads[i].account = a
      PROVE  payloads[i].available <= y
  BY <1>6 DEF CP!Speaks, CP!Lendable, Free
<1>7. CP!Believes(entries, h, free[a], a, x, due)
  BY <1>0 DEF Low
<1>8. CP!Believes(entries', h, free[a], a, y, more)
  BY <1>1, <1>3, <1>4, <1>5, <1>6, <1>7, ChainFits, CP!BelievesMore DEF ChainAssumptions
<1> QED BY <1>0, <1>8 DEF LowNext

\* An indexer that has read everything.
LEMMA LowRead ==
  ASSUME IInv, CP!AnnouncedInv, cursor = Len(entries), NEW a \in Accounts, NEW x \in Nat, free[a] <= x
  PROVE  Low(a, x)
<1>0. PICK h, due : h = Len(handed) /\ due = Dues(a)
  OBVIOUS
<1>1. /\ h = Len(entries) /\ Len(entries) \in Nat /\ free[a] \in Nat
      /\ CP!LogTyped /\ due[Len(entries)] \in Nat
  BY <1>0, EngineInvOf, AnnouncedFacts, ReaderPlace, DueNatural
     DEF EP!IInv, EP!TypeRest, Dues, DuesNatural
<1>2. CP!Believes(entries, Len(entries), free[a], a, x, due)
  BY <1>1, ChainFits, CP!BelievesAll DEF ChainAssumptions
<1> QED BY <1>0, <1>1, <1>2 DEF Low

\* A step that tells the engine nothing and moves nothing at custody.
LEMMA LowStays ==
  ASSUME IInv, IInv', CP!AnnouncedInv, [Next]_vars, entries' = entries, handed' = handed,
         free' = free, resolved' = resolved, balance' = balance, pending' = pending,
         \A n \in RequestSlots : SettlesOn(n),
         NEW a \in Accounts, NEW x \in Nat, Low(a, x), Free(a) <= x
  PROVE  LowNext(a, x)
<1>1. PICK payloads : CP!Speaks(payloads)
  BY AnnouncedFacts, ChainFits, CP!SaysNothing DEF ChainAssumptions
<1>2. Free(a)' = Free(a)
  BY DEF Free
<1>3. ASSUME NEW i \in 0 .. Len(entries) PROVE x + Due(a, i) <= x + Due(a, i)'
  <2>1. \A n \in Awaited(a, i) : n \in Awaited(a, i)' /\ SettlesOn(n)
    BY DEF Awaited, IInv, DecidedWanted, Wanted
  <2>2. Due(a, i) <= Due(a, i)'
    BY <2>1, DueKept
  <2> QED BY <2>2, DueNatural, DueNaturalNext DEF DuesNatural
<1> QED BY <1>1, <1>2, <1>3, LowGrows

-----------------------------------------------------------------------------
(* The timelock                                                            *)

LEMMA Bounds ==
  /\ WithdrawalDelay \in Nat /\ MaxIndexerLag \in Nat /\ MaxInclusionTime \in Nat
  /\ ClaimWindow \in Nat
  /\ MaxRequestTtl \in Nat /\ MaxSettlingTime \in Nat /\ MaxQuoteTtl \in Nat
  /\ MaxRequestTtl + MaxSettlingTime <= ClaimWindow /\ MaxQuoteTtl <= ClaimWindow
  /\ ClaimWindow + MaxIndexerLag + MaxInclusionTime < WithdrawalDelay
<1>1. PICK mined : mined = BlockTime * Confirmations
  OBVIOUS
<1>2. mined \in Nat
  BY <1>1, SettlementConstants
<1>3. Lags = mined + MaxIndexerLag + MaxInclusionTime
  BY <1>1 DEF Lags
<1>4. /\ MaxIndexerLag \in Nat /\ MaxInclusionTime \in Nat
      /\ MaxRequestTtl \in Nat /\ MaxSettlingTime \in Nat /\ MaxQuoteTtl \in Nat
  BY SettlementConstants
<1>5. /\ ClaimWindow \in Nat
      /\ MaxRequestTtl + MaxSettlingTime <= ClaimWindow /\ MaxQuoteTtl <= ClaimWindow
  BY <1>4 DEF ClaimWindow
<1>6. WithdrawalDelay \in Nat /\ WithdrawalDelay > ClaimWindow + Lags
  BY DelayIsValid DEF Validate, TimelockLongEnough
<1> QED BY <1>2, <1>3, <1>4, <1>5, <1>6

\* The clocks agree, and the lag is that of an indexer that is stalled.
ClockInv ==
  /\ now \in Nat /\ chain_now = now
  /\ stalled \in BOOLEAN /\ lag \in 0 .. MaxIndexerLag /\ (stalled \/ lag = 0)

\* A withdrawal has been pending for longer than d.
Past(a, d) == pending[a] # 0 /\ now + WithdrawalDelay > matures_at[a] + d

\* The mirror, and what it will be told, is covered by the balance, and by what custody would
\* let go of once the request for a withdrawal must have been read.
Covers(a) ==
  /\ matures_at[a] <= now + WithdrawalDelay
  /\ Low(a, balance[a])
  /\ Past(a, MaxIndexerLag) => Low(a, Free(a))
  /\ stalled /\ Past(a, lag) => Low(a, Free(a))

CoversNext(a) ==
  /\ matures_at'[a] <= now' + WithdrawalDelay
  /\ LowNext(a, balance'[a])
  /\ Past(a, MaxIndexerLag)' => LowNext(a, Free(a)')
  /\ stalled' /\ Past(a, lag)' => LowNext(a, Free(a)')

LEMMA CoversThen == ASSUME NEW a, CoversNext(a) PROVE Covers(a)'
BY DEF Covers, CoversNext, Low, LowNext

\* The step leaves the money of a and the clock alone, and what is low.
KeepsLow(a) == \A x \in Nat : Low(a, x) /\ Free(a) <= x => LowNext(a, x)
MoneyStands(a) ==
  balance'[a] = balance[a] /\ pending'[a] = pending[a] /\ matures_at'[a] = matures_at[a]

LEMMA CoversStand ==
  ASSUME IInv, NEW a \in Accounts, Covers(a), KeepsLow(a), MoneyStands(a),
         UNCHANGED <<now, stalled, lag>>
  PROVE  CoversNext(a)
<1>1. Free(a)' = Free(a)
  BY DEF Free, CP!Available, MoneyStands
<1>2. balance[a] \in Nat /\ Free(a) \in Nat /\ Free(a) <= balance[a]
  BY FreeTyped
<1>3. \A d : Past(a, d) <=> pending'[a] # 0 /\ now + WithdrawalDelay > matures_at'[a] + d
  BY DEF Past, MoneyStands
<1>4. Past(a, MaxIndexerLag)' <=> Past(a, MaxIndexerLag)
  BY <1>3 DEF Past
<1>5. Past(a, lag)' <=> Past(a, lag)
  BY <1>3 DEF Past
<1>6. Low(a, balance[a]) => LowNext(a, balance[a])
  BY <1>2 DEF KeepsLow
<1>7. Low(a, Free(a)) => LowNext(a, Free(a))
  BY <1>2 DEF KeepsLow
<1> QED BY <1>1, <1>4, <1>5, <1>6, <1>7 DEF Covers, CoversNext, MoneyStands

(* A command to the engine leaves the mirror.                              *)
LEMMA AsksCover ==
  ASSUME IInv, IInv', CP!AnnouncedInv, [Next]_vars, Asks, NEW a \in Accounts, Covers(a)
  PROVE  CoversNext(a)
<1>1. UNCHANGED <<custodyVars, logVars, readerVars, pumpVars>> /\ free' = free /\ now' = now
  BY AsksAround, AsksLeaveMirror, AsksCommand DEF IInv, EngineInv, Commanded
<1>2. UNCHANGED <<entries, handed, free, resolved, balance, pending, matures_at, stalled, lag, now>>
  BY <1>1 DEF custodyVars, logVars, readerVars, pumpVars
<1>3. \A n \in RequestSlots : SettlesOn(n)
  BY AsksFate, FateSettlesOn DEF IInv
<1>4. KeepsLow(a)
  BY <1>2, <1>3, LowStays DEF KeepsLow
<1> QED BY <1>2, <1>4, CoversStand DEF MoneyStands

LEMMA AsksNow == ASSUME IInv, Asks PROVE now' = now
BY AsksCommand DEF IInv, EngineInv, Commanded

LEMMA PumpNow == ASSUME IInv, Pump PROVE now' = now
<1>1. CASE UNCHANGED engineVars
  BY <1>1 DEF engineVars
<1>2. CASE Upcoming \in 1 .. Len(entries) /\ Told(entries[Upcoming].payload)
  <2>1. entries[Upcoming].payload \in Notices
    BY <1>2, ReaderKnows DEF IInv
  <2> QED BY <1>2, <2>1, ToldCommands DEF Commanded
<1> QED BY <1>1, <1>2, PumpReads

(* The indexer tells it what is covered.                                   *)
LEMMA PumpCovers ==
  ASSUME IInv, IInv', CP!AnnouncedInv, [Next]_vars, Pump, NEW a \in Accounts, Covers(a)
  PROVE  CoversNext(a)
<1>1. UNCHANGED <<balance, pending, matures_at, stalled, lag>>
  BY PumpReads DEF custodyVars, pumpVars
<1>2. now' = now
  BY PumpNow
<1>3. KeepsLow(a)
  BY LowPump DEF KeepsLow, LowNext
<1> QED BY <1>1, <1>2, <1>3, CoversStand DEF MoneyStands

-----------------------------------------------------------------------------
(* What stands behind a bundle on its way                                  *)

\* While its request settles, the engine holds for each side what the bundle takes of it,
\* leg by leg by an offer that is good until the leg says.
Backed(b) ==
  E!InState(b.nonce, "Settling") =>
    \E w \in [DOMAIN b.legs -> QuoteSlots] : EP!Pledged(b.nonce, w, b.requester, b.legs)
BackedBundles == {b \in Bundles : Backed(b)}
BackedInv ==
  outbox \in Seq(BackedBundles) /\ in_flight \in Seq(BackedBundles) /\ queue \in Seq(BackedBundles)

\* A bundle custody has not answered is for a request that is settling.
LEMMA UnansweredSettles ==
  ASSUME IInv, NEW b, b.nonce \in Wanted, b.nonce \notin DOMAIN resolved
  PROVE  E!InState(b.nonce, "Settling") /\ b.nonce \in RequestSlots
BY DEF IInv, BeliefsTrue, Wanted

\* What the legs take of an account is the debit custody makes.
LEMMA SameDebit ==
  ASSUME NEW b, NEW a PROVE EP!DebitOf(b.legs, b.requester, a) = CP!Debit(b, a)
BY DEF EP!DebitOf, CP!Debit, EP!SumFunction, CP!SumFunction, EP!SumFunctionOnSet,
   CP!SumFunctionOnSet, EP!FoldFunctionOnSet, CP!FoldFunctionOnSet, EP!MapThenFoldSet,
   CP!MapThenFoldSet

LEMMA LegsTyped ==
  ASSUME NEW b \in Good
  PROVE  /\ b \in CP!Bundle /\ EP!IsFiniteSet(DOMAIN b.legs) /\ b.requester \in Accounts
         /\ \A l \in DOMAIN b.legs :
              /\ b.legs[l].maker \in Accounts
              /\ b.legs[l].maker_contribution \in Nat /\ b.legs[l].requester_contribution \in Nat
<1>1. b \in CP!Bundle
  BY SameBundle DEF Good
<1>2. b.legs \in Seq(CP!Leg) /\ b.requester \in Accounts
  BY <1>1 DEF CP!Bundle
<1>3. DOMAIN b.legs = 1 .. Len(b.legs) /\ Len(b.legs) \in Nat
  BY <1>2
<1>4. IsFiniteSet(1 .. Len(b.legs))
  BY <1>3, FS_Interval
<1>5. EP!IsFiniteSet(DOMAIN b.legs)
  BY <1>3, <1>4 DEF IsFiniteSet, EP!IsFiniteSet
<1>6. ASSUME NEW l \in DOMAIN b.legs
      PROVE  /\ b.legs[l].maker \in Accounts
             /\ b.legs[l].maker_contribution \in Nat /\ b.legs[l].requester_contribution \in Nat
  <2>1. b.legs[l] \in CP!Leg
    BY <1>2, <1>6
  <2> QED BY <2>1 DEF CP!Leg
<1> QED BY <1>1, <1>2, <1>5, <1>6

LEMMA BackedHolds ==
  ASSUME IInv, NEW b \in Good, b.nonce \in Wanted, b.nonce \notin DOMAIN resolved, Backed(b),
         NEW a \in Accounts
  PROVE  \E w \in [DOMAIN b.legs -> QuoteSlots], T \in SUBSET EP!Share(b.nonce, a) :
           /\ EP!Holding(T) = CP!Debit(b, a) /\ CP!Debit(b, a) \in Nat
           /\ \A l \in DOMAIN b.legs :
                /\ b.legs[l].maker = a => w[l] \in T
                /\ quotes[w[l]].expires_at = b.legs[l].quote_expiry
<1>1. E!InState(b.nonce, "Settling") /\ b.nonce \in RequestSlots
  BY UnansweredSettles
<1>2. PICK w \in [DOMAIN b.legs -> QuoteSlots] : EP!Pledged(b.nonce, w, b.requester, b.legs)
  BY <1>1 DEF Backed
<1>3. PICK r, c, legs : r = b.nonce /\ c = b.requester /\ legs = b.legs
  OBVIOUS
<1>4. /\ r \in RequestSlots /\ EP!Pledged(r, w, c, legs) /\ EP!IsFiniteSet(DOMAIN legs)
      /\ w \in [DOMAIN legs -> QuoteSlots]
  BY <1>1, <1>2, <1>3, LegsTyped
<1>5. \A l \in DOMAIN legs : /\ w[l] \in QuoteSlots /\ legs[l].maker_contribution \in Nat
                             /\ legs[l].requester_contribution \in Nat
  BY <1>3, <1>4, LegsTyped
<1>6. EP!Shares(r, w, c, legs, a)
  BY <1>4, <1>5, EngineInvOf, EngineFits, EP!PledgeShare DEF EngineAssumptions
<1>7. PICK T \in SUBSET EP!Share(r, a) :
        /\ EP!Holding(T) = EP!DebitOf(legs, c, a)
        /\ \A l \in DOMAIN legs : legs[l].maker = a => w[l] \in T
  BY <1>6 DEF EP!Shares
<1>8. EP!Holding(T) \in Nat
  <2>1. T \in SUBSET EP!Owners
    BY DEF EP!Share, EP!ClaimsOf
  <2> QED BY <2>1, EngineInvOf, EngineFits, EP!HoldingNatural DEF EngineAssumptions
<1>9. EP!Holding(T) = CP!Debit(b, a) /\ CP!Debit(b, a) \in Nat
  BY <1>3, <1>7, <1>8, SameDebit
<1>10. \A l \in DOMAIN legs : quotes[w[l]].expires_at = legs[l].quote_expiry
  BY <1>4 DEF EP!Pledged, EP!PledgedLeg
<1>11. T \in SUBSET EP!Share(b.nonce, a) /\ w \in [DOMAIN b.legs -> QuoteSlots]
  BY <1>3
<1>12. \A l \in DOMAIN b.legs : /\ b.legs[l].maker = a => w[l] \in T
                                /\ quotes[w[l]].expires_at = b.legs[l].quote_expiry
  BY <1>3, <1>7, <1>10
<1> QED BY <1>9, <1>11, <1>12

-----------------------------------------------------------------------------
(* A transaction at custody                                                *)

LEMMA TransactsClock ==
  ASSUME Transacts
  PROVE  /\ UNCHANGED <<now, chain_now, stalled, lag, handed, free, requests, claims, quotes, reorgs>>
<1>1. UNCHANGED <<now, stalled, lag, handed, free, requests, claims, quotes, reorgs>>
  BY TransactsAround DEF engineVars, readerVars, chainVars, pumpVars
<1>2. chain_now' = chain_now
  BY DEF Transacts, Deposit, RequestWithdrawal, ExecuteWithdrawal, SubmitPending, LoseNextSubmission,
         Include, Resubmit, Transact, C!Deposit, C!RequestWithdrawal, C!ExecuteWithdrawal, C!Submit,
         C!DropNextSubmission, C!IncludeNext
<1> QED BY <1>1, <1>2

LEMMA TransactsServe ==
  ASSUME IInv, IInv', CP!AnnouncedInv, Transacts
  PROVE  /\ CP!Serves \/ \E b \in CP!Bundle : CP!Settles(b) \/ CP!Reverts(b)
         /\ Decided1
<1>1. AdapterInv /\ CP!MInv /\ CP!MInv'
  BY DEF IInv
<1>2. CustodyMoves
  BY <1>1, TransactsMove, GoodBundles DEF AdapterInv
<1>3. CP!TypeOK /\ CP!TypeOK' /\ CP!LogTyped
  BY <1>1, AnnouncedFacts DEF CP!MInv
<1>4. CP!Serves \/ \E b \in CP!Bundle : CP!Settles(b) \/ CP!Reverts(b)
  BY <1>2, <1>3, ChainFits, CP!CustodyServes DEF ChainAssumptions, CustodyMoves
<1> QED BY <1>1, <1>4, TransactsDecide, ChainDecides

\* What is due stays due when custody decides more.
LEMMA DueServed ==
  ASSUME IInv, IInv', CP!AnnouncedInv, [Next]_vars, requests' = requests, Decided1,
         NEW payloads, CP!Speaks(payloads), NEW a \in Accounts, NEW i
  PROVE  Due(a, i) <= Due(a, i)'
<1>1. payloads \in Seq(CP!Notice) /\ CP!Grown(entries', payloads) /\ CP!LogTyped
  BY AnnouncedFacts DEF CP!Speaks
<1>2. ASSUME NEW n \in Awaited(a, i) PROVE n \in Awaited(a, i)' /\ SettlesOn(n)
  <2>1. n \in DOMAIN resolved /\ resolved[n] = "Settled" /\ CP!Awaits(entries, i, a, n)
    BY DEF Awaited
  <2>2. n \in DOMAIN resolved' /\ resolved'[n] = "Settled"
    BY <2>1 DEF Decided1
  <2>3. CP!Awaits(entries', i, a, n)
    BY <1>1, <2>1, ChainFits, CP!AwaitsKeeps DEF ChainAssumptions
  <2> QED BY <2>2, <2>3 DEF Awaited, SettlesOn, E!InState
<1> QED BY <1>2, DueKept

\* What a settlement takes is due until the engine learns of it.
LEMMA DueSettled ==
  ASSUME IInv, IInv', CP!AnnouncedInv, [Next]_vars, UNCHANGED <<requests, claims>>, Decided1, BackedInv,
         NEW b \in CP!Bundle, CP!Settles(b), NEW a \in Accounts, NEW i \in 0 .. Len(entries)
  PROVE  CP!Debit(b, a) \in Nat /\ Due(a, i) + CP!Debit(b, a) <= Due(a, i)'
<1>1. /\ queue # <<>> /\ b = Head(queue) /\ b.nonce \notin DOMAIN resolved
      /\ CP!Resolve(b.nonce, "Settled")
  BY DEF CP!Settles, CP!Answered
<1>2. b \in Good /\ b.nonce \in Wanted /\ Backed(b)
  <2>1. queue \in Seq(Sent) /\ queue \in Seq(BackedBundles)
    BY DEF IInv, AdapterInv, BackedInv
  <2>2. Head(queue) \in Sent /\ Head(queue) \in BackedBundles
    BY <1>1, <2>1
  <2> QED BY <1>1, <2>2 DEF BackedBundles, Sent
<1>3. PICK T \in SUBSET EP!Share(b.nonce, a) :
        EP!Holding(T) = CP!Debit(b, a) /\ CP!Debit(b, a) \in Nat
  BY <1>1, <1>2, BackedHolds
<1>4. PICK payloads : CP!SpeaksLast(payloads, CP!Parties(b), b.nonce)
  BY DEF CP!Settles
<1>5. CP!Speaks(payloads) /\ Due(a, i) <= Due(a, i)'
  BY <1>4, DueServed DEF CP!SpeaksLast
<1>6. CASE CP!Debit(b, a) = 0
  BY <1>3, <1>5, <1>6, DueNatural, DueNaturalNext DEF DuesNatural
<1>7. CASE CP!Debit(b, a) # 0
  <2>1. PICK k \in 1 .. Len(CP!Parties(b)) : CP!Parties(b)[k] = a
    BY <1>7, ChainFits, CP!PartyAnnounced DEF ChainAssumptions
  <2>2. /\ payloads \in Seq(CP!Notice) /\ CP!Grown(entries', payloads) /\ CP!LogTyped
        /\ Len(CP!Parties(b)) \in Nat
        /\ k \in 1 .. Len(payloads) /\ Len(CP!Parties(b)) + 1 \in 1 .. Len(payloads)
        /\ k < Len(CP!Parties(b)) + 1
    BY <1>4, <2>1, AnnouncedFacts DEF CP!Speaks, CP!SpeaksLast
  <2>3. /\ payloads[k].kind = "BalanceChanged" /\ payloads[k].account = a
        /\ payloads[Len(CP!Parties(b)) + 1].kind = "SettlementResolved"
        /\ payloads[Len(CP!Parties(b)) + 1].nonce = b.nonce
    BY <1>4, <2>1 DEF CP!SpeaksLast
  <2>4. CP!Awaits(entries', i, a, b.nonce)
    BY <2>2, <2>3, ChainFits, CP!AwaitsAnswer DEF ChainAssumptions
  <2>5. resolved'[b.nonce] = "Settled" /\ b.nonce \in DOMAIN resolved'
    BY <1>1 DEF CP!Resolve
  <2>6. PICK M, N : M = Awaited(a, i) /\ N = Awaited(a, i)'
    OBVIOUS
  <2>7. M \cup {b.nonce} \subseteq N
    <3>1. b.nonce \in N
      BY <2>4, <2>5, <2>6 DEF Awaited
    <3>2. ASSUME NEW n \in M PROVE n \in N
      <4>1. n \in DOMAIN resolved /\ resolved[n] = "Settled" /\ CP!Awaits(entries, i, a, n)
        BY <2>6, <3>2 DEF Awaited
      <4>2. n \in DOMAIN resolved' /\ resolved'[n] = "Settled"
        BY <4>1 DEF Decided1
      <4>3. CP!Awaits(entries', i, a, n)
        BY <2>2, <4>1, ChainFits, CP!AwaitsKeeps DEF ChainAssumptions
      <4> QED BY <2>6, <4>2, <4>3 DEF Awaited
    <3> QED BY <3>1, <3>2
  <2>8. b.nonce \notin M
    BY <1>1, <2>6 DEF Awaited
  <2>9. EP!Listed(M, a) + EP!Holding(T) <= EP!Listed(N, a)
    BY <2>7, <2>8, EngineInvOf, EngineFits, EP!ListedMore DEF EngineAssumptions
  <2>10. EP!Listed(N, a)' = EP!Listed(N, a)
    BY DEF EP!Listed, EP!Holding, EP!OfLists
  <2> QED BY <1>3, <2>6, <2>9, <2>10, DueNext DEF Due
<1> QED BY <1>6, <1>7

\* What is low stays low when x becomes y and what is due makes up for it.
LEMMA LowServed ==
  ASSUME IInv, IInv', CP!AnnouncedInv, [Next]_vars, Transacts, NEW payloads, CP!Speaks(payloads),
         NEW a \in Accounts, NEW x \in Nat, NEW y \in Nat, Low(a, x), x <= y, Free(a)' <= y
  PROVE  LowNext(a, y)
<1>1. UNCHANGED <<handed, free, requests>> /\ Decided1
  BY TransactsClock, TransactsServe
<1>2. ASSUME NEW i \in 0 .. Len(entries) PROVE x + Due(a, i) <= y + Due(a, i)'
  <2>1. Due(a, i) <= Due(a, i)'
    BY <1>1, DueServed
  <2> QED BY <2>1, DueNatural, DueNaturalNext DEF DuesNatural
<1> QED BY <1>1, <1>2, LowGrows

LEMMA ServesCover ==
  ASSUME IInv, IInv', CP!AnnouncedInv, [Next]_vars, Transacts, ClockInv, CP!Serves,
         NEW a \in Accounts, Covers(a)
  PROVE  CoversNext(a)
<1>1. PICK payloads : CP!Speaks(payloads)
  BY DEF CP!Serves
<1>2. UNCHANGED <<now, chain_now, stalled, lag>> /\ now \in Nat /\ chain_now = now /\ lag \in Nat
  BY TransactsClock DEF ClockInv
<1>3. /\ balance[a] \in Nat /\ pending[a] \in Nat /\ matures_at[a] \in Nat
      /\ Free(a) \in Nat /\ Free(a) <= balance[a]
  BY FreeTyped
<1>4. /\ balance'[a] \in Nat /\ pending'[a] \in Nat /\ matures_at'[a] \in Nat
      /\ Free(a)' \in Nat /\ Free(a)' <= balance'[a]
      /\ pending'[a] = 0 => Free(a)' = balance'[a]
  BY FreeTypedNext
<1>5. ASSUME NEW x \in Nat, NEW y \in Nat, Low(a, x), x <= y, Free(a)' <= y PROVE LowNext(a, y)
  BY <1>1, <1>5, LowServed
<1>6. CASE CP!Gains(a)
  <2>1. pending'[a] = pending[a] /\ matures_at'[a] = matures_at[a] /\ balance[a] <= balance'[a]
    BY <1>6 DEF CP!Gains
  <2>2. Free(a) <= Free(a)'
    BY <1>3, <1>4, <2>1 DEF Free, CP!Available
  <2>3. /\ Past(a, MaxIndexerLag)' => Past(a, MaxIndexerLag)
        /\ stalled' /\ Past(a, lag)' => stalled /\ Past(a, lag)
    BY <1>2, <2>1 DEF Past
  <2>4. LowNext(a, balance'[a])
    BY <1>3, <1>4, <1>5, <2>1 DEF Covers
  <2>5. Low(a, Free(a)) => LowNext(a, Free(a)')
    BY <1>3, <1>4, <1>5, <2>2
  <2> QED BY <1>2, <2>1, <2>3, <2>4, <2>5 DEF Covers, CoversNext
<1>7. CASE CP!Retires(a)
  <2>1. balance'[a] = balance[a] /\ matures_at'[a] = now + WithdrawalDelay
    BY <1>2, <1>7 DEF CP!Retires
  <2>2. ~Past(a, MaxIndexerLag)' /\ ~Past(a, lag)'
    BY <1>2, <2>1, Bounds DEF Past
  <2>3. LowNext(a, balance'[a])
    BY <1>3, <1>4, <1>5, <2>1 DEF Covers
  <2> QED BY <1>2, <2>1, <2>2, <2>3, Bounds DEF CoversNext
<1>8. CASE CP!Leaves(a)
  <2>1. /\ pending[a] # 0 /\ matures_at[a] <= now /\ balance'[a] = Free(a)
        /\ pending'[a] = 0 /\ matures_at'[a] = matures_at[a]
    BY <1>2, <1>8 DEF CP!Leaves, Free
  <2>2. Past(a, MaxIndexerLag)
    BY <1>2, <1>3, <2>1, Bounds DEF Past
  <2>3. ~Past(a, MaxIndexerLag)' /\ ~Past(a, lag)'
    BY <2>1 DEF Past
  <2>4. LowNext(a, balance'[a])
    BY <1>3, <1>4, <1>5, <2>1, <2>2 DEF Covers
  <2>5. matures_at'[a] <= now' + WithdrawalDelay
    BY <1>2, <1>3, <2>1, Bounds
  <2> QED BY <2>3, <2>4, <2>5 DEF CoversNext
<1> QED BY <1>6, <1>7, <1>8 DEF CP!Serves

LEMMA SettlesCover ==
  ASSUME IInv, IInv', CP!AnnouncedInv, [Next]_vars, Transacts, BackedInv,
         NEW b \in CP!Bundle, CP!Settles(b), NEW a \in Accounts, Covers(a)
  PROVE  CoversNext(a)
<1>1. PICK payloads : CP!SpeaksLast(payloads, CP!Parties(b), b.nonce)
  BY DEF CP!Settles
<1>2. UNCHANGED <<now, stalled, lag, handed, free, requests, claims>> /\ Decided1
  BY TransactsClock, TransactsServe
<1>3. /\ balance'[a] = balance[a] - CP!Debit(b, a)
      /\ pending'[a] = pending[a] /\ matures_at'[a] = matures_at[a]
  BY DEF CP!Settles
<1>4. \A i \in 0 .. Len(entries) : CP!Debit(b, a) \in Nat /\ Due(a, i) + CP!Debit(b, a) <= Due(a, i)'
  BY <1>2, DueSettled
<1>5. CP!Debit(b, a) \in Nat
  BY <1>4, ReaderPlace
<1>6. /\ balance[a] \in Nat /\ pending[a] \in Nat
      /\ Free(a) \in Nat /\ Free(a) <= balance[a]
      /\ balance'[a] \in Nat /\ Free(a)' \in Nat /\ Free(a)' <= balance'[a]
  BY FreeTyped, FreeTypedNext
<1>7. Free(a) <= Free(a)' + CP!Debit(b, a)
  BY <1>3, <1>5, <1>6 DEF Free, CP!Available
<1>8. ASSUME NEW x \in Nat, NEW y \in Nat, Low(a, x), x <= y + CP!Debit(b, a), Free(a)' <= y
      PROVE  LowNext(a, y)
  <2>1. ASSUME NEW i \in 0 .. Len(entries) PROVE x + Due(a, i) <= y + Due(a, i)'
    BY <1>4, <1>8, DueNatural, DueNaturalNext DEF DuesNatural
  <2>2. CP!Speaks(payloads)
    BY <1>1 DEF CP!SpeaksLast
  <2> QED BY <1>2, <1>8, <2>1, <2>2, LowGrows
<1>9. LowNext(a, balance'[a])
  BY <1>3, <1>5, <1>6, <1>8 DEF Covers
<1>10. Low(a, Free(a)) => LowNext(a, Free(a)')
  BY <1>6, <1>7, <1>8
<1>11. /\ Past(a, MaxIndexerLag)' => Past(a, MaxIndexerLag)
       /\ stalled' /\ Past(a, lag)' => stalled /\ Past(a, lag)
  BY <1>2, <1>3 DEF Past
<1> QED BY <1>2, <1>3, <1>9, <1>10, <1>11 DEF Covers, CoversNext

LEMMA RevertsCover ==
  ASSUME IInv, IInv', CP!AnnouncedInv, [Next]_vars, Transacts,
         NEW b \in CP!Bundle, CP!Reverts(b), NEW a \in Accounts, Covers(a)
  PROVE  CoversNext(a)
<1>1. PICK payloads : CP!Speaks(payloads)
  BY DEF CP!Reverts
<1>2. UNCHANGED <<balance, pending, matures_at, now, stalled, lag>>
  BY TransactsClock DEF CP!Reverts
<1>3. Free(a)' = Free(a) /\ Free(a) <= balance[a]
  BY <1>2, FreeTyped DEF Free
<1>4. KeepsLow(a)
  BY <1>1, <1>3, LowServed DEF KeepsLow
<1> QED BY <1>2, <1>4, CoversStand DEF MoneyStands

LEMMA TransactsCover ==
  ASSUME IInv, IInv', CP!AnnouncedInv, [Next]_vars, Transacts, ClockInv, BackedInv,
         NEW a \in Accounts, Covers(a)
  PROVE  CoversNext(a)
BY TransactsServe, ServesCover, SettlesCover, RevertsCover

-----------------------------------------------------------------------------
(* Time, and an indexer that stops and goes on                             *)

\* The clock does not move, nor does the indexer stop, while anything waits to be read that
\* could be.
PromptStep == (now' # now \/ stalled' # stalled) => stalled \/ cursor = Len(entries)

Idle ==
  UNCHANGED <<entries, handed, free, resolved, balance, pending, matures_at, requests, claims, quotes,
              outbox, in_flight, queue, reorgs>>

LEMMA TickMeans ==
  ASSUME Tick, ClockInv, MaxSkew = 0
  PROVE  /\ Idle /\ now' = now + 1 /\ chain_now' = chain_now + 1 /\ stalled' = stalled
         /\ stalled => lag < MaxIndexerLag /\ lag' = lag + 1
         /\ ~stalled => lag' = lag
<1>1. Clocks(E!Tick /\ C!Tick)
  <2>1. now \in Nat /\ chain_now = now
    BY DEF ClockInv
  <2>2. ~(now < chain_now + MaxSkew) /\ ~(chain_now < now + MaxSkew)
    BY <2>1
  <2> QED BY <2>2 DEF Tick, Clocks
<1> QED BY <1>1 DEF Clocks, E!Tick, C!Tick, C!ledgerVars, Idle, logVars, readerVars, chainVars, adapterVars

\* A step that leaves everything but the clock and the pump alone.
LEMMA IdleKeepsLow ==
  ASSUME IInv, IInv', CP!AnnouncedInv, [Next]_vars, Idle, NEW a \in Accounts
  PROVE  KeepsLow(a) /\ Free(a)' = Free(a) /\ MoneyStands(a)
<1>1. \A n \in RequestSlots : SettlesOn(n)
  BY DEF Idle, SettlesOn, E!InState
<1>2. KeepsLow(a)
  BY <1>1, LowStays DEF Idle, KeepsLow
<1> QED BY <1>2 DEF Idle, MoneyStands, Free

\* What an indexer that has read everything leaves is low.
LEMMA ReadIsLow ==
  ASSUME IInv, MirrorInv, reorgs = 0, cursor = Len(entries), NEW a \in Accounts
  PROVE  Low(a, Free(a)) /\ Low(a, balance[a])
<1>1. CP!AnnouncedInv
  BY DEF MirrorInv
<1>2. free[a] = Free(a)
  BY MirrorMeans DEF MirrorIsExact, Free, C!Available, CP!Available
<1>3. Free(a) \in Nat /\ balance[a] \in Nat /\ Free(a) <= balance[a]
  BY FreeTyped
<1> QED BY <1>1, <1>2, <1>3, LowRead

LEMMA TickCovers ==
  ASSUME IInv, IInv', MirrorInv, reorgs = 0, [Next]_vars, ClockInv, MaxSkew = 0, PromptStep, Tick,
         NEW a \in Accounts, Covers(a)
  PROVE  CoversNext(a)
<1>1. CP!AnnouncedInv
  BY DEF MirrorInv
<1>2. /\ Idle /\ now' = now + 1 /\ stalled' = stalled
      /\ stalled => lag < MaxIndexerLag /\ lag' = lag + 1
      /\ ~stalled => lag' = lag
  BY TickMeans
<1>3. KeepsLow(a) /\ Free(a)' = Free(a) /\ MoneyStands(a)
  BY <1>1, <1>2, IdleKeepsLow
<1>4. /\ balance[a] \in Nat /\ pending[a] \in Nat /\ matures_at[a] \in Nat
      /\ Free(a) \in Nat /\ Free(a) <= balance[a]
  BY FreeTyped
<1>5. balance'[a] = balance[a] /\ pending'[a] = pending[a] /\ matures_at'[a] = matures_at[a]
  BY <1>3 DEF MoneyStands
<1>6. LowNext(a, balance'[a]) /\ (Low(a, Free(a)) => LowNext(a, Free(a)'))
  BY <1>3, <1>4, <1>5 DEF KeepsLow, Covers
<1>7. now \in Nat /\ lag \in Nat /\ lag <= MaxIndexerLag
  BY Bounds DEF ClockInv
<1>8. matures_at'[a] <= now' + WithdrawalDelay
  BY <1>2, <1>4, <1>5, <1>7, Bounds DEF Covers
<1>9. CASE stalled
  <2>1. Past(a, MaxIndexerLag)' \/ Past(a, lag)' => Past(a, lag)
    BY <1>2, <1>4, <1>5, <1>7, <1>9, Bounds DEF Past
  <2>2. Past(a, lag) => Low(a, Free(a))
    BY <1>9 DEF Covers
  <2> QED BY <1>6, <1>8, <2>1, <2>2 DEF CoversNext
<1>10. CASE ~stalled
  <2>1. cursor = Len(entries)
    BY <1>2, <1>7, <1>10 DEF PromptStep
  <2>2. Low(a, Free(a))
    BY <2>1, ReadIsLow
  <2> QED BY <1>6, <1>8, <2>2 DEF CoversNext
<1> QED BY <1>9, <1>10

\* The indexer stops or goes on, or only blocks are mined.
LEMMA RestMeans ==
  ASSUME UNCHANGED vars \/ StallIndexer \/ ResumeIndexer \/ MineBlock \/ ReorgOrRestart,
         reorgs \in Nat, reorgs' = 0
  PROVE  Idle /\ UNCHANGED <<now, chain_now>>
<1>1. CASE UNCHANGED vars \/ StallIndexer \/ ResumeIndexer
  BY <1>1 DEF vars, StallIndexer, ResumeIndexer, Idle, engineVars, custodyVars, logVars, readerVars,
              chainVars, adapterVars
<1>2. CASE MineBlock
  BY <1>2 DEF MineBlock, I!Mine, I!AdvanceBlock, I!readerVars, Idle, engineVars, custodyVars, adapterVars
<1>3. CASE ReorgOrRestart
  <2>1. UNCHANGED <<engineVars, custodyVars, adapterVars>>
    BY <1>3 DEF ReorgOrRestart
  <2>2. CASE I!Rewind
    BY <2>1, <2>2 DEF I!Rewind, I!logVars, Idle, engineVars, custodyVars, adapterVars
  <2>3. ASSUME NEW block, I!ShallowReorg(block) PROVE FALSE
    BY <2>3 DEF I!ShallowReorg
  <2> QED BY <1>3, <2>2, <2>3, <2>1 DEF ReorgOrRestart, engineVars, custodyVars
<1> QED BY <1>1, <1>2, <1>3

LEMMA RestCovers ==
  ASSUME IInv, IInv', MirrorInv, reorgs = 0, reorgs' = 0, [Next]_vars, ClockInv, PromptStep,
         UNCHANGED vars \/ StallIndexer \/ ResumeIndexer \/ MineBlock \/ ReorgOrRestart,
         NEW a \in Accounts, Covers(a)
  PROVE  CoversNext(a)
<1>1. CP!AnnouncedInv /\ reorgs \in Nat
  BY DEF MirrorInv
<1>2. Idle /\ now' = now
  BY <1>1, RestMeans
<1>3. KeepsLow(a) /\ Free(a)' = Free(a) /\ MoneyStands(a)
  BY <1>1, <1>2, IdleKeepsLow
<1>4. /\ balance[a] \in Nat /\ Free(a) \in Nat /\ Free(a) <= balance[a]
  BY FreeTyped
<1>5. balance'[a] = balance[a] /\ pending'[a] = pending[a] /\ matures_at'[a] = matures_at[a]
  BY <1>3 DEF MoneyStands
<1>6. LowNext(a, balance'[a]) /\ (Low(a, Free(a)) => LowNext(a, Free(a)'))
  BY <1>3, <1>4, <1>5 DEF KeepsLow, Covers
<1>7. matures_at'[a] <= now' + WithdrawalDelay /\ (Past(a, MaxIndexerLag)' => Past(a, MaxIndexerLag))
  BY <1>2, <1>5 DEF Covers, Past
<1>8. stalled' /\ Past(a, lag)' => Low(a, Free(a))
  <2>1. CASE stalled' = stalled
    <3>1. lag' = lag \/ ~stalled'
      BY <2>1 DEF vars, pumpVars, StallIndexer, ResumeIndexer, MineBlock, ReorgOrRestart
    <3>2. stalled' /\ Past(a, lag)' => stalled /\ Past(a, lag)
      BY <1>2, <1>5, <2>1, <3>1 DEF Past
    <3> QED BY <3>2 DEF Covers
  <2>2. CASE stalled' # stalled
    <3>1. stalled' => cursor = Len(entries)
      BY <2>2 DEF PromptStep, ClockInv, vars, pumpVars, StallIndexer, ResumeIndexer, MineBlock, ReorgOrRestart
    <3> QED BY <3>1, ReadIsLow
  <2> QED BY <2>1, <2>2
<1> QED BY <1>6, <1>7, <1>8 DEF CoversNext, Covers

-----------------------------------------------------------------------------
(* What an account may still be called upon for                            *)

OutSet(a) == EP!Unanswered(DOMAIN resolved, a)
Out(a) == EP!Holding(OutSet(a))

\* It can be paid with x, or nothing can be made of it after h.
Payable(a, x, h) == Out(a) <= x \/ \A o \in OutSet(a) : EP!Within(o, h)

\* The last moment a claim can still be included, and the last that was open when a's request
\* for a withdrawal must have been read.
Included == now - MaxInclusionTime - 1
Window(a) == matures_at[a] - WithdrawalDelay + MaxIndexerLag + ClaimWindow

Holds(a) ==
  /\ Payable(a, balance[a], Included)
  /\ Past(a, MaxIndexerLag) => Payable(a, Free(a), Window(a))

\* The same of the state after the step.
WithinNext(o, h) ==
  /\ requests'[EP!Behind(o)'].deadline + MaxSettlingTime <= h
  /\ o \in QuoteSlots => quotes'[o].expires_at <= h
PayableNext(a, y, h) == Out(a)' <= y \/ \A o \in OutSet(a)' : WithinNext(o, h)
FreeNext(a) == CP!Available(balance', pending', a)
HoldsNext(a) ==
  /\ PayableNext(a, balance'[a], now' - MaxInclusionTime - 1)
  /\ Past(a, MaxIndexerLag)' =>
       PayableNext(a, FreeNext(a), matures_at'[a] - WithdrawalDelay + MaxIndexerLag + ClaimWindow)

LEMMA HoldsThen == ASSUME NEW a, HoldsNext(a) PROVE Holds(a)'
BY DEF Holds, HoldsNext, Payable, PayableNext, EP!Within, WithinNext, Window, Included,
       Free, FreeNext

LEMMA SameFree == ASSUME NEW a PROVE FreeNext(a) = Free(a)'
BY DEF Free, FreeNext

LEMMA OutTyped ==
  ASSUME IInv, NEW a
  PROVE  /\ Out(a) \in Nat /\ \A o \in OutSet(a) : o \in EP!Owners /\ claims[o] # Vacant
         /\ OutSet(a) = {} => Out(a) = 0
<1>1. OutSet(a) \in SUBSET EP!Owners /\ \A o \in OutSet(a) : claims[o] # Vacant
  BY DEF OutSet, EP!Unanswered, EP!ClaimsOf
<1>2. Out(a) \in Nat
  BY <1>1, EngineInvOf, EngineFits, EP!HoldingNatural DEF EngineAssumptions, Out
<1>3. ASSUME OutSet(a) = {} PROVE Out(a) = 0
  <2>1. EP!Holding({}) = 0
    BY EngineInvOf, EngineFits, EP!HoldingEmpty DEF EngineAssumptions
  <2> QED BY <1>3, <2>1 DEF Out
<1> QED BY <1>1, <1>2, <1>3

OutsNatural == \A a : Out(a) \in Nat
LEMMA OutNatural == IInv => OutsNatural
BY OutTyped DEF OutsNatural
LEMMA OutNaturalNext == IInv' => OutsNatural'
BY OutNatural, PTL

LEMMA OutNext ==
  ASSUME NEW a, NEW N, N = DOMAIN resolved'
  PROVE  OutSet(a)' = EP!Unanswered(N, a)' /\ Out(a)' = EP!Holding(EP!Unanswered(N, a))'
BY DEF OutSet, Out, EP!Holding, EP!Unanswered

\* Claim by claim no more than before.
Remain(a) == \A o \in OutSet(a)' : o \in OutSet(a) /\ EP!TermsStand(o)

(* A command leaves no more, or it checked all of it against the mirror.   *)
LEMMA EngineEases ==
  ASSUME IInv, IInv', [Next]_vars, resolved' = resolved, NEW a \in Accounts
  PROVE  (Out(a)' <= Out(a) /\ Remain(a)) \/ EP!Claimed(claims', a) <= free'[a]
<1>1. PICK N : N = DOMAIN resolved
  OBVIOUS
<1>2. N \in SUBSET RequestSlots
  BY <1>1 DEF IInv, DecidedWanted, Wanted
<1>3. /\ EP!IInv /\ EP!IInv' /\ [EP!Next]_(EP!vars)
  BY EngineInvOf, EngineInvNext, NextMovesEngine, ReaderKnows DEF IInv, EngineInv, EngineMoves
<1>4. EP!Lessens(N, a) \/ EP!Claimed(claims', a) <= free'[a]
  BY <1>2, <1>3, EngineFits, EP!NextLessens DEF EngineAssumptions
<1>5. ASSUME EP!Lessens(N, a) PROVE Out(a)' <= Out(a) /\ Remain(a)
  <2>1. EP!Holding(EP!Unanswered(N, a))' <= EP!Holding(EP!Unanswered(N, a))
    BY <1>3, <1>5, EngineFits, EP!LessensHolding DEF EngineAssumptions
  <2>2. \A o \in EP!Unanswered(N, a)' : o \in EP!Unanswered(N, a) /\ EP!TermsStand(o)
    BY <1>5 DEF EP!Lessens
  <2>3. OutSet(a)' = EP!Unanswered(N, a)' /\ Out(a)' = EP!Holding(EP!Unanswered(N, a))'
    BY <1>1, OutNext
  <2> QED BY <1>1, <2>1, <2>2, <2>3 DEF Remain, Out, OutSet
<1> QED BY <1>4, <1>5

(* What was checked against a mirror that is low can be paid.              *)
LEMMA LowPays ==
  ASSUME IInv', NEW a \in Accounts, NEW x \in Nat, LowNext(a, x), EP!Claimed(claims', a) <= free'[a]
  PROVE  Out(a)' <= x
<1>1. PICK N, h : N = DOMAIN resolved' /\ h = Len(handed')
  OBVIOUS
<1>2. PICK M : M = Awaited(a, h)'
  OBVIOUS
<1>3. N \in SUBSET RequestSlots /\ M \in SUBSET N
  BY <1>1, <1>2 DEF Awaited, IInv, DecidedWanted, Wanted
<1>4. h \in 0 .. Len(entries')
  <2>1. (CP!ReaderTyped /\ CP!HandedInOrder)'
    BY DEF IInv, CP!ReaderInv
  <2> QED BY <1>1, <2>1 DEF CP!ReaderTyped, CP!HandedInOrder, CP!IndexerTypeOK
<1>5. free'[a] <= x + Due(a, h)'
  BY <1>1, <1>4 DEF LowNext, CP!Believes, Dues
<1>6. EP!Apart'
  BY EngineInvNext, EngineFits, EP!ApartNext DEF EngineAssumptions
<1>7. EP!Holding(EP!Unanswered(N, a))' + EP!Listed(M, a)' <= EP!Claimed(claims', a)
  BY <1>3, <1>6 DEF EP!Apart
<1>8. Out(a)' + Due(a, h)' <= EP!Claimed(claims', a)
  BY <1>1, <1>2, <1>7, OutNext, DueNext
<1>9. Out(a)' \in Nat /\ Due(a, h)' \in Nat /\ free'[a] \in Nat
  BY OutNaturalNext, DueNaturalNext, EngineInvNext DEF OutsNatural, DuesNatural, EP!IInv, EP!TypeRest
<1>10. EP!Claimed(claims', a) \in Nat
  <2>1. EP!BookTyped(claims')
    BY EngineInvNext DEF EP!IInv, EP!BookInv
  <2> QED BY <2>1, EngineFits, EP!ClaimedIsSum DEF EngineAssumptions
<1> QED BY <1>5, <1>8, <1>9, <1>10

\* What remains is payable as before, until no earlier.
LEMMA PayableKept ==
  ASSUME IInv, NEW a, Remain(a), NEW x, NEW y, NEW h \in Int, NEW k \in Int, h <= k,
         Out(a) <= x => Out(a)' <= y, Payable(a, x, h)
  PROVE  PayableNext(a, y, k)
<1>1. CASE Out(a) <= x
  BY <1>1 DEF PayableNext
<1>2. CASE \A o \in OutSet(a) : EP!Within(o, h)
  <2>1. ASSUME NEW o \in OutSet(a)' PROVE WithinNext(o, k)
    <3>1. o \in OutSet(a) /\ EP!TermsStand(o)
      BY DEF Remain
    <3>2. o \in EP!Owners /\ claims[o] # Vacant /\ EP!Within(o, h)
      BY <1>2, <3>1, OutTyped
    <3>3. EP!Within(o, k)
      BY <3>2, EngineInvOf, EngineFits, EP!WithinLater DEF EngineAssumptions
    <3> QED BY <3>1, <3>3 DEF EP!Within, EP!TermsStand, WithinNext
  <2> QED BY <2>1 DEF PayableNext
<1> QED BY <1>1, <1>2 DEF Payable

LEMMA CheckedHolds ==
  ASSUME IInv', NEW a \in Accounts, CoversNext(a), EP!Claimed(claims', a) <= free'[a]
  PROVE  HoldsNext(a)
<1>1. balance'[a] \in Nat /\ FreeNext(a) \in Nat
  BY FreeTypedNext, SameFree
<1>2. PICK y, z : y = balance'[a] /\ z = FreeNext(a)
  OBVIOUS
<1>3. LowNext(a, y) /\ (Past(a, MaxIndexerLag)' => LowNext(a, z))
  BY <1>2, SameFree DEF CoversNext
<1>4. Out(a)' <= y /\ (Past(a, MaxIndexerLag)' => Out(a)' <= z)
  BY <1>1, <1>2, <1>3, LowPays
<1> QED BY <1>2, <1>4 DEF HoldsNext, PayableNext

LEMMA HoldsTyped ==
  ASSUME IInv, NEW a \in Accounts
  PROVE  now \in Nat /\ Included \in Int /\ Window(a) \in Int /\ matures_at[a] \in Nat
         /\ Out(a) \in Nat /\ balance[a] \in Nat /\ Free(a) \in Nat
<1>1. now \in Nat /\ matures_at[a] \in Nat /\ balance[a] \in Nat /\ Free(a) \in Nat
  BY FreeTyped, EngineInvOf DEF EP!IInv, EP!TypeRest
<1> QED BY <1>1, Bounds, OutTyped DEF Included, Window

\* Nothing is decided, and the money of a stands.
LEMMA HoldsStand ==
  ASSUME IInv, IInv', [Next]_vars, EP!TermsInv, resolved' = resolved, NEW a \in Accounts,
         MoneyStands(a), now' = now \/ now' = now + 1, Holds(a), CoversNext(a)
  PROVE  HoldsNext(a)
<1>1. CASE EP!Claimed(claims', a) <= free'[a]
  BY <1>1, CheckedHolds
<1>2. CASE Out(a)' <= Out(a) /\ Remain(a)
  <2>1. /\ now \in Nat /\ Included \in Int /\ Window(a) \in Int /\ matures_at[a] \in Nat
        /\ Out(a) \in Nat /\ balance[a] \in Nat /\ Free(a) \in Nat
    BY HoldsTyped
  <2>2. Out(a)' \in Nat
    BY OutNaturalNext DEF OutsNatural
  <2>3. balance'[a] = balance[a] /\ matures_at'[a] = matures_at[a] /\ pending'[a] = pending[a]
    BY DEF MoneyStands
  <2>4. FreeNext(a) = Free(a)
    BY <2>3 DEF Free, FreeNext, CP!Available
  <2>5. PICK x, h, k, w, z : /\ x = balance[a] /\ h = Included /\ k = now' - MaxInclusionTime - 1
                             /\ w = Window(a) /\ z = Free(a)
    OBVIOUS
  <2>6. /\ h \in Int /\ k \in Int /\ h <= k /\ w \in Int
        /\ Out(a) <= x => Out(a)' <= x
        /\ Out(a) <= z => Out(a)' <= z
    BY <1>2, <2>1, <2>2, <2>5, Bounds DEF Included
  <2>7. PayableNext(a, x, k)
    BY <1>2, <2>5, <2>6, PayableKept DEF Holds
  <2>8. CASE Past(a, MaxIndexerLag)
    <3>1. PayableNext(a, z, w)
      BY <1>2, <2>5, <2>6, <2>8, PayableKept DEF Holds
    <3> QED BY <2>3, <2>4, <2>5, <2>7, <3>1 DEF HoldsNext, Window
  <2>9. CASE ~Past(a, MaxIndexerLag)
    <3>1. ASSUME Past(a, MaxIndexerLag)' PROVE PayableNext(a, z, w)
      <4>1. now + WithdrawalDelay <= matures_at[a] + MaxIndexerLag
        BY <2>1, <2>3, <2>9, <3>1, Bounds DEF Past
      <4>2. now + ClaimWindow <= Window(a) /\ now + ClaimWindow \in Int
        BY <2>1, <4>1, Bounds DEF Window
      <4>3. ASSUME NEW o \in OutSet(a) PROVE EP!Within(o, now + ClaimWindow)
        <5>1. o \in EP!Owners /\ claims[o] # Vacant
          BY OutTyped
        <5> QED BY <5>1, EngineInvOf, EngineFits, Bounds, EP!WithinWindow DEF EngineAssumptions
      <4>4. Payable(a, z, now + ClaimWindow)
        BY <4>3 DEF Payable
      <4>5. PICK t : t = now + ClaimWindow
        OBVIOUS
      <4> QED BY <1>2, <2>5, <2>6, <4>2, <4>4, <4>5, PayableKept
    <3> QED BY <2>3, <2>4, <2>5, <2>7, <3>1 DEF HoldsNext, Window
  <2> QED BY <2>8, <2>9
<1> QED BY <1>1, <1>2, EngineEases

LEMMA HoldsServed ==
  ASSUME IInv, IInv', CP!AnnouncedInv, [Next]_vars, Transacts, ClockInv, CP!Serves,
         NEW a \in Accounts, Holds(a), CoversNext(a)
  PROVE  HoldsNext(a)
<1>1. resolved' = resolved /\ (CP!Gains(a) \/ CP!Retires(a) \/ CP!Leaves(a))
  BY DEF CP!Serves
<1>2. CASE EP!Claimed(claims', a) <= free'[a]
  BY <1>2, CheckedHolds
<1>3. CASE Out(a)' <= Out(a) /\ Remain(a)
  <2>1. /\ now \in Nat /\ Included \in Int /\ Window(a) \in Int /\ matures_at[a] \in Nat
        /\ Out(a) \in Nat /\ balance[a] \in Nat /\ Free(a) \in Nat
    BY HoldsTyped
  <2>2. Out(a)' \in Nat /\ balance'[a] \in Nat /\ FreeNext(a) \in Nat /\ pending[a] \in Nat
    BY OutNaturalNext, FreeTyped, FreeTypedNext, SameFree DEF OutsNatural
  <2>3. now' = now /\ chain_now = now
    BY TransactsClock DEF ClockInv
  <2>4. PICK x, y, h, w, z, f : /\ x = balance[a] /\ y = balance'[a] /\ h = Included
                                /\ w = Window(a) /\ z = Free(a) /\ f = FreeNext(a)
    OBVIOUS
  <2>5. CASE CP!Gains(a)
    <3>1. pending'[a] = pending[a] /\ matures_at'[a] = matures_at[a] /\ balance[a] <= balance'[a]
      BY <2>5 DEF CP!Gains
    <3>2. Free(a) <= FreeNext(a)
      BY <2>1, <2>2, <3>1 DEF Free, FreeNext, CP!Available
    <3>3. /\ Out(a) <= x => Out(a)' <= y
          /\ Out(a) <= z => Out(a)' <= f
          /\ h \in Int /\ w \in Int /\ h <= h /\ w <= w
      BY <1>3, <2>1, <2>2, <2>4, <3>1, <3>2
    <3>4. PayableNext(a, y, h)
      BY <1>3, <2>4, <3>3, PayableKept DEF Holds
    <3>5. Past(a, MaxIndexerLag)' => PayableNext(a, f, w)
      <4>1. Past(a, MaxIndexerLag)' => Past(a, MaxIndexerLag)
        BY <2>3, <3>1 DEF Past
      <4> QED BY <1>3, <2>4, <3>3, <4>1, PayableKept DEF Holds
    <3> QED BY <2>3, <2>4, <3>1, <3>4, <3>5 DEF HoldsNext, Included, Window
  <2>6. CASE CP!Retires(a)
    <3>1. balance'[a] = balance[a] /\ matures_at'[a] = now + WithdrawalDelay
      BY <2>3, <2>6 DEF CP!Retires
    <3>2. ~Past(a, MaxIndexerLag)'
      BY <2>1, <2>3, <3>1, Bounds DEF Past
    <3>3. (Out(a) <= x => Out(a)' <= y) /\ h \in Int /\ h <= h
      BY <1>3, <2>1, <2>2, <2>4, <3>1
    <3>4. PayableNext(a, y, h)
      BY <1>3, <2>4, <3>3, PayableKept DEF Holds
    <3> QED BY <2>3, <2>4, <3>2, <3>4 DEF HoldsNext, Included
  <2>7. CASE CP!Leaves(a)
    <3>1. /\ pending[a] # 0 /\ matures_at[a] <= now /\ balance'[a] = Free(a) /\ pending'[a] = 0
      BY <2>3, <2>7 DEF CP!Leaves, Free
    <3>2. Past(a, MaxIndexerLag) /\ ~Past(a, MaxIndexerLag)'
      BY <2>1, <3>1, Bounds DEF Past
    <3>3. (Out(a) <= z => Out(a)' <= y) /\ h \in Int /\ w \in Int /\ w <= h
      BY <1>3, <2>1, <2>2, <2>4, <3>1, Bounds DEF Included, Window
    <3>4. PayableNext(a, y, h)
      BY <1>3, <2>4, <3>2, <3>3, PayableKept DEF Holds
    <3> QED BY <2>3, <2>4, <3>2, <3>4 DEF HoldsNext, Included
  <2> QED BY <1>1, <2>5, <2>6, <2>7
<1> QED BY <1>1, <1>2, <1>3, EngineEases

\* An answer takes what is on its list out, and no more than that leaves the balance.
LEMMA HoldsAnswered ==
  ASSUME IInv, IInv', NEW a \in Accounts, UNCHANGED <<now, requests, quotes, claims, pending, matures_at>>,
         NEW r \in RequestSlots, r \notin DOMAIN resolved, DOMAIN resolved' = DOMAIN resolved \cup {r},
         NEW T \in SUBSET EP!Share(r, a), NEW d \in Nat, EP!Holding(T) = d,
         balance'[a] = balance[a] - d, Holds(a)
  PROVE  HoldsNext(a)
<1>1. PICK N : N = DOMAIN resolved
  OBVIOUS
<1>2. N \in SUBSET RequestSlots /\ r \in RequestSlots \ N
  BY <1>1 DEF IInv, DecidedWanted, Wanted
<1>3. /\ EP!Unanswered(N \cup {r}, a) \subseteq EP!Unanswered(N, a)
      /\ EP!Holding(EP!Unanswered(N \cup {r}, a)) + EP!Holding(T) <= EP!Holding(EP!Unanswered(N, a))
  BY <1>2, EngineInvOf, EngineFits, EP!AnswerLessens DEF EngineAssumptions
<1>4. PICK S : S = EP!Unanswered(N \cup {r}, a)
  OBVIOUS
<1>5. OutSet(a)' = S /\ Out(a)' = EP!Holding(S)
  BY <1>1, <1>4 DEF OutSet, Out, EP!Holding, EP!Unanswered, EP!ClaimExpired
<1>6. Remain(a) /\ Out(a)' + d <= Out(a)
  <2>1. \A o : EP!TermsStand(o)
    BY DEF EP!TermsStand, EP!Behind
  <2> QED BY <1>1, <1>3, <1>4, <1>5, <2>1 DEF Remain, Out, OutSet
<1>7. /\ now \in Nat /\ Included \in Int /\ Window(a) \in Int /\ matures_at[a] \in Nat
      /\ Out(a) \in Nat /\ balance[a] \in Nat /\ Free(a) \in Nat
  BY HoldsTyped
<1>8. Out(a)' \in Nat /\ balance'[a] \in Nat /\ FreeNext(a) \in Nat /\ pending[a] \in Nat
  BY OutNaturalNext, FreeTyped, FreeTypedNext, SameFree DEF OutsNatural
<1>9. Free(a) <= FreeNext(a) + d
  BY <1>7, <1>8 DEF Free, FreeNext, CP!Available
<1>10. PICK x, y, h, w, z, f : /\ x = balance[a] /\ y = balance'[a] /\ h = Included
                               /\ w = Window(a) /\ z = Free(a) /\ f = FreeNext(a)
  OBVIOUS
<1>11. /\ Out(a) <= x => Out(a)' <= y
       /\ Out(a) <= z => Out(a)' <= f
       /\ h \in Int /\ w \in Int /\ h <= h /\ w <= w
  BY <1>6, <1>7, <1>8, <1>9, <1>10
<1>12. PayableNext(a, y, h)
  BY <1>6, <1>10, <1>11, PayableKept DEF Holds
<1>13. Past(a, MaxIndexerLag)' => PayableNext(a, f, w)
  BY <1>6, <1>10, <1>11, PayableKept DEF Holds, Past
<1> QED BY <1>10, <1>12, <1>13 DEF HoldsNext, Included, Window

LEMMA TransactsHold ==
  ASSUME IInv, IInv', CP!AnnouncedInv, [Next]_vars, Transacts, ClockInv, BackedInv,
         NEW a \in Accounts, Holds(a), CoversNext(a)
  PROVE  HoldsNext(a)
<1>1. UNCHANGED <<now, requests, quotes, claims>>
  BY TransactsClock
<1>2. ASSUME NEW b \in CP!Bundle, CP!Settles(b) PROVE HoldsNext(a)
  <2>1. /\ queue # <<>> /\ b = Head(queue) /\ b.nonce \notin DOMAIN resolved
        /\ CP!Resolve(b.nonce, "Settled")
        /\ balance'[a] = balance[a] - CP!Debit(b, a) /\ UNCHANGED <<pending, matures_at>>
    BY <1>2 DEF CP!Settles, CP!Answered
  <2>2. queue \in Seq(Sent) /\ queue \in Seq(BackedBundles)
    BY DEF IInv, AdapterInv, BackedInv
  <2>3. Head(queue) \in Sent /\ Head(queue) \in BackedBundles
    BY <2>1, <2>2
  <2>4. b \in Good /\ b.nonce \in Wanted
    BY <2>1, <2>3 DEF Sent
  <2>5. Backed(b)
    BY <2>1, <2>3 DEF BackedBundles
  <2>6. PICK T \in SUBSET EP!Share(b.nonce, a) :
          EP!Holding(T) = CP!Debit(b, a) /\ CP!Debit(b, a) \in Nat
    BY <2>1, <2>4, <2>5, BackedHolds
  <2>7. DOMAIN resolved' = DOMAIN resolved \cup {b.nonce}
    BY <2>1 DEF CP!Resolve
  <2>8. b.nonce \in RequestSlots
    BY <2>4 DEF Wanted
  <2>9. PICK r, d : r = b.nonce /\ d = CP!Debit(b, a)
    OBVIOUS
  <2> QED BY <1>1, <2>1, <2>6, <2>7, <2>8, <2>9, HoldsAnswered
<1>3. ASSUME NEW b \in CP!Bundle, CP!Reverts(b) PROVE HoldsNext(a)
  <2>1. /\ queue # <<>> /\ b = Head(queue) /\ b.nonce \notin DOMAIN resolved
        /\ CP!Resolve(b.nonce, "Reverted") /\ UNCHANGED <<balance, pending, matures_at>>
    BY <1>3 DEF CP!Reverts, CP!Answered
  <2>2. queue \in Seq(Sent)
    BY DEF IInv, AdapterInv
  <2>3. b.nonce \in RequestSlots
    <3>1. Head(queue) \in Sent
      BY <2>1, <2>2
    <3> QED BY <2>1, <3>1 DEF Sent, Wanted
  <2>4. DOMAIN resolved' = DOMAIN resolved \cup {b.nonce}
    BY <2>1 DEF CP!Resolve
  <2>5. EP!Holding({}) = 0 /\ {} \in SUBSET EP!Share(b.nonce, a)
    BY EngineInvOf, EngineFits, EP!HoldingEmpty DEF EngineAssumptions
  <2>6. balance'[a] = balance[a] - 0
    BY <2>1, FreeTyped
  <2>7. PICK r, T, d : r = b.nonce /\ T = {} /\ d = 0
    OBVIOUS
  <2>8. /\ r \in RequestSlots /\ r \notin DOMAIN resolved /\ DOMAIN resolved' = DOMAIN resolved \cup {r}
        /\ T \in SUBSET EP!Share(r, a) /\ d \in Nat /\ EP!Holding(T) = d
        /\ balance'[a] = balance[a] - d
    BY <2>1, <2>3, <2>4, <2>5, <2>6, <2>7
  <2> QED BY <1>1, <2>1, <2>8, HoldsAnswered
<1> QED BY <1>2, <1>3, TransactsServe, HoldsServed

-----------------------------------------------------------------------------
(* Every bundle stays backed                                               *)

Pledges(r) ==
  \E w \in [EP!LegsOf(r) -> QuoteSlots] :
    (\A l \in EP!LegsOf(r) : chain[r][l] = {w[l]}) /\ EP!PledgedBy(r, w)
PledgedBundled ==
  \A r \in RequestSlots : E!InState(r, "Settling") /\ Pledges(r) => BundleOf(r) \in BackedBundles
Termed == EP!FundsInv /\ EP!TermsInv /\ now \in 0 .. MaxTime

\* A leg of the bundle says what the quote that won it says.
SaysWon(r, q, l) ==
  /\ BundleLeg(r, l) \in Leg
  /\ BundleLeg(r, l).maker = EP!WonLeg(r, q, l).maker
  /\ BundleLeg(r, l).quote_expiry = EP!WonLeg(r, q, l).quote_expiry
  /\ BundleLeg(r, l).maker_contribution = EP!WonLeg(r, q, l).maker_contribution
  /\ BundleLeg(r, l).requester_contribution = EP!WonLeg(r, q, l).requester_contribution

LEMMA LegSaysWon ==
  ASSUME Termed, NEW r \in RequestSlots, requests[r] \in EP!Request, requests[r] # Vacant,
         NEW l \in DOMAIN requests[r].legs, requests[r].legs[l] \in EP!LegSpec,
         NEW q \in QuoteSlots, quotes[q] # Vacant, chain[r][l] = {q}
  PROVE  SaysWon(r, q, l)
<1> DEFINE spec == requests[r].legs[l]
           quote == quotes[q]
<1>1. EP!FundsInv /\ now \in 0 .. MaxTime
  BY DEF Termed
<1>2. quote \in EP!Quote
  BY <1>1 DEF EP!FundsInv, EP!MInv, EP!IInv, EP!TypeRest
<1>3. quote.maker \in Makers /\ quote.price \in Prices /\ quote.expires_at <= now + MaxQuoteTtl
  BY DEF Termed, EP!TermsInv, EP!QuoteTerms
<1>4. spec.size \in Sizes
  BY DEF Termed, EP!TermsInv, EP!RequestTerms
<1>5. spec.contract \in Contracts
  BY DEF EP!LegSpec
<1>6. quote.expires_at \in 0 .. (MaxTime + MaxQuoteTtl)
  <2>1. quote.expires_at \in Nat
    BY <1>2 DEF EP!Quote
  <2> HIDE DEF quote
  <2> QED BY <1>1, <1>3, <2>1, SettlementConstants
<1>7. (CHOOSE p \in chain[r][l] : TRUE) = q
  <2>1. \E p \in chain[r][l] : TRUE
    OBVIOUS
  <2>2. (CHOOSE p \in chain[r][l] : TRUE) \in chain[r][l]
    BY <2>1
  <2> QED BY <2>2
<1> DEFINE bid == spec.size * (UNIT - quote.price)
           paid == spec.size * quote.price
<1>8. BundleLeg(r, l) =
         [contract |-> spec.contract, side |-> "Yes", maker |-> quote.maker,
          maker_contribution |-> bid, requester_contribution |-> paid,
          quote_expiry |-> quote.expires_at]
  BY <1>7 DEF BundleLeg, E!MakerContribution
<1>9. /\ bid \in {UNIT * t - p * t : t \in Sizes, p \in Prices}
       /\ paid \in {p * t : t \in Sizes, p \in Prices}
  <2>1. UNIT \in Nat /\ Sizes \subseteq Nat /\ Prices \subseteq Nat
    BY SettlementConstants
  <2>2. \A t, p \in Nat : t * (UNIT - p) = UNIT * t - p * t /\ t * p = p * t
    BY <2>1
  <2> HIDE DEF spec, quote
  <2>3. bid = UNIT * spec.size - quote.price * spec.size /\ paid = quote.price * spec.size
    BY <1>3, <1>4, <2>1, <2>2
  <2> HIDE DEF bid, paid
  <2> QED BY <1>3, <1>4, <2>3
<1>10. BundleLeg(r, l) \in Leg
  <2> HIDE DEF spec, quote, bid, paid
  <2> QED BY <1>3, <1>5, <1>6, <1>8, <1>9 DEF Leg
<1>11. EP!WonLeg(r, q, l) =
         [maker |-> quote.maker, quote_expiry |-> quote.expires_at,
          maker_contribution |-> bid, requester_contribution |-> paid]
  BY DEF EP!WonLeg, EP!MakerContribution
<1> HIDE DEF spec, quote, bid, paid
<1> QED BY <1>8, <1>10, <1>11 DEF SaysWon

LEMMA BundlesBacked == Termed => PledgedBundled
<1> SUFFICES ASSUME Termed, NEW r \in RequestSlots, E!InState(r, "Settling"), Pledges(r)
             PROVE  BundleOf(r) \in BackedBundles
  BY DEF PledgedBundled
<1>1. PICK w \in [EP!LegsOf(r) -> QuoteSlots] :
        (\A l \in EP!LegsOf(r) : chain[r][l] = {w[l]}) /\ EP!PledgedBy(r, w)
  BY DEF Pledges
<1>2. requests[r] \in EP!Request /\ requests[r] # Vacant
  <2>1. Typed
    BY EngineTyped DEF Termed
  <2> QED BY <2>1 DEF Typed, E!InState
<1>3. PICK n \in 1 .. MaxLegs : /\ requests[r].legs \in Seq(EP!LegSpec) /\ EP!LegsOf(r) = 1 .. n
                               /\ n \in Nat /\ DOMAIN requests[r].legs = 1 .. n
  <2>1. requests[r].legs \in Seq(EP!LegSpec) /\ Len(requests[r].legs) \in 1 .. MaxLegs
    BY <1>2 DEF EP!Request, EP!Basket, EP!LegIds
  <2>2. Len(requests[r].legs) \in Nat /\ DOMAIN requests[r].legs = 1 .. Len(requests[r].legs)
    BY <2>1
  <2> QED BY <2>1, <2>2 DEF EP!LegsOf
<1> DEFINE won == [l \in EP!LegsOf(r) |-> EP!WonLeg(r, w[l], l)]
           legs == [l \in DOMAIN requests[r].legs |-> BundleLeg(r, l)]
<1>4. EP!Pledged(r, w, requests[r].requester, won)
  BY <1>1 DEF EP!PledgedBy
<1>5. ASSUME NEW l \in 1 .. n PROVE SaysWon(r, w[l], l)
  <2>1. w[l] \in QuoteSlots /\ chain[r][l] = {w[l]}
    BY <1>1, <1>3
  <2>2. quotes[w[l]] # Vacant
    BY <1>3, <1>4 DEF EP!Pledged, EP!PledgedLeg
  <2>3. requests[r].legs[l] \in EP!LegSpec
    BY <1>3
  <2> QED BY <1>2, <1>3, <2>1, <2>2, <2>3, LegSaysWon
<1>6. /\ DOMAIN won = 1 .. n /\ \A l \in 1 .. n : won[l] = EP!WonLeg(r, w[l], l)
      /\ DOMAIN legs = 1 .. n /\ \A l \in 1 .. n : legs[l] = BundleLeg(r, l)
      /\ w \in [DOMAIN legs -> QuoteSlots]
  BY <1>3
<1>7. legs \in [1 .. n -> Leg]
  BY <1>3, <1>5 DEF SaysWon
<1>8. BundleOf(r) = [nonce |-> r, requester |-> requests[r].requester, legs |-> legs]
  BY DEF BundleOf
<1> HIDE DEF won, legs
<1>9. EP!Pledged(r, w, requests[r].requester, legs)
  <2>1. PICK a : a = requests[r].requester
    OBVIOUS
  <2>2. \A l \in DOMAIN won :
          /\ legs[l].maker = won[l].maker /\ legs[l].quote_expiry = won[l].quote_expiry
          /\ legs[l].maker_contribution = won[l].maker_contribution
          /\ legs[l].requester_contribution = won[l].requester_contribution
    BY <1>5, <1>6 DEF SaysWon
  <2>3. DOMAIN legs = DOMAIN won
    BY <1>6
  <2>4. EP!Pledged(r, w, a, won)
    BY <1>4, <2>1
  <2>5. PICK others, some : others = legs /\ some = won
    OBVIOUS
  <2>6. EP!Pledged(r, w, a, others)
    BY <2>2, <2>3, <2>4, <2>5, EngineFits, EP!PledgedAlike DEF EngineAssumptions
  <2> QED BY <2>1, <2>5, <2>6
<1>10. BundleOf(r) \in Bundles
  <2>1. requests[r].requester \in Requesters
    BY <1>2 DEF Termed, EP!TermsInv, EP!RequestTerms
  <2>2. legs \in UNION {[1 .. k -> Leg] : k \in 1 .. MaxLegs}
    BY <1>7
  <2> QED BY <1>8, <2>1, <2>2 DEF Bundles
<1>11. Backed(BundleOf(r))
  BY <1>6, <1>8, <1>9 DEF Backed
<1> QED BY <1>10, <1>11 DEF BackedBundles

LEMMA BundlesBackedNext == Termed' => PledgedBundled'
BY BundlesBacked, PTL

\* What stands behind a bundle stands while its request settles.
LEMMA BackedStands ==
  ASSUME IInv, [Next]_vars, EngineEvent, NEW b \in BackedBundles, b.nonce \in Wanted
  PROVE  b \in BackedBundles'
<1>1. b \in Bundles /\ Backed(b)
  BY DEF BackedBundles
<1> DEFINE r == b.nonce
           a == b.requester
           legs == b.legs
<1>2. r \in RequestSlots
  BY DEF Wanted
<1>3. ASSUME E!InState(r, "Settling")'
      PROVE  \E w \in [DOMAIN legs -> QuoteSlots] : EP!Pledged(r, w, a, legs)'
  <2>1. E!InState(r, "Settling")
    BY <1>2, <1>3 DEF Wanted, EngineEvent, Opens, Shifts, Learns, Others, E!InState, Belief
  <2>2. PICK w \in [DOMAIN legs -> QuoteSlots] : EP!Pledged(r, w, a, legs)
    BY <1>1, <2>1 DEF Backed
  <2>3. EP!InState(r, "Settling") /\ EP!InState(r, "Settling")'
    BY <1>3, <2>1 DEF E!InState, EP!InState
  <2>4. EP!MInv /\ EP!RequesterHolds /\ [EP!Next]_(EP!vars)
    BY NextMovesEngine, ReaderKnows DEF IInv, EngineInv, EngineMoves, EP!FundsInv
  <2> HIDE DEF r, a, legs
  <2>5. \A l \in DOMAIN legs : w[l] \in QuoteSlots
    OBVIOUS
  <2>6. EP!Pledged(r, w, a, legs)'
    BY <1>2, <2>2, <2>3, <2>4, <2>5, EngineFits, EP!PledgeStands DEF EngineAssumptions
  <2> QED BY <2>6
<1> QED BY <1>1, <1>3 DEF Backed, BackedBundles

LEMMA SeqInto ==
  ASSUME NEW S, NEW T, NEW q \in Seq(S), \A i \in 1 .. Len(q) : q[i] \in T
  PROVE  q \in Seq(T)
<1>1. q \in [1 .. Len(q) -> T] /\ Len(q) \in Nat
  OBVIOUS
<1> QED BY <1>1, FunctionIsSeq

LEMMA QueueStands ==
  ASSUME IInv, [Next]_vars, EngineEvent, NEW q \in Seq(BackedBundles), q \in Seq(Sent)
  PROVE  q \in Seq(BackedBundles')
<1>1. PICK S, T : S = BackedBundles /\ T = BackedBundles'
  OBVIOUS
<1>2. ASSUME NEW i \in 1 .. Len(q) PROVE q[i] \in T
  <2>1. q[i] \in BackedBundles /\ q[i] \in Sent
    OBVIOUS
  <2>2. q[i].nonce \in Wanted
    BY <2>1 DEF Sent
  <2> QED BY <1>1, <2>1, <2>2, BackedStands
<1> QED BY <1>1, <1>2, SeqInto

\* The bundle of the request that is accepted now.
LEMMA AcceptedBacked ==
  ASSUME IInv, IInv', EP!TermsInv', [Next]_vars, NEW r \in RequestSlots, Shifts(r, "Open", "Settling")
  PROVE  BundleOf(r)' \in BackedBundles'
<1>1. /\ EP!IInv /\ EP!IInv' /\ [EP!Next]_(EP!vars) /\ EP!PricesWithinUnit
  BY EngineInvOf, EngineInvNext, NextMovesEngine, ReaderKnows
     DEF IInv, EngineInv, EngineMoves, EP!MInv
<1>2. E!InState(r, "Open") /\ E!InState(r, "Settling")' /\ EP!LegsOf(r)' = EP!LegsOf(r)
  BY DEF Shifts, E!InState, EP!LegsOf
<1>3. EP!InState(r, "Settling")' /\ ~EP!InState(r, "Settling")
  BY <1>2 DEF E!InState, EP!InState
<1>4. EP!AcceptsNow(r)
  BY <1>1, <1>3, EngineFits, EP!SettlingByAccept DEF EngineAssumptions
<1>5. \E w \in [EP!LegsOf(r) -> QuoteSlots] :
        (\A l \in EP!LegsOf(r) : chain'[r][l] = {w[l]}) /\ EP!PledgedBy(r, w)'
  BY <1>1, <1>4, EngineFits, EP!AcceptPledges DEF EngineAssumptions
<1>6. Termed'
  BY EngineInvNext DEF Termed, IInv, EngineInv
<1> QED BY <1>2, <1>5, <1>6, BundlesBackedNext DEF PledgedBundled, Pledges

LEMMA ToldIntends ==
  ASSUME IInv, NEW payload \in Notices, Told(payload)
  PROVE  Intents = {}
<1>1. CASE payload.kind = "BalanceChanged" /\ E!CreditAccount(payload.account, payload.available)
  BY <1>1, CreditFate DEF Stands
<1>2. CASE payload.kind = "SettlementResolved" /\ E!PollSettlement(payload.nonce, payload.status)
  <2>1. PICK r, status : r = payload.nonce /\ status = payload.status
    OBVIOUS
  <2>2. r \in RequestSlots /\ E!PollSettlement(r, status)
    BY <1>2, <2>1 DEF Notices
  <2>3. Typed
    BY EngineTyped DEF IInv, EngineInv
  <2> QED BY <2>2, <2>3, PollFate DEF Stands, Answers
<1> QED BY <1>1, <1>2 DEF Told

LEMMA EngineBacked ==
  ASSUME IInv, IInv', EP!TermsInv', [Next]_vars, BackedInv, Asks \/ Pump
  PROVE  BackedInv'
<1>1. /\ EngineEvent /\ UNCHANGED <<in_flight, queue>>
  BY EngineInvNext, EngineEvents, GoodBundles DEF IInv, AdapterInv, custodyVars
<1>2. PICK S : S = BackedBundles'
  OBVIOUS
<1>3. outbox \in Seq(S) /\ in_flight' \in Seq(S) /\ queue' \in Seq(S)
  BY <1>1, <1>2, QueueStands DEF BackedInv, IInv, AdapterInv
<1>4. CASE Asks
  <2>1. Fate /\ IntentsTaken
    BY <1>4, AsksFate, AsksCommand DEF IInv, EngineInv
  <2>2. ASSUME Intents = {} PROVE outbox' \in Seq(S)
    <3>1. outbox' = outbox
      BY <1>3, <2>1, <2>2, NoIntentNoBundle
    <3> QED BY <1>3, <3>1
  <2>3. ASSUME NEW r \in RequestSlots, Shifts(r, "Open", "Settling"), Intents = {r}
        PROVE  outbox' \in Seq(S)
    <3>1. BundleOf(r)' \in S
      BY <1>2, <2>3, AcceptedBacked
    <3>2. outbox' = Append(outbox, BundleOf(r)')
      BY <1>3, <2>1, <2>3, <3>1, OneIntentOneBundle
    <3> QED BY <1>3, <3>1, <3>2
  <2>4. outbox' \in Seq(S)
    BY <1>3, <2>1, <2>2, <2>3 DEF Fate, Stands
  <2> QED BY <1>2, <1>3, <2>4 DEF BackedInv
<1>5. CASE Pump
  <2>1. CASE UNCHANGED <<engineVars, handed, outbox>>
    BY <1>2, <1>3, <2>1 DEF BackedInv
  <2>2. CASE Upcoming \in 1 .. Len(entries) /\ Told(entries[Upcoming].payload) /\ IntentsTaken
    <3>1. entries[Upcoming].payload \in Notices
      BY <2>2, ReaderKnows DEF IInv
    <3>2. outbox' = outbox
      BY <1>3, <2>2, <3>1, ToldIntends, NoIntentNoBundle
    <3> QED BY <1>2, <1>3, <3>2 DEF BackedInv
  <2> QED BY <1>5, <2>1, <2>2, PumpReads
<1> QED BY <1>4, <1>5

LEMMA BackedSame ==
  ASSUME UNCHANGED <<requests, quotes, claims>> PROVE BackedBundles' = BackedBundles
BY DEF BackedBundles, Backed, E!InState, EP!Pledged, EP!PledgedLeg

LEMMA TransactsBacked ==
  ASSUME Transacts, BackedInv
  PROVE  BackedInv'
<1>1. PICK S : S = BackedBundles /\ S = BackedBundles'
  BY TransactsClock, BackedSame
<1>2. outbox \in Seq(S) /\ in_flight \in Seq(S) /\ queue \in Seq(S)
  BY <1>1 DEF BackedInv
<1>3. SUFFICES outbox' \in Seq(S) /\ in_flight' \in Seq(S) /\ queue' \in Seq(S)
  BY <1>1 DEF BackedInv
<1>4. CASE Deposit \/ RequestWithdrawal \/ ExecuteWithdrawal
  <2>1. UNCHANGED <<outbox, in_flight, queue>>
    BY <1>4 DEF Deposit, RequestWithdrawal, ExecuteWithdrawal, Transact, C!Deposit,
                C!RequestWithdrawal, C!ExecuteWithdrawal, adapterVars
  <2> QED BY <1>2, <2>1
<1>5. CASE SubmitPending
  <2>1. /\ outbox # <<>> /\ outbox' = Tail(outbox) /\ in_flight' = Append(in_flight, Head(outbox))
        /\ queue' = Append(queue, Head(outbox))
    BY <1>5 DEF SubmitPending, Transact, C!Submit
  <2>2. Head(outbox) \in S /\ Tail(outbox) \in Seq(S)
    BY <1>2, <2>1
  <2> QED BY <1>2, <2>1, <2>2
<1>6. CASE LoseNextSubmission
  <2>1. queue # <<>> /\ queue' = Tail(queue) /\ UNCHANGED <<outbox, in_flight>>
    BY <1>6 DEF LoseNextSubmission, Transact, C!DropNextSubmission
  <2> QED BY <1>2, <2>1
<1>7. CASE Include
  <2>1. queue # <<>> /\ queue' = Tail(queue) /\ UNCHANGED <<outbox, in_flight>>
    BY <1>7 DEF Include, Transact, C!IncludeNext, adapterVars
  <2> QED BY <1>2, <2>1
<1>8. ASSUME NEW r \in RequestSlots, Resubmit(r)
      PROVE  outbox' \in Seq(S) /\ in_flight' \in Seq(S) /\ queue' \in Seq(S)
  <2> DEFINE i == Min(Kept(r))
  <2>1. /\ Kept(r) # {} /\ queue' = Append(queue, in_flight[i]) /\ UNCHANGED <<outbox, in_flight>>
    BY <1>8 DEF Resubmit, Transact, C!Submit, adapterVars
  <2>2. i \in DOMAIN in_flight
    <3>1. Kept(r) \in SUBSET Nat /\ Kept(r) \subseteq DOMAIN in_flight
      BY <1>2 DEF Kept
    <3>2. \E x \in Kept(r) : \A y \in Kept(r) : x <= y
      BY <2>1, <3>1, LeastNatural
    <3>3. i \in Kept(r)
      BY <3>2 DEF Min
    <3> QED BY <3>1, <3>3
  <2> HIDE DEF i
  <2>3. in_flight[i] \in S
    BY <1>2, <2>2
  <2> QED BY <1>2, <2>1, <2>3
<1> QED BY <1>4, <1>5, <1>6, <1>7, <1>8 DEF Transacts

-----------------------------------------------------------------------------
(* The invariant of the timelock                                           *)

\* Until a reorg takes an entry back.
SteadyInv ==
  /\ ClockInv /\ BackedInv
  /\ \A a \in Accounts : Covers(a) /\ Holds(a)

TimelockInv ==
  /\ IInv /\ MirrorInv /\ EP!TermsInv
  /\ reorgs = 0 => SteadyInv

LEMMA TimelockStarts == Init => TimelockInv
<1> SUFFICES ASSUME Init PROVE TimelockInv
  OBVIOUS
<1>1. IInv /\ MirrorInv
  BY StartsInv, MirrorStarts
<1>2. /\ now = 0 /\ chain_now = 0 /\ stalled = FALSE /\ lag = 0 /\ reorgs = 0
      /\ cursor = 0 /\ entries = <<>> /\ outbox = <<>> /\ in_flight = <<>> /\ queue = <<>>
      /\ \A a \in Accounts : /\ balance[a] = 0 /\ pending[a] = 0 /\ matures_at[a] = 0
                             /\ free[a] = 0
      /\ \A r \in RequestSlots : requests[r] = Vacant
      /\ \A q \in QuoteSlots : quotes[q] = Vacant
      /\ \A o \in EP!Owners : claims[o] = Vacant
  BY DEF Init, E!Init, C!CustodyInit, C!LogInit, E!Owners, EP!Owners
<1>3. EP!TermsInv
  BY <1>2 DEF EP!TermsInv
<1>4. ClockInv /\ BackedInv
  <2>1. 0 \in 0 .. MaxIndexerLag
    BY SettlementConstants
  <2>2. \A S : <<>> \in Seq(S)
    OBVIOUS
  <2> QED BY <1>2, <2>1, <2>2 DEF ClockInv, BackedInv
<1>5. ASSUME NEW a \in Accounts PROVE Covers(a) /\ Holds(a)
  <2>1. Low(a, balance[a])
    <3>1. CP!AnnouncedInv /\ cursor = Len(entries) /\ 0 \in Nat /\ free[a] <= 0
      BY <1>1, <1>2 DEF MirrorInv
    <3> QED BY <1>1, <1>2, <3>1, LowRead
  <2>2. ~Past(a, MaxIndexerLag) /\ ~Past(a, lag)
    BY <1>2 DEF Past
  <2>3. OutSet(a) = {}
    BY <1>2 DEF OutSet, EP!Unanswered, EP!ClaimsOf
  <2>4. Payable(a, balance[a], Included)
    BY <2>3 DEF Payable
  <2>5. matures_at[a] <= now + WithdrawalDelay
    BY <1>2, Bounds
  <2> QED BY <2>1, <2>2, <2>4, <2>5 DEF Covers, Holds
<1> QED BY <1>1, <1>3, <1>4, <1>5 DEF TimelockInv, SteadyInv

\* Nothing but a reorg adds to those that were.
LEMMA SteadyBefore ==
  ASSUME [Next]_vars, ClockInv \/ reorgs # 0, MirrorInv, reorgs' = 0, IInv
  PROVE  reorgs = 0
<1>1. reorgs \in Nat
  BY DEF MirrorInv
<1>2. CASE Asks \/ Pump \/ Transacts
  <2>1. UNCHANGED chainVars
    BY <1>2, AsksAround, PumpReads, TransactsAround
  <2> QED BY <2>1 DEF chainVars
<1>3. CASE Tick
  BY <1>3 DEF Tick, Clocks, chainVars
<1>4. CASE UNCHANGED vars \/ StallIndexer \/ ResumeIndexer \/ MineBlock \/ ReorgOrRestart
  BY <1>1, <1>4, RestMeans DEF Idle
<1> QED BY <1>2, <1>3, <1>4, NextKinds

LEMMA ClockKeeps ==
  ASSUME IInv, [Next]_vars, ClockInv, MirrorInv, reorgs' = 0, MaxSkew = 0
  PROVE  ClockInv'
<1>1. now \in Nat /\ lag \in 0 .. MaxIndexerLag /\ MaxIndexerLag \in Nat
  BY Bounds DEF ClockInv
<1>2. CASE Asks \/ Pump \/ Transacts
  <2>1. UNCHANGED <<chain_now, stalled, lag>>
    BY <1>2, AsksAround, PumpReads, TransactsClock DEF custodyVars, pumpVars
  <2>2. now' = now
    <3>1. CASE Asks
      BY <3>1, AsksNow
    <3>2. CASE Pump
      BY <3>2, PumpNow
    <3> QED BY <1>2, <3>1, <3>2, TransactsClock
  <2> QED BY <2>1, <2>2 DEF ClockInv
<1>3. CASE Tick
  <2>1. /\ now' = now + 1 /\ chain_now' = chain_now + 1 /\ stalled' = stalled
        /\ stalled => lag < MaxIndexerLag /\ lag' = lag + 1
        /\ ~stalled => lag' = lag
    BY <1>3, TickMeans
  <2> QED BY <1>1, <2>1 DEF ClockInv
<1>4. CASE UNCHANGED vars \/ StallIndexer \/ ResumeIndexer \/ MineBlock \/ ReorgOrRestart
  <2>1. UNCHANGED <<now, chain_now>>
    BY <1>4, RestMeans DEF MirrorInv
  <2>2. stalled' \in BOOLEAN /\ lag' \in 0 .. MaxIndexerLag /\ (stalled' \/ lag' = 0)
    <3>1. \/ UNCHANGED <<stalled, lag>>
          \/ stalled' = TRUE /\ lag' = lag
          \/ stalled' = FALSE /\ lag' = 0
      BY <1>4 DEF StallIndexer, ResumeIndexer, MineBlock, ReorgOrRestart, vars, pumpVars
    <3>2. stalled \in BOOLEAN /\ (stalled \/ lag = 0)
      BY DEF ClockInv
    <3>3. stalled' \in BOOLEAN
      BY <3>1, <3>2
    <3>4. lag' \in 0 .. MaxIndexerLag
      BY <1>1, <3>1
    <3> QED BY <3>1, <3>2, <3>3, <3>4
  <2> QED BY <2>1, <2>2 DEF ClockInv
<1> QED BY <1>2, <1>3, <1>4, NextKinds

LEMMA BackedKeeps ==
  ASSUME IInv, IInv', EP!TermsInv', [Next]_vars, ClockInv, BackedInv, MirrorInv, reorgs' = 0,
         MaxSkew = 0
  PROVE  BackedInv'
<1>1. CASE Asks \/ Pump
  BY <1>1, EngineBacked
<1>2. CASE Transacts
  BY <1>2, TransactsBacked
<1>3. CASE UNCHANGED vars \/ StallIndexer \/ ResumeIndexer \/ MineBlock \/ ReorgOrRestart \/ Tick
  <2>1. Idle
    BY <1>3, TickMeans, RestMeans DEF MirrorInv
  <2>2. BackedBundles' = BackedBundles
    BY <2>1, BackedSame DEF Idle
  <2> QED BY <2>1, <2>2 DEF Idle, BackedInv
<1> QED BY <1>1, <1>2, <1>3, NextKinds

LEMMA CoversKeep ==
  ASSUME IInv, IInv', [Next]_vars, MirrorInv, reorgs = 0, reorgs' = 0, MaxSkew = 0, PromptStep,
         ClockInv, BackedInv, NEW a \in Accounts, Covers(a)
  PROVE  CoversNext(a)
<1>1. CP!AnnouncedInv
  BY DEF MirrorInv
<1>2. CASE Asks \/ Pump
  BY <1>1, <1>2, AsksCover, PumpCovers
<1>3. CASE Transacts
  BY <1>1, <1>3, TransactsCover
<1>4. CASE Tick
  BY <1>4, TickCovers
<1>5. CASE UNCHANGED vars \/ StallIndexer \/ ResumeIndexer \/ MineBlock \/ ReorgOrRestart
  BY <1>5, RestCovers
<1> QED BY <1>2, <1>3, <1>4, <1>5, NextKinds

LEMMA HoldsKeep ==
  ASSUME IInv, IInv', [Next]_vars, MirrorInv, EP!TermsInv, reorgs = 0, reorgs' = 0, MaxSkew = 0,
         ClockInv, BackedInv, NEW a \in Accounts, Holds(a), CoversNext(a)
  PROVE  HoldsNext(a)
<1>1. CP!AnnouncedInv
  BY DEF MirrorInv
<1>2. CASE Transacts
  BY <1>1, <1>2, TransactsHold
<1>3. CASE Asks \/ Pump
  <2>1. UNCHANGED <<resolved, balance, pending, matures_at>> /\ now' = now
    BY <1>3, AsksAround, PumpReads, AsksNow, PumpNow DEF custodyVars
  <2> QED BY <2>1, HoldsStand DEF MoneyStands
<1>4. CASE Tick
  BY <1>4, TickMeans, HoldsStand DEF Idle, MoneyStands
<1>5. CASE UNCHANGED vars \/ StallIndexer \/ ResumeIndexer \/ MineBlock \/ ReorgOrRestart
  BY <1>5, RestMeans, HoldsStand DEF Idle, MoneyStands, MirrorInv
<1> QED BY <1>2, <1>3, <1>4, <1>5, NextKinds

LEMMA TimelockKeeps ==
  ASSUME TimelockInv, [Next]_vars, PromptStep, MaxSkew = 0
  PROVE  TimelockInv'
<1>1. IInv /\ IInv' /\ MirrorInv /\ EP!TermsInv
  BY NextKeeps DEF TimelockInv
<1>2. MirrorInv'
  BY <1>1, NextKeepsMirror, NextKeepsAnnounced DEF MirrorInv
<1>3. EP!TermsInv'
  <2>1. EP!IInv /\ EP!IInv' /\ [EP!Next]_(EP!vars)
    BY <1>1, EngineInvOf, EngineInvNext, NextMovesEngine, ReaderKnows
       DEF IInv, EngineInv, EngineMoves
  <2> QED BY <1>1, <2>1, EngineFits, EP!NextTerms DEF EngineAssumptions
<1>4. ASSUME reorgs' = 0 PROVE SteadyInv'
  <2>1. reorgs \in Nat
    BY <1>1 DEF MirrorInv
  <2>2. CASE reorgs # 0
    <3>1. reorgs = 0
      BY <1>1, <1>4, <2>2, SteadyBefore
    <3> QED BY <2>2, <3>1
  <2>3. CASE reorgs = 0
    <3>1. ClockInv /\ BackedInv /\ \A a \in Accounts : Covers(a) /\ Holds(a)
      BY <2>3 DEF TimelockInv, SteadyInv
    <3>2. ClockInv' /\ BackedInv'
      BY <1>1, <1>3, <1>4, <3>1, ClockKeeps, BackedKeeps
    <3>3. ASSUME NEW a \in Accounts PROVE Covers(a)' /\ Holds(a)'
      <4>1. CoversNext(a)
        BY <1>1, <1>4, <2>3, <3>1, CoversKeep
      <4>2. HoldsNext(a)
        BY <1>1, <1>4, <2>3, <3>1, <4>1, HoldsKeep
      <4> QED BY <4>1, <4>2, CoversThen, HoldsThen
    <3> QED BY <3>2, <3>3 DEF SteadyInv
  <2> QED BY <2>2, <2>3
<1> QED BY <1>1, <1>2, <1>3, <1>4 DEF TimelockInv

-----------------------------------------------------------------------------
(* What it means                                                           *)

\* A claim that is out of its time and not answered is of a settlement that is late.
LEMMA LateMeansOverdue ==
  ASSUME IInv, EP!TermsInv, NEW a, NEW o \in OutSet(a), EP!Within(o, Included)
  PROVE  SomeOverdue
<1>1. /\ o \in EP!Owners /\ claims[o] # Vacant
      /\ ~EP!ClaimExpired(claims[o]) /\ claims[o].list \notin DOMAIN resolved
  BY DEF OutSet, EP!Unanswered, EP!ClaimsOf
<1>2. now \in Nat /\ Included \in Int /\ Included <= now /\ Included = now - MaxInclusionTime - 1
  <2>1. now \in Nat /\ MaxInclusionTime \in Nat
    BY Bounds, EngineInvOf DEF EP!IInv, EP!TypeRest
  <2> QED BY <2>1 DEF Included
<1>3. PICK h : h = Included
  OBVIOUS
<1>4. /\ claims[o].list = Vacant => EP!ClaimExpired(claims[o])
      /\ claims[o].list # Vacant =>
           /\ EP!InState(claims[o].list, "Settling") /\ claims[o].list \in RequestSlots
           /\ requests[claims[o].list].settle_by \in Nat
           /\ requests[claims[o].list].settle_by <= h
  <2>1. h \in Int /\ h <= now /\ EP!Within(o, h)
    BY <1>2, <1>3
  <2> QED BY <1>1, <2>1, EngineInvOf, EngineFits, EP!WithinOver DEF EngineAssumptions
<1>5. PICK r : r = claims[o].list
  OBVIOUS
<1>6. /\ r \in RequestSlots /\ r \notin DOMAIN resolved /\ E!InState(r, "Settling")
      /\ requests[r].settle_by \in Nat /\ requests[r].settle_by <= now - MaxInclusionTime - 1
  BY <1>1, <1>2, <1>3, <1>4, <1>5 DEF EP!InState, E!InState
<1>7. now > requests[r].settle_by + MaxInclusionTime
  BY <1>2, <1>6, Bounds
<1> QED BY <1>6, <1>7 DEF SomeOverdue

LEMMA OutIsHeld ==
  ASSUME TimelockInv, reorgs = 0, NEW a \in Accounts, ~SomeOverdue
  PROVE  Out(a) <= balance[a]
<1>1. IInv /\ EP!TermsInv /\ Payable(a, balance[a], Included)
  BY DEF TimelockInv, SteadyInv, Holds
<1>2. CASE OutSet(a) = {}
  BY <1>1, <1>2, OutTyped, FreeTyped
<1>3. CASE OutSet(a) # {}
  BY <1>1, <1>3, LateMeansOverdue DEF Payable
<1> QED BY <1>2, <1>3

\* A bundle custody could still settle, and what stands behind it.
LEMMA AcceptedStands ==
  ASSUME TimelockInv, reorgs = 0, NEW b \in Accepted, Honourable(b)
  PROVE  /\ IInv /\ EP!TermsInv /\ b \in Good /\ b.nonce \in Wanted /\ b.nonce \notin DOMAIN resolved
         /\ Backed(b) /\ b.requester \in Accounts
         /\ \A l \in DOMAIN b.legs : now < b.legs[l].quote_expiry /\ b.legs[l].maker \in Accounts
<1>1. IInv /\ EP!TermsInv /\ BackedInv /\ chain_now = now
  BY DEF TimelockInv, SteadyInv, ClockInv
<1>2. PICK q \in {outbox, in_flight} : \E i \in DOMAIN q : b = q[i]
  BY DEF Accepted, ToSet
<1>3. q \in Seq(Sent) /\ q \in Seq(BackedBundles)
  BY <1>1, <1>2 DEF IInv, AdapterInv, BackedInv
<1>4. PICK i \in DOMAIN q : b = q[i]
  BY <1>2
<1>5. b \in Sent /\ b \in BackedBundles
  BY <1>3, <1>4
<1>6. b \in Good /\ b.nonce \in Wanted /\ Backed(b)
  BY <1>5 DEF Sent, BackedBundles
<1>7. b.requester \in Accounts /\ \A l \in DOMAIN b.legs : b.legs[l].maker \in Accounts
  BY <1>6, LegsTyped
<1>8. b.nonce \notin DOMAIN resolved /\ \A l \in DOMAIN b.legs : now < b.legs[l].quote_expiry
  BY <1>1 DEF Honourable, C!Answered
<1> QED BY <1>1, <1>6, <1>7, <1>8

\* What the bundle takes of an account is part of what the account may be called upon for.
LEMMA TakesOfOut ==
  ASSUME TimelockInv, reorgs = 0, NEW b \in Accepted, Honourable(b), NEW a \in Accounts
  PROVE  \E w \in [DOMAIN b.legs -> QuoteSlots], T \in SUBSET OutSet(a) :
           /\ C!Debit(b, a) \in Nat /\ C!Debit(b, a) <= Out(a)
           /\ \A l \in DOMAIN b.legs :
                /\ b.legs[l].maker = a => w[l] \in T
                /\ quotes[w[l]].expires_at = b.legs[l].quote_expiry
<1>1. /\ IInv /\ b \in Good /\ b.nonce \in Wanted /\ b.nonce \notin DOMAIN resolved /\ Backed(b)
  BY AcceptedStands
<1>2. PICK w \in [DOMAIN b.legs -> QuoteSlots], T \in SUBSET EP!Share(b.nonce, a) :
        /\ EP!Holding(T) = CP!Debit(b, a) /\ CP!Debit(b, a) \in Nat
        /\ \A l \in DOMAIN b.legs :
             /\ b.legs[l].maker = a => w[l] \in T
             /\ quotes[w[l]].expires_at = b.legs[l].quote_expiry
  BY <1>1, BackedHolds
<1>3. T \subseteq OutSet(a)
  <2>1. b.nonce # Vacant
    BY <1>1, VacantIsNoValue DEF Wanted
  <2> QED BY <1>1, <1>2, <2>1 DEF OutSet, EP!Unanswered, EP!Share, EP!ClaimExpired
<1>4. OutSet(a) \subseteq EP!Owners
  BY DEF OutSet, EP!Unanswered, EP!ClaimsOf
<1>5. PICK S : S = OutSet(a)
  OBVIOUS
<1>6. EP!Holding(T) <= EP!Holding(S)
  <2>1. S \in SUBSET EP!Owners /\ T \in SUBSET S /\ EP!IInv
    BY <1>1, <1>3, <1>4, <1>5, EngineInvOf
  <2> QED BY <2>1, EngineFits, EP!HoldingMore DEF EngineAssumptions
<1>7. C!Debit(b, a) = CP!Debit(b, a)
  BY SameChainDebit
<1>8. C!Debit(b, a) \in Nat /\ C!Debit(b, a) <= Out(a)
  BY <1>2, <1>5, <1>6, <1>7 DEF Out
<1> QED BY <1>2, <1>3, <1>8

LEMMA FundsMeant ==
  ASSUME TimelockInv, reorgs = 0 PROVE FundsHeldUnlessOverdue
<1> SUFFICES ASSUME NEW b \in Accepted, Honourable(b), ~SomeOverdue PROVE C!Covered(b)
  BY DEF FundsHeldUnlessOverdue
<1>1. /\ IInv /\ b.requester \in Accounts /\ \A i \in DOMAIN b.legs : b.legs[i].maker \in Accounts
  BY AcceptedStands
<1>2. ASSUME NEW a \in Accounts PROVE C!Debit(b, a) <= balance[a]
  <2>1. C!Debit(b, a) \in Nat /\ C!Debit(b, a) <= Out(a)
    BY TakesOfOut
  <2>2. Out(a) <= balance[a]
    BY OutIsHeld
  <2>3. Out(a) \in Nat /\ balance[a] \in Nat
    BY <1>1, OutTyped, FreeTyped
  <2> QED BY <2>1, <2>2, <2>3
<1> QED BY <1>1, <1>2 DEF C!Covered

LEMMA OutQuoteTyped ==
  ASSUME IInv, NEW a, NEW q \in QuoteSlots, q \in OutSet(a)
  PROVE  quotes[q].expires_at \in Nat
<1>1. q \in EP!Owners /\ claims[q] # Vacant
  BY OutTyped
<1>2. quotes[q] # Vacant
  BY <1>1, EngineInvOf, EngineFits, EP!ClaimOwned DEF EngineAssumptions
<1> QED BY <1>2, EngineInvOf, EngineFits, EP!QuoteTyped DEF EngineAssumptions

LEMMA MakersMeant ==
  ASSUME TimelockInv, reorgs = 0 PROVE MakersCannotQuoteAndRun
<1> SUFFICES ASSUME NEW b \in Accepted, Honourable(b), NEW i \in DOMAIN b.legs
             PROVE  C!Debit(b, b.legs[i].maker) <= balance[b.legs[i].maker]
  BY DEF MakersCannotQuoteAndRun
<1>1. /\ IInv /\ b.legs[i].maker \in Accounts /\ now < b.legs[i].quote_expiry
  BY AcceptedStands
<1>2. PICK a \in Accounts : a = b.legs[i].maker
  BY <1>1
<1>3. PICK w \in [DOMAIN b.legs -> QuoteSlots], T \in SUBSET OutSet(a) :
        /\ C!Debit(b, a) \in Nat /\ C!Debit(b, a) <= Out(a)
        /\ \A l \in DOMAIN b.legs :
             /\ b.legs[l].maker = a => w[l] \in T
             /\ quotes[w[l]].expires_at = b.legs[l].quote_expiry
  BY TakesOfOut
<1>4. PICK q \in QuoteSlots : q = w[i]
  OBVIOUS
<1>5. q \in OutSet(a) /\ now < quotes[q].expires_at
  BY <1>1, <1>2, <1>3, <1>4
<1>6. ~EP!Within(q, Included)
  <2>1. now \in Nat /\ MaxInclusionTime \in Nat
    BY <1>1, Bounds, HoldsTyped
  <2>2. quotes[q].expires_at \in Nat
    BY <1>1, <1>5, OutQuoteTyped
  <2> QED BY <1>5, <2>1, <2>2 DEF EP!Within, Included
<1>7. Out(a) <= balance[a]
  BY <1>5, <1>6 DEF TimelockInv, SteadyInv, Holds, Payable
<1>8. Out(a) \in Nat /\ balance[a] \in Nat
  BY <1>1, OutTyped, FreeTyped
<1> QED BY <1>1, <1>2, <1>3, <1>7, <1>8

LEMMA SameSum ==
  ASSUME NEW f, NEW S PROVE EP!SumFunctionOnSet(f, S) = SumFunctionOnSet(f, S)
BY DEF EP!SumFunctionOnSet, SumFunctionOnSet, EP!FoldFunctionOnSet, FoldFunctionOnSet,
       EP!MapThenFoldSet, MapThenFoldSet

\* What some claims of an account add up to.
LEMMA HeldIsHolding ==
  ASSUME IInv, NEW a, NEW H \in SUBSET EP!ClaimsOf(claims, a)
  PROVE  SumFunction([o \in H |-> claims[o].amount]) = EP!Holding(H)
<1> DEFINE h == [o \in H |-> claims[o].amount]
           f == EP!Amounts(claims)
<1>1. EP!BookTyped(claims)
  BY EngineInvOf DEF EP!IInv, EP!BookInv
<1>2. /\ EP!IsFiniteSet(EP!ClaimsOf(claims, a)) /\ \A o \in EP!Owners : f[o] \in Nat
  BY <1>1, EngineFits, EP!ClaimedIsSum DEF EngineAssumptions
<1>3. IsFiniteSet(H)
  <2>1. IsFiniteSet(EP!ClaimsOf(claims, a))
    BY <1>2 DEF IsFiniteSet, EP!IsFiniteSet
  <2> QED BY <2>1, FS_Subset
<1>4. \A o \in H : f[o] \in Nat /\ h[o] = f[o]
  BY <1>2 DEF EP!ClaimsOf, EP!Amounts
<1>5. DOMAIN h = H
  OBVIOUS
<1> HIDE DEF h, f
<1>6. SumFunctionOnSet(h, H) = SumFunctionOnSet(f, H)
  BY <1>3, <1>4, SumSame
<1>7. SumFunction(h) = EP!SumFunctionOnSet(f, H)
  BY <1>5, <1>6, SameSum DEF SumFunction
<1> QED BY <1>7 DEF h, f, EP!Holding

LEMMA DecidedMeans ==
  ASSUME IInv, NEW r
  PROVE  /\ Decided(r) = Vacant <=> r \notin DOMAIN resolved
         /\ Decided(r) = "Settled" <=> r \in DOMAIN resolved /\ resolved[r] = "Settled"
<1>1. \A n \in DOMAIN resolved : resolved[n] \in {"Settled", "Reverted"}
  BY DEF IInv, CP!MInv, CP!TypeOK
<1> QED BY <1>1, VacantIsNoValue DEF Decided

LEMMA OutstandingIsOut ==
  ASSUME IInv, NEW a PROVE Outstanding(a) = Out(a)
<1> DEFINE H == {o \in E!ClaimsOf(claims, a) : /\ ~E!ClaimExpired(claims[o])
                                               /\ Decided(claims[o].list) = Vacant}
<1>1. H = OutSet(a)
  BY DecidedMeans DEF OutSet, EP!Unanswered, E!ClaimsOf, EP!ClaimsOf, E!ClaimExpired,
                      EP!ClaimExpired, E!Owners, EP!Owners
<1>2. H \in SUBSET EP!ClaimsOf(claims, a)
  BY <1>1 DEF OutSet, EP!Unanswered
<1>3. Outstanding(a) = SumFunction([o \in H |-> claims[o].amount])
  BY DEF Outstanding
<1> HIDE DEF H
<1> QED BY <1>1, <1>2, <1>3, HeldIsHolding DEF Out

LEMMA DueIsTaken ==
  ASSUME IInv, NEW a, NEW i PROVE Taken(a) \in Nat /\ Due(a, i) <= Taken(a)
<1> DEFINE H == {o \in E!ClaimsOf(claims, a) : Decided(claims[o].list) = "Settled"}
<1>1. PICK S : S = H
  OBVIOUS
<1>2. S \in SUBSET EP!ClaimsOf(claims, a)
  BY <1>1 DEF E!ClaimsOf, EP!ClaimsOf, E!Owners, EP!Owners
<1>3. Taken(a) = EP!Holding(S)
  <2>1. Taken(a) = SumFunction([o \in S |-> claims[o].amount])
    BY <1>1 DEF Taken
  <2> QED BY <1>2, <2>1, HeldIsHolding
<1>4. PICK M : M = Awaited(a, i)
  OBVIOUS
<1>5. PICK T : T = EP!OfLists(M, a)
  OBVIOUS
<1>6. T \in SUBSET S
  BY <1>1, <1>4, <1>5, DecidedMeans DEF EP!OfLists, Awaited, E!ClaimsOf, EP!ClaimsOf, E!Owners, EP!Owners
<1>7. EP!Holding(T) <= EP!Holding(S)
  <2>1. S \in SUBSET EP!Owners
    BY <1>2 DEF EP!ClaimsOf
  <2> QED BY <1>6, <2>1, EngineInvOf, EngineFits, EP!HoldingMore DEF EngineAssumptions
<1>8. EP!Holding(S) \in Nat
  <2>1. S \in SUBSET EP!Owners
    BY <1>2 DEF EP!ClaimsOf
  <2> QED BY <2>1, EngineInvOf, EngineFits, EP!HoldingNatural DEF EngineAssumptions
<1> QED BY <1>3, <1>4, <1>5, <1>7, <1>8 DEF Due, EP!Listed

LEMMA TypesMeant ==
  ASSUME TimelockInv, reorgs = 0 PROVE TypeOK
<1>1. IInv /\ ClockInv /\ BackedInv
  BY DEF TimelockInv, SteadyInv
<1>2. E!TypeOK
  <2>1. EP!TypeOK
    BY <1>1, EngineInvOf DEF EP!IInv, EP!TypeRest, EP!BookInv, EP!BookTyped, EP!TypeOK
  <2> QED BY <2>1 DEF E!TypeOK, EP!TypeOK, E!Owners, EP!Owners, E!LegIds, EP!LegIds,
                      E!Claim, EP!Claim, E!Quote, EP!Quote, E!Request, EP!Request,
                      E!Basket, EP!Basket, E!LegSpec, EP!LegSpec, E!RequestState, EP!RequestState
<1>3. C!TypeOK
  BY <1>1, SameBundle DEF IInv, CP!MInv, CP!TypeOK, C!TypeOK, C!Escrow, CP!Escrow, C!Side, CP!Side,
                          C!Outcome, CP!Outcome
<1>4. /\ \A i \in DOMAIN outbox : outbox[i] \in Bundles
      /\ \A i \in DOMAIN in_flight : in_flight[i] \in Bundles
  BY <1>1 DEF BackedInv, BackedBundles
<1>5. \A i \in DOMAIN in_flight : ~E!InState(in_flight[i].nonce, "Open")
  <2>1. \A i \in DOMAIN in_flight : in_flight[i].nonce \in Wanted
    <3>1. in_flight \in Seq(Sent)
      BY <1>1 DEF IInv, AdapterInv
    <3>2. ASSUME NEW i \in DOMAIN in_flight PROVE in_flight[i].nonce \in Wanted
      <4>1. in_flight[i] \in Sent
        BY <3>1, <3>2
      <4> QED BY <4>1 DEF Sent
    <3> QED BY <3>2
  <2> QED BY <2>1 DEF Wanted, E!InState
<1>6. cursor \in 0 .. Len(entries)
  BY <1>1, ReaderKnows DEF IInv
<1> QED BY <1>1, <1>2, <1>3, <1>4, <1>5, <1>6 DEF TypeOK, ClockInv

LEMMA PromisesMeant ==
  ASSUME TimelockInv, reorgs = 0 PROVE PromisesAreHeld
<1>1. TypeOK /\ IInv
  BY TypesMeant DEF TimelockInv
<1>2. ASSUME NEW a \in Accounts PROVE SomeOverdue \/ Outstanding(a) <= balance[a]
  BY <1>1, OutIsHeld, OutstandingIsOut
<1>3. ASSUME NEW a \in Accounts PROVE free[a] <= balance[a] + Taken(a)
  <2>1. Low(a, balance[a])
    BY DEF TimelockInv, SteadyInv, Covers
  <2>2. PICK h : h = Len(handed) /\ h \in 0 .. Len(entries)
    BY <1>1, ReaderPlace
  <2>3. free[a] <= balance[a] + Due(a, h)
    BY <2>1, <2>2 DEF Low, CP!Believes, Dues
  <2>4. Taken(a) \in Nat /\ Due(a, h) <= Taken(a)
    BY <1>1, DueIsTaken
  <2>5. Due(a, h) \in Nat /\ balance[a] \in Nat /\ free[a] \in Nat
    BY <1>1, DueNatural, FreeTyped, EngineInvOf DEF DuesNatural, EP!IInv, EP!TypeRest
  <2> QED BY <2>3, <2>4, <2>5
<1> QED BY <1>1, <1>2, <1>3 DEF PromisesAreHeld

-----------------------------------------------------------------------------
(* The theorems                                                            *)

\* The harness, with nothing left to read when time passes or the indexer stops.
PromptSpec == Spec /\ [][PromptStep]_vars

LEMMA PromptAlways == [PromptStep]_vars => PromptStep
BY DEF PromptStep, vars, engineVars, pumpVars

LEMMA TimelockHolds == ASSUME MaxSkew = 0 PROVE PromptSpec => []TimelockInv
<1>1. TimelockInv /\ [Next]_vars /\ [PromptStep]_vars => TimelockInv'
  BY TimelockKeeps, PromptAlways
<1> QED BY <1>1, TimelockStarts, PTL DEF PromptSpec, Spec

(* Until a reorg takes an entry back, no settlement finds the money gone   *)
(* that was reserved for it, unless one is overdue (harness.rs, SPEC       *)
(* section 9.3): the shortest withdrawal delay Config::validate accepts is *)
(* longer than a claim can be in use, a stalled indexer can lag and an     *)
(* inclusion can take, whatever those bounds are.                          *)
THEOREM SettlementFindsTheMoney ==
  ASSUME MaxSkew = 0
  PROVE  PromptSpec => [](reorgs = 0 => FundsHeldUnlessOverdue)
<1>1. TimelockInv => (reorgs = 0 => FundsHeldUnlessOverdue)
  BY FundsMeant
<1> QED BY <1>1, TimelockHolds, PTL

(* Until a reorg, what the engine has promised of an account and custody   *)
(* has not answered is in its balance unless a settlement is overdue, and  *)
(* what has been taken is claimed until the mirror no longer shows it      *)
(* (check_claim_coverage, harness.rs).                                     *)
THEOREM PromisesStandCovered ==
  ASSUME MaxSkew = 0
  PROVE  PromptSpec => [](reorgs = 0 => PromisesAreHeld)
<1>1. TimelockInv => (reorgs = 0 => PromisesAreHeld)
  BY PromisesMeant
<1> QED BY <1>1, TimelockHolds, PTL

(* Until a reorg, no maker can quote and run: while custody could settle a *)
(* bundle by its quotes, the maker's part of it is in the balance, however *)
(* late the settlement is (SPEC section 9.3).                              *)
THEOREM QuotesCannotBeRunFrom ==
  ASSUME MaxSkew = 0
  PROVE  PromptSpec => [](reorgs = 0 => MakersCannotQuoteAndRun)
<1>1. TimelockInv => (reorgs = 0 => MakersCannotQuoteAndRun)
  BY MakersMeant
<1> QED BY <1>1, TimelockHolds, PTL

\* Without confirmations to wait for, all that a running indexer has not read can be read.
LEMMA PromptUnconfirmed ==
  ASSUME Confirmations = 0, IInv, [Next]_vars PROVE PromptStep
<1> SUFFICES ASSUME now' # now \/ stalled' # stalled, ~stalled PROVE cursor = Len(entries)
  BY DEF PromptStep
<1>1. Quiet
  <2>1. CASE Asks \/ Pump \/ Transacts
    <3>1. UNCHANGED <<now, stalled>>
      BY <2>1, AsksNow, PumpNow, AsksAround, PumpReads, TransactsClock DEF pumpVars
    <3> QED BY <3>1
  <2>2. CASE UNCHANGED vars \/ MineBlock \/ ReorgOrRestart \/ ResumeIndexer
    BY <2>2 DEF vars, MineBlock, ReorgOrRestart, ResumeIndexer, engineVars, pumpVars
  <2>3. CASE StallIndexer \/ Tick
    BY <2>3 DEF StallIndexer, Tick, Clocks
  <2> QED BY <2>1, <2>2, <2>3, NextKinds
<1>2. ~(cursor < Len(entries) /\ I!Confirmed(entries[cursor + 1]))
  BY <1>1 DEF Quiet, Deliverable
<1>3. /\ cursor \in 0 .. Len(entries) /\ Len(entries) \in Nat
      /\ \A i \in 1 .. Len(entries) : entries[i].block \in Nat /\ entries[i].block <= head
  BY ReaderKnows DEF IInv, CP!ReaderInv, CP!BlocksSorted, CP!LogEntry
<1>4. ASSUME cursor < Len(entries) PROVE FALSE
  <2>1. cursor + 1 \in 1 .. Len(entries)
    BY <1>3, <1>4
  <2>2. entries[cursor + 1].block + Confirmations <= head
    BY <1>3, <2>1
  <2> QED BY <1>2, <1>4, <2>2 DEF I!Confirmed
<1> QED BY <1>3, <1>4

\* Nor is there anything a reorg could take back.
LEMMA NoReorgUnconfirmed ==
  ASSUME Confirmations = 0, IInv, [Next]_vars PROVE reorgs' = reorgs
<1>1. CASE Asks \/ Pump \/ Transacts
  <2>1. UNCHANGED chainVars
    BY <1>1, AsksAround, PumpReads, TransactsAround
  <2> QED BY <2>1 DEF chainVars
<1>2. CASE UNCHANGED vars \/ StallIndexer \/ ResumeIndexer \/ Tick
  BY <1>2 DEF vars, StallIndexer, ResumeIndexer, Tick, Clocks, chainVars
<1>3. CASE MineBlock
  BY <1>3 DEF MineBlock, I!Mine
<1>4. CASE ReorgOrRestart
  <2>1. ASSUME NEW block, I!ShallowReorg(block) PROVE FALSE
    <3>1. head \in Nat /\ tip \in Nat /\ head <= tip
      BY ChainFits, CP!ReaderFacts DEF ChainAssumptions, IInv, CP!ReaderInv
    <3>2. block \in 1 .. head /\ block + Confirmations > tip
      BY <2>1 DEF I!ShallowReorg
    <3> QED BY <3>1, <3>2
  <2>2. I!Rewind
    BY <1>4, <2>1 DEF ReorgOrRestart
  <2> QED BY <2>2 DEF I!Rewind
<1> QED BY <1>1, <1>2, <1>3, <1>4, NextKinds

(* With an indexer that waits for no confirmations the three hold of every *)
(* behaviour of the harness: what it drains after each operation is all    *)
(* there is to read, and no reorg is shallow enough.                       *)
THEOREM TimelockIsLongEnough ==
  ASSUME MaxSkew = 0, Confirmations = 0
  PROVE  Spec => [](FundsHeldUnlessOverdue /\ PromisesAreHeld /\ MakersCannotQuoteAndRun)
<1> DEFINE Inv == TimelockInv /\ reorgs = 0
<1>1. Init => Inv
  BY TimelockStarts DEF Init
<1>2. Inv /\ [Next]_vars => Inv'
  <2> SUFFICES ASSUME Inv, [Next]_vars PROVE Inv'
    OBVIOUS
  <2>1. IInv
    BY DEF TimelockInv
  <2>2. PromptStep /\ reorgs' = reorgs
    BY <2>1, PromptUnconfirmed, NoReorgUnconfirmed
  <2> QED BY <2>2, TimelockKeeps
<1>3. Inv => FundsHeldUnlessOverdue /\ PromisesAreHeld /\ MakersCannotQuoteAndRun
  BY FundsMeant, PromisesMeant, MakersMeant
<1> HIDE DEF Inv
<1> QED BY <1>1, <1>2, <1>3, PTL DEF Spec
=============================================================================
