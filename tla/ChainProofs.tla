---------------------------- MODULE ChainProofs -----------------------------
(***************************************************************************)
(* The chain: custody's money and what it says of it in the log, for every *)
(* set of accounts, bundles and amounts, and the indexer that reads the    *)
(* log, for every confirmation depth.                                      *)
(*                                                                         *)
(* Conservation is its own inductive invariant.  A settlement and a payout *)
(* are transfers between two tables, the balances by account and the       *)
(* locked escrows by id; the facts about sums are in Induction.            *)
(*                                                                         *)
(* The log needs to be read: what it last says of an account is found by   *)
(* its greatest index, and a fold over the legs tells which accounts a     *)
(* bundle names.  For the indexer, blocks grow along the log, so a reorg   *)
(* cuts a suffix, and what was handed over is too deep to be cut.          *)
(***************************************************************************)
EXTENDS Custody, Indexer, Induction


-----------------------------------------------------------------------------
(* Tables over the locked escrows                                          *)

LockedIn(es) == {id \in DOMAIN es : es[id].state = "Locked"}
Notionals(es) == [id \in LockedIn(es) |-> Notional(es[id])]
Stakes(es, a) == [id \in LockedIn(es) |-> Stake(es[id], a)]

Held == SumFunctionOnSet(balance, Accounts)
Locked(es) == SumFunctionOnSet(Notionals(es), LockedIn(es))
Staked(es, a) == SumFunctionOnSet(Stakes(es, a), LockedIn(es))

LEMMA LockedFinite ==
  ASSUME NEW es, es \in Seq(Escrow)
  PROVE  IsFiniteSet(LockedIn(es)) /\ LockedIn(es) \subseteq DOMAIN es
<1>1. IsFiniteSet(1 .. Len(es)) /\ DOMAIN es = 1 .. Len(es)
  BY FS_Interval
<1>2. LockedIn(es) \subseteq DOMAIN es
  BY DEF LockedIn
<1> QED BY <1>1, <1>2, FS_Subset

LEMMA AmountsNatural ==
  ASSUME NEW es, es \in Seq(Escrow), NEW id \in DOMAIN es, NEW a
  PROVE  /\ es[id] \in Escrow
         /\ es[id].requester_contribution \in Nat /\ es[id].maker_contribution \in Nat
         /\ Notional(es[id]) \in Nat /\ Stake(es[id], a) \in Nat
<1>1. es[id] \in Escrow
  OBVIOUS
<1> DEFINE e == es[id]
<1>2. e.requester_contribution \in Nat /\ e.maker_contribution \in Nat
  BY <1>1 DEF Escrow
<1> HIDE DEF e
<1>3. Notional(e) \in Nat
  BY <1>2 DEF Notional
<1>4. Stake(e, a) \in Nat
  <2> DEFINE x == IF e.requester = a THEN e.requester_contribution ELSE 0
             y == IF e.maker = a THEN e.maker_contribution ELSE 0
  <2>1. x \in Nat /\ y \in Nat
    BY <1>2
  <2>2. Stake(e, a) = x + y
    BY DEF Stake
  <2> HIDE DEF x, y
  <2> QED BY <2>1, <2>2
<1> QED BY <1>1, <1>2, <1>3, <1>4 DEF e

(* What the properties say, in terms of these tables.                      *)
LEMMA ConservationMeans ==
  ASSUME TypeOK
  PROVE  Conservation <=> Held + Locked(escrows) = deposited - withdrawn
<1>1. DOMAIN balance = Accounts
  BY DEF TypeOK
<1>2. LockedEscrows = LockedIn(escrows)
  BY DEF LockedEscrows, LockedIn
<1>3. SumFunction(balance) = Held
  BY <1>1 DEF SumFunction, Held
<1>4. [id \in LockedEscrows |-> Notional(escrows[id])] = Notionals(escrows)
  BY <1>2 DEF Notionals
<1>5. DOMAIN Notionals(escrows) = LockedIn(escrows)
  BY DEF Notionals
<1>6. SumFunction(Notionals(escrows)) = Locked(escrows)
  BY <1>5 DEF SumFunction, Locked
<1> QED BY <1>3, <1>4, <1>6 DEF Conservation

LEMMA PositionMeans ==
  ASSUME NEW a
  PROVE  /\ Position(a) = balance[a] + Staked(escrows, a)
         /\ Position(a)' = balance'[a] + Staked(escrows', a)
<1>1. LockedEscrows = LockedIn(escrows) /\ LockedEscrows' = LockedIn(escrows')
  BY DEF LockedEscrows, LockedIn
<1>2. /\ [id \in LockedEscrows |-> Stake(escrows[id], a)] = Stakes(escrows, a)
      /\ [id \in LockedEscrows' |-> Stake(escrows'[id], a)] = Stakes(escrows', a)
  BY <1>1 DEF Stakes
<1>3. /\ DOMAIN Stakes(escrows, a) = LockedIn(escrows)
      /\ DOMAIN Stakes(escrows', a) = LockedIn(escrows')
  BY DEF Stakes
<1>4. /\ SumFunction(Stakes(escrows, a)) = Staked(escrows, a)
      /\ SumFunction(Stakes(escrows', a)) = Staked(escrows', a)
  BY <1>3 DEF SumFunction, Staked
<1>5. /\ Position(a) = balance[a] + SumFunction([id \in LockedEscrows |-> Stake(escrows[id], a)])
      /\ Position(a)' = balance'[a]
           + SumFunction([id \in LockedEscrows' |-> Stake(escrows'[id], a)])
  BY DEF Position, Stake
<1> QED BY <1>2, <1>4, <1>5

LEMMA TablesNatural ==
  ASSUME NEW es, es \in Seq(Escrow), NEW a
  PROVE  Locked(es) \in Nat /\ Staked(es, a) \in Nat
<1> DEFINE S == LockedIn(es)
<1>1. IsFiniteSet(S) /\ S \subseteq DOMAIN es
  BY LockedFinite
<1>2. \A id \in S : Notionals(es)[id] \in Nat /\ Stakes(es, a)[id] \in Nat
  BY <1>1, AmountsNatural DEF Notionals, Stakes
<1> HIDE DEF S
<1>3. SumFunctionOnSet(Notionals(es), S) \in Nat /\ SumFunctionOnSet(Stakes(es, a), S) \in Nat
  BY <1>1, <1>2, SumOne
<1> QED BY <1>3 DEF S, Locked, Staked

\* f counts the table es, g the rows fresh, and h the table they make together.
Grows(es, fresh, f, g, h) ==
  /\ es \in Seq(Escrow) /\ fresh \in Seq(Escrow)
  /\ \A i \in DOMAIN fresh : fresh[i].state = "Locked"
  /\ \A id \in LockedIn(es) : f[id] \in Nat /\ h[id] = f[id]
  /\ \A i \in DOMAIN fresh : g[i] \in Nat /\ h[Len(es) + i] = g[i]


(* Forming escrows adds a term for each.                                    *)
LEMMA TablesGrow ==
  ASSUME NEW es, NEW fresh, NEW f, NEW g, NEW h, Grows(es, fresh, f, g, h)
  PROVE  SumFunctionOnSet(h, LockedIn(es \o fresh))
           = SumFunctionOnSet(f, LockedIn(es)) + SumFunctionOnSet(g, DOMAIN fresh)
<1> USE DEF Grows
<1> DEFINE S == LockedIn(es)
           D == DOMAIN fresh
           w == [i \in D |-> Len(es) + i]
           R == {w[i] : i \in D}
<1>1. D = 1 .. Len(fresh) /\ Len(fresh) \in Nat /\ Len(es) \in Nat /\ DOMAIN es = 1 .. Len(es)
  OBVIOUS
<1>2. IsFiniteSet(D) /\ IsFiniteSet(S) /\ S \subseteq 1 .. Len(es)
  <2>1. IsFiniteSet(1 .. Len(fresh))
    BY <1>1, FS_Interval
  <2>2. IsFiniteSet(D)
    BY <1>1, <2>1
  <2>3. IsFiniteSet(S) /\ S \subseteq DOMAIN es
    BY LockedFinite
  <2> HIDE DEF S, D
  <2> QED BY <1>1, <2>2, <2>3
<1>3. IsFiniteSet(R)
  <2>1. \A i \in D : w[i] \in 1 .. (Len(es) + Len(fresh))
    BY <1>1
  <2>2. R \subseteq 1 .. (Len(es) + Len(fresh))
    BY <2>1
  <2>3. IsFiniteSet(1 .. (Len(es) + Len(fresh)))
    BY <1>1, FS_Interval
  <2> HIDE DEF R
  <2> QED BY <2>2, <2>3, FS_Subset
<1>4. LockedIn(es \o fresh) = S \cup R
  <2>1. DOMAIN (es \o fresh) = 1 .. (Len(es) + Len(fresh))
    OBVIOUS
  <2>2. \A id \in 1 .. Len(es) : (es \o fresh)[id] = es[id]
    OBVIOUS
  <2>3. \A i \in D : (es \o fresh)[Len(es) + i] = fresh[i]
    OBVIOUS
  <2>4. R = {id \in 1 .. (Len(es) + Len(fresh)) : id \notin 1 .. Len(es)}
    <3>1. \A id \in 1 .. (Len(es) + Len(fresh)) :
            id \notin 1 .. Len(es) => id - Len(es) \in D /\ id = Len(es) + (id - Len(es))
      BY <1>1
    <3>2. \A i \in D : w[i] \in 1 .. (Len(es) + Len(fresh)) /\ w[i] \notin 1 .. Len(es)
      BY <1>1
    <3>3. \A id \in 1 .. (Len(es) + Len(fresh)) :
            id \notin 1 .. Len(es) => w[id - Len(es)] = id
      BY <3>1
    <3> HIDE DEF w, D
    <3> QED BY <3>1, <3>2, <3>3
  <2>5. \A id \in R : (es \o fresh)[id].state = "Locked"
    BY <2>3
  <2>6. 1 .. Len(es) \subseteq 1 .. (Len(es) + Len(fresh))
    BY <1>1
  <2> HIDE DEF R
  <2> QED BY <1>1, <2>1, <2>2, <2>4, <2>5, <2>6 DEF LockedIn
<1>5. S \cap R = {}
  BY <1>1, <1>2
<1>6. \A x \in S \cup R : h[x] \in Nat
  OBVIOUS
<1>7. SumFunctionOnSet(h, S) = SumFunctionOnSet(f, S)
  <2> HIDE DEF S
  <2>1. \A id \in S : f[id] \in Nat /\ h[id] = f[id]
    BY DEF S
  <2> QED BY <1>2, <2>1, SumSame
<1>8. SumFunctionOnSet(h, R) = SumFunctionOnSet(g, D)
  <2>1. \A i \in D : g[i] \in Nat /\ h[w[i]] = g[i]
    OBVIOUS
  <2>2. \A i, j \in D : w[i] = w[j] => i = j
    BY <1>1
  <2>3. IsFiniteSet(D)
    BY <1>2
  <2> HIDE DEF w, D
  <2>4. SumFunctionOnSet(h, {w[i] : i \in D}) = SumFunctionOnSet(g, D)
    BY ONLY <2>1, <2>2, <2>3, SumRenamed
  <2> QED BY <2>4
<1> HIDE DEF S, R
<1>9. SumFunctionOnSet(h, S \cup R) = SumFunctionOnSet(h, S) + SumFunctionOnSet(h, R)
  BY <1>2, <1>3, <1>5, <1>6, SumUnion
<1> QED BY <1>4, <1>7, <1>8, <1>9 DEF S

(* Paying an escrow out takes its term away.                                *)
LEMMA TablesShrink ==
  ASSUME NEW es, es \in Seq(Escrow), NEW id \in LockedIn(es), NEW R, R = LockedIn(es) \ {id},
         NEW f, NEW h, \A x \in LockedIn(es) : f[x] \in Nat, \A x \in R : h[x] = f[x]
  PROVE  SumFunctionOnSet(f, LockedIn(es)) = f[id] + SumFunctionOnSet(h, R)
<1> DEFINE S == LockedIn(es)
<1>1. IsFiniteSet(S)
  BY LockedFinite
<1>2. IsFiniteSet(R)
  BY <1>1, FS_Subset
<1>3. \A x \in R : f[x] \in Nat /\ h[x] = f[x]
  OBVIOUS
<1>4. SumFunctionOnSet(h, R) = SumFunctionOnSet(f, R)
  BY <1>2, <1>3, SumSame
<1>5. (\A x \in S : f[x] \in Nat) /\ id \in S /\ R = S \ {id}
  OBVIOUS
<1> HIDE DEF S
<1>6. SumFunctionOnSet(f, S) = f[id] + SumFunctionOnSet(f, S \ {id})
  BY <1>1, <1>5, SumOne
<1> QED BY <1>4, <1>5, <1>6 DEF S

-----------------------------------------------------------------------------
(* Two parties share an amount                                              *)

\* f gives u to p and v to q, who may be one account.
Shares(f, p, u, q, v) ==
  \A a \in Accounts : f[a] = (IF a = p THEN u ELSE 0) + (IF a = q THEN v ELSE 0)

LEMMA TwoShares ==
  ASSUME NEW p \in Accounts, NEW q \in Accounts, NEW u \in Nat, NEW v \in Nat, NEW f,
         Shares(f, p, u, q, v)
  PROVE  SumFunctionOnSet(f, Accounts) = u + v
<1> DEFINE g == [a \in Accounts |-> IF a = p THEN u ELSE 0]
           h == [a \in Accounts |-> IF a = q THEN v ELSE 0]
<1>1. \A a \in Accounts : g[a] = (IF a = p THEN u ELSE 0) /\ h[a] = (IF a = q THEN v ELSE 0)
  OBVIOUS
<1>2. \A a \in Accounts : g[a] \in Nat /\ h[a] \in Nat /\ f[a] = g[a] + h[a]
  BY DEF Shares
<1>3. IsFiniteSet(Accounts)
  BY CustodyConstants
<1> HIDE DEF g, h
<1>4. SumFunctionOnSet(f, Accounts)
        = SumFunctionOnSet(g, Accounts) + SumFunctionOnSet(h, Accounts)
  BY <1>2, <1>3, SumPlus
<1>5. SumFunctionOnSet(g, Accounts) = u
  BY <1>1, <1>3, SumPoint
<1>6. SumFunctionOnSet(h, Accounts) = v
  BY <1>1, <1>3, SumPoint
<1> QED BY <1>4, <1>5, <1>6

(* The stakes of an escrow make its notional.                               *)
LEMMA StakesTotal ==
  ASSUME NEW e \in Escrow
  PROVE  SumFunctionOnSet([a \in Accounts |-> Stake(e, a)], Accounts) = Notional(e)
<1> DEFINE u == e.requester_contribution
           v == e.maker_contribution
           p == e.requester
           q == e.maker
           f == [a \in Accounts |-> Stake(e, a)]
<1>1. u \in Nat /\ v \in Nat /\ p \in Accounts /\ q \in Accounts
  BY DEF Escrow
<1>2. Shares(f, p, u, q, v)
  BY DEF Stake, Shares
<1>3. Notional(e) = u + v
  BY DEF Notional
<1> HIDE DEF u, v, p, q, f
<1>4. SumFunctionOnSet(f, Accounts) = u + v
  BY <1>1, <1>2, TwoShares
<1> QED BY <1>3, <1>4 DEF f

(* What an escrow pays is its notional, and either its stakes or one side of them. *)
LEMMA CreditShares ==
  ASSUME NEW e \in Escrow, NEW outcome \in Outcome
  PROVE  \E u, v \in Nat :
           /\ u + v = Notional(e)
           /\ \A a : Credit(e, outcome, a)
                       = (IF a = e.requester THEN u ELSE 0) + (IF a = e.maker THEN v ELSE 0)
           /\ \/ u = e.requester_contribution /\ v = e.maker_contribution
              \/ u = Notional(e) /\ v = 0
              \/ u = 0 /\ v = Notional(e)
<1> DEFINE rc == e.requester_contribution
           mc == e.maker_contribution
           N == Notional(e)
<1>1. rc \in Nat /\ mc \in Nat /\ N = rc + mc
  BY DEF Escrow, Notional
<1>2. N \in Nat
  BY <1>1
<1>3. CASE outcome = "Void"
  <2>1. \A a : Credit(e, outcome, a)
                 = (IF a = e.requester THEN rc ELSE 0) + (IF a = e.maker THEN mc ELSE 0)
    BY <1>3 DEF Credit
  <2> HIDE DEF rc, mc, N
  <2> QED BY <1>1, <2>1 DEF rc, mc, N
<1>4. CASE outcome # "Void" /\ outcome = e.side
  <2>1. \A a : Credit(e, outcome, a) = IF a = e.requester THEN N ELSE 0
    BY <1>4 DEF Credit
  <2> HIDE DEF N
  <2>2. \A a : Credit(e, outcome, a)
                 = (IF a = e.requester THEN N ELSE 0) + (IF a = e.maker THEN 0 ELSE 0)
    BY <1>2, <2>1
  <2>3. N + 0 = N
    BY <1>2
  <2>4. 0 \in Nat
    OBVIOUS
  <2> QED BY <1>2, <2>2, <2>3, <2>4 DEF N
<1>5. CASE outcome # "Void" /\ outcome # e.side
  <2>1. \A a : Credit(e, outcome, a) = IF a = e.maker THEN N ELSE 0
    BY <1>5 DEF Credit
  <2> HIDE DEF N
  <2>2. \A a : Credit(e, outcome, a)
                 = (IF a = e.requester THEN 0 ELSE 0) + (IF a = e.maker THEN N ELSE 0)
    BY <1>2, <2>1
  <2>3. 0 + N = N
    BY <1>2
  <2>4. 0 \in Nat
    OBVIOUS
  <2> QED BY <1>2, <2>2, <2>3, <2>4 DEF N
<1> QED BY <1>3, <1>4, <1>5

-----------------------------------------------------------------------------
(* A bundle and the escrows it forms                                        *)

Owed(b, a) == [i \in DOMAIN b.legs |-> Stake(EscrowsOf(b)[i], a)]

LEMMA BundleEscrows ==
  ASSUME NEW b, b \in Bundle
  PROVE  /\ EscrowsOf(b) \in Seq(Escrow)
         /\ DOMAIN EscrowsOf(b) = DOMAIN b.legs /\ IsFiniteSet(DOMAIN b.legs)
         /\ \A i \in DOMAIN b.legs :
              /\ EscrowsOf(b)[i] \in Escrow /\ EscrowsOf(b)[i].state = "Locked"
              /\ EscrowsOf(b)[i].requester = b.requester
              /\ EscrowsOf(b)[i].maker = b.legs[i].maker
              /\ EscrowsOf(b)[i].requester_contribution = b.legs[i].requester_contribution
              /\ EscrowsOf(b)[i].maker_contribution = b.legs[i].maker_contribution
<1>1. b.legs \in Seq(Leg) /\ b.requester \in Accounts
  BY DEF Bundle
<1>2. DOMAIN b.legs = 1 .. Len(b.legs) /\ Len(b.legs) \in Nat
  BY <1>1
<1>3. IsFiniteSet(DOMAIN b.legs)
  BY <1>2, FS_Interval
<1>4. DOMAIN EscrowsOf(b) = DOMAIN b.legs
  BY DEF EscrowsOf
<1>5. ASSUME NEW i \in DOMAIN b.legs
      PROVE  /\ EscrowsOf(b)[i] \in Escrow /\ EscrowsOf(b)[i].state = "Locked"
             /\ EscrowsOf(b)[i].requester = b.requester
             /\ EscrowsOf(b)[i].maker = b.legs[i].maker
             /\ EscrowsOf(b)[i].requester_contribution = b.legs[i].requester_contribution
             /\ EscrowsOf(b)[i].maker_contribution = b.legs[i].maker_contribution
  <2> DEFINE leg == b.legs[i]
  <2>1. leg \in Leg
    BY <1>1
  <2>2. EscrowsOf(b)[i] =
          [contract |-> leg.contract, side |-> leg.side,
           requester |-> b.requester, maker |-> leg.maker,
           requester_contribution |-> leg.requester_contribution,
           maker_contribution |-> leg.maker_contribution, state |-> "Locked"]
    BY DEF EscrowsOf
  <2> HIDE DEF leg
  <2>3. EscrowsOf(b)[i] \in Escrow
    BY <1>1, <2>1, <2>2 DEF Leg, Escrow
  <2> QED BY <2>2, <2>3 DEF leg
<1>6. EscrowsOf(b) \in Seq(Escrow)
  <2>1. EscrowsOf(b) \in [1 .. Len(b.legs) -> Escrow]
    BY <1>2, <1>5 DEF EscrowsOf
  <2> HIDE DEF EscrowsOf
  <2> QED BY <1>2, <2>1
<1> QED BY <1>3, <1>4, <1>5, <1>6

LEMMA DebitIsSum ==
  ASSUME NEW b, b \in Bundle, NEW a
  PROVE  /\ Debit(b, a) = SumFunctionOnSet(Owed(b, a), DOMAIN b.legs)
         /\ Debit(b, a) \in Nat
         /\ \A i \in DOMAIN b.legs : Owed(b, a)[i] \in Nat
         /\ (\A i \in DOMAIN b.legs : a \notin {b.legs[i].maker, b.requester}) => Debit(b, a) = 0
<1> DEFINE D == DOMAIN b.legs
           f == [i \in D |->
                  (IF b.legs[i].maker = a THEN b.legs[i].maker_contribution ELSE 0)
                  + (IF b.requester = a THEN b.legs[i].requester_contribution ELSE 0)]
<1>1. IsFiniteSet(D)
  BY BundleEscrows
<1>2. DOMAIN f = D
  OBVIOUS
<1>3. Debit(b, a) = SumFunctionOnSet(f, D)
  BY <1>2 DEF Debit, SumFunction
<1>4. \A i \in D : Owed(b, a)[i] \in Nat
  <2> SUFFICES ASSUME NEW i \in D PROVE Stake(EscrowsOf(b)[i], a) \in Nat
    BY DEF Owed
  <2>1. EscrowsOf(b) \in Seq(Escrow) /\ i \in DOMAIN EscrowsOf(b)
    BY BundleEscrows
  <2> QED BY <2>1, AmountsNatural
<1>5. \A i \in D : f[i] = Owed(b, a)[i]
  <2> SUFFICES ASSUME NEW i \in D PROVE f[i] = Owed(b, a)[i]
    OBVIOUS
  <2> DEFINE e == EscrowsOf(b)[i]
             x == IF b.legs[i].maker = a THEN b.legs[i].maker_contribution ELSE 0
             y == IF b.requester = a THEN b.legs[i].requester_contribution ELSE 0
  <2>1. Owed(b, a)[i] = Stake(e, a)
    BY DEF Owed
  <2>2. /\ e \in Escrow /\ e.requester = b.requester /\ e.maker = b.legs[i].maker
        /\ e.requester_contribution = b.legs[i].requester_contribution
        /\ e.maker_contribution = b.legs[i].maker_contribution
    BY BundleEscrows
  <2>3. e.requester_contribution \in Nat /\ e.maker_contribution \in Nat
    BY <2>2 DEF Escrow
  <2> HIDE DEF e
  <2>4. Stake(e, a) = y + x
    BY <2>2 DEF Stake
  <2>5. x \in Nat /\ y \in Nat
    BY <2>2, <2>3
  <2>6. f[i] = x + y
    OBVIOUS
  <2> HIDE DEF x, y, f
  <2> QED BY <2>1, <2>4, <2>5, <2>6
<1>6. ASSUME \A i \in D : a \notin {b.legs[i].maker, b.requester} PROVE Debit(b, a) = 0
  <2>1. \A i \in D : f[i] = 0
    BY <1>6
  <2> HIDE DEF f, D
  <2> QED BY <1>1, <1>3, <2>1, SumZero
<1> HIDE DEF f, D
<1>7. SumFunctionOnSet(f, D) = SumFunctionOnSet(Owed(b, a), D)
  BY <1>1, <1>4, <1>5, SumSame
<1>8. SumFunctionOnSet(Owed(b, a), D) \in Nat
  BY <1>1, <1>4, SumOne
<1> QED BY <1>3, <1>4, <1>6, <1>7, <1>8 DEF D

(* What a bundle takes from all accounts is what its escrows hold.          *)
LEMMA DebitsTotal ==
  ASSUME NEW b, b \in Bundle
  PROVE  SumFunctionOnSet([a \in Accounts |-> Debit(b, a)], Accounts)
           = SumFunctionOnSet([i \in DOMAIN b.legs |-> Notional(EscrowsOf(b)[i])],
                              DOMAIN b.legs)
<1> DEFINE D == DOMAIN b.legs
           F == [i \in D |-> [a \in Accounts |-> Stake(EscrowsOf(b)[i], a)]]
           H == [a \in Accounts |-> Owed(b, a)]
           r == [i \in D |-> Notional(EscrowsOf(b)[i])]
<1>1. IsFiniteSet(D) /\ IsFiniteSet(Accounts)
  BY BundleEscrows, CustodyConstants
<1>2. \A i \in D : \A a \in Accounts : F[i][a] \in Nat /\ H[a][i] = F[i][a]
  <2> SUFFICES ASSUME NEW i \in D, NEW a \in Accounts
               PROVE  F[i][a] \in Nat /\ H[a][i] = F[i][a]
    OBVIOUS
  <2>1. F[i][a] = Owed(b, a)[i] /\ H[a] = Owed(b, a)
    BY DEF Owed
  <2> QED BY <2>1, DebitIsSum
<1>3. \A i \in D : r[i] = SumFunctionOnSet(F[i], Accounts)
  <2> SUFFICES ASSUME NEW i \in D PROVE r[i] = SumFunctionOnSet(F[i], Accounts)
    OBVIOUS
  <2>1. EscrowsOf(b)[i] \in Escrow
    BY BundleEscrows
  <2>2. r[i] = Notional(EscrowsOf(b)[i]) /\ F[i] = [a \in Accounts |-> Stake(EscrowsOf(b)[i], a)]
    OBVIOUS
  <2> QED BY <2>1, <2>2, StakesTotal
<1>4. [a \in Accounts |-> Debit(b, a)] = [a \in Accounts |-> SumFunctionOnSet(H[a], D)]
  BY DebitIsSum
<1> HIDE DEF D, F, H, r
<1>5. SumFunctionOnSet([a \in Accounts |-> SumFunctionOnSet(H[a], D)], Accounts)
        = SumFunctionOnSet(r, D)
  BY <1>1, <1>2, <1>3, SumExchange
<1> QED BY <1>4, <1>5 DEF r, D

-----------------------------------------------------------------------------
(* The steps that move money                                                *)

LEMMA OneBalanceMoves ==
  ASSUME NEW f, f \in [Accounts -> Nat], NEW a \in Accounts, NEW v \in Nat, NEW g,
         g = [f EXCEPT ![a] = @ + v]
  PROVE  SumFunctionOnSet(g, Accounts) = SumFunctionOnSet(f, Accounts) + v
<1> DEFINE h == [x \in Accounts |-> IF x = a THEN v ELSE 0]
<1>1. IsFiniteSet(Accounts)
  BY CustodyConstants
<1>2. \A x \in Accounts : f[x] \in Nat /\ h[x] \in Nat /\ g[x] = f[x] + h[x]
  OBVIOUS
<1>3. \A x \in Accounts : h[x] = IF x = a THEN v ELSE 0
  OBVIOUS
<1> HIDE DEF h
<1>4. SumFunctionOnSet(g, Accounts) = SumFunctionOnSet(f, Accounts) + SumFunctionOnSet(h, Accounts)
  BY ONLY <1>1, <1>2, SumPlus
<1>5. SumFunctionOnSet(h, Accounts) = v
  BY <1>1, <1>3, SumPoint
<1> QED BY <1>4, <1>5

LEMMA CoveredDebits ==
  ASSUME TypeOK, NEW b, b \in Bundle, Covered(b), NEW a \in Accounts
  PROVE  Debit(b, a) \in Nat /\ Debit(b, a) <= balance[a]
<1>1. Debit(b, a) \in Nat /\ balance[a] \in Nat
  BY DebitIsSum DEF TypeOK
<1>2. CASE \E i \in DOMAIN b.legs : a \in {b.legs[i].maker, b.requester}
  BY <1>1, <1>2 DEF Covered
<1>3. CASE \A i \in DOMAIN b.legs : a \notin {b.legs[i].maker, b.requester}
  BY <1>1, <1>3, DebitIsSum
<1> QED BY <1>2, <1>3

(* A settlement moves what it debits into the escrows it forms.             *)
LEMMA SettleMoves ==
  ASSUME TypeOK, NEW b, b \in Bundle, Covered(b),
         balance' = [a \in Accounts |-> balance[a] - Debit(b, a)],
         escrows' = escrows \o EscrowsOf(b)
  PROVE  /\ balance' \in [Accounts -> Nat] /\ escrows' \in Seq(Escrow)
         /\ Held' + Locked(escrows') = Held + Locked(escrows)
         /\ \A a \in Accounts :
              balance'[a] + Staked(escrows', a) = balance[a] + Staked(escrows, a)
<1> DEFINE D == DOMAIN b.legs
           fresh == EscrowsOf(b)
           debit == [a \in Accounts |-> Debit(b, a)]
           notional == [i \in D |-> Notional(fresh[i])]
<1>1. balance \in [Accounts -> Nat] /\ escrows \in Seq(Escrow)
  BY DEF TypeOK
<1>2. \A a \in Accounts : debit[a] \in Nat /\ debit[a] <= balance[a]
  BY CoveredDebits
<1>3. /\ fresh \in Seq(Escrow) /\ DOMAIN fresh = D /\ IsFiniteSet(D)
      /\ \A i \in D : fresh[i] \in Escrow /\ fresh[i].state = "Locked"
  BY BundleEscrows
<1>4. \A a \in Accounts : balance'[a] \in Nat /\ balance[a] = balance'[a] + debit[a]
  <2> SUFFICES ASSUME NEW a \in Accounts
               PROVE  balance'[a] \in Nat /\ balance[a] = balance'[a] + debit[a]
    OBVIOUS
  <2>1. balance'[a] = balance[a] - debit[a]
    OBVIOUS
  <2>2. balance[a] \in Nat /\ debit[a] \in Nat /\ debit[a] <= balance[a]
    BY <1>1, <1>2
  <2> HIDE DEF debit
  <2> QED BY <2>1, <2>2
<1>5. balance' \in [Accounts -> Nat]
  BY <1>4
<1>6. escrows' \in Seq(Escrow)
  BY <1>1, <1>3
<1>7. Held = Held' + SumFunctionOnSet(debit, Accounts)
  <2>1. IsFiniteSet(Accounts)
    BY CustodyConstants
  <2> HIDE DEF debit
  <2> QED BY <1>2, <1>4, <2>1, SumPlus DEF Held
<1>8. SumFunctionOnSet(debit, Accounts) = SumFunctionOnSet(notional, D)
  BY DebitsTotal
<1>9. Locked(escrows') = Locked(escrows) + SumFunctionOnSet(notional, D)
  <2>1. \A id \in LockedIn(escrows) :
          /\ Notionals(escrows)[id] \in Nat
          /\ Notionals(escrows')[id] = Notionals(escrows)[id]
    <3> SUFFICES ASSUME NEW id \in LockedIn(escrows)
                 PROVE  /\ Notional(escrows[id]) \in Nat
                        /\ id \in LockedIn(escrows') /\ escrows'[id] = escrows[id]
      BY DEF Notionals
    <3>1. id \in DOMAIN escrows /\ escrows[id].state = "Locked"
      BY DEF LockedIn
    <3>2. id \in DOMAIN escrows' /\ escrows'[id] = escrows[id]
      BY <1>1, <1>3, <3>1
    <3> QED BY <1>1, <3>1, <3>2, AmountsNatural DEF LockedIn
  <2>2. \A i \in DOMAIN fresh :
          /\ notional[i] \in Nat
          /\ Notionals(escrows')[Len(escrows) + i] = notional[i]
    <3> SUFFICES ASSUME NEW i \in D
                 PROVE  /\ Notional(fresh[i]) \in Nat
                        /\ Len(escrows) + i \in LockedIn(escrows')
                        /\ escrows'[Len(escrows) + i] = fresh[i]
      BY <1>3 DEF Notionals
    <3>1. Len(escrows) + i \in DOMAIN escrows' /\ escrows'[Len(escrows) + i] = fresh[i]
      BY <1>1, <1>3
    <3>2. fresh[i].state = "Locked" /\ Notional(fresh[i]) \in Nat
      BY <1>3, AmountsNatural
    <3> QED BY <3>1, <3>2 DEF LockedIn
  <2>3. \A i \in DOMAIN fresh : fresh[i].state = "Locked"
    BY <1>3
  <2> DEFINE f == Notionals(escrows)
             h == Notionals(escrows')
  <2> HIDE DEF D, fresh, notional, f, h
  <2>4. /\ \A id \in LockedIn(escrows) : f[id] \in Nat /\ h[id] = f[id]
        /\ \A i \in DOMAIN fresh : notional[i] \in Nat /\ h[Len(escrows) + i] = notional[i]
        /\ escrows \in Seq(Escrow) /\ fresh \in Seq(Escrow)
    BY <1>1, <1>3, <2>1, <2>2 DEF f, h
  <2>5. SumFunctionOnSet(h, LockedIn(escrows \o fresh))
          = SumFunctionOnSet(f, LockedIn(escrows)) + SumFunctionOnSet(notional, DOMAIN fresh)
    <3>1. Grows(escrows, fresh, f, notional, h)
      BY ONLY <2>3, <2>4 DEF Grows
    <3> QED BY ONLY <3>1, TablesGrow
  <2> QED BY <1>3, <2>5 DEF Locked, fresh, f, h
<1>10. \A a \in Accounts : Staked(escrows', a) = Staked(escrows, a) + debit[a]
  <2> SUFFICES ASSUME NEW a \in Accounts
               PROVE  Staked(escrows', a) = Staked(escrows, a) + debit[a]
    OBVIOUS
  <2>1. \A id \in LockedIn(escrows) :
          /\ Stakes(escrows, a)[id] \in Nat
          /\ Stakes(escrows', a)[id] = Stakes(escrows, a)[id]
    <3> SUFFICES ASSUME NEW id \in LockedIn(escrows)
                 PROVE  /\ Stake(escrows[id], a) \in Nat
                        /\ id \in LockedIn(escrows') /\ escrows'[id] = escrows[id]
      BY DEF Stakes
    <3>1. id \in DOMAIN escrows /\ escrows[id].state = "Locked"
      BY DEF LockedIn
    <3>2. id \in DOMAIN escrows' /\ escrows'[id] = escrows[id]
      BY <1>1, <1>3, <3>1
    <3> QED BY <1>1, <3>1, <3>2, AmountsNatural DEF LockedIn
  <2>2. \A i \in DOMAIN fresh :
          /\ Owed(b, a)[i] \in Nat
          /\ Stakes(escrows', a)[Len(escrows) + i] = Owed(b, a)[i]
    <3> SUFFICES ASSUME NEW i \in D
                 PROVE  /\ Owed(b, a)[i] \in Nat /\ Owed(b, a)[i] = Stake(fresh[i], a)
                        /\ Len(escrows) + i \in LockedIn(escrows')
                        /\ escrows'[Len(escrows) + i] = fresh[i]
      BY <1>3 DEF Stakes
    <3>1. Len(escrows) + i \in DOMAIN escrows' /\ escrows'[Len(escrows) + i] = fresh[i]
      BY <1>1, <1>3
    <3>2. fresh[i].state = "Locked"
      BY <1>3
    <3>3. Owed(b, a)[i] \in Nat
      BY DebitIsSum
    <3> QED BY <3>1, <3>2, <3>3 DEF LockedIn, Owed
  <2>3. debit[a] = SumFunctionOnSet(Owed(b, a), D)
    BY DebitIsSum
  <2>4. \A i \in DOMAIN fresh : fresh[i].state = "Locked"
    BY <1>3
  <2> DEFINE f == Stakes(escrows, a)
             g == Owed(b, a)
             h == Stakes(escrows', a)
  <2> HIDE DEF D, fresh, debit, f, g, h
  <2>5. /\ \A id \in LockedIn(escrows) : f[id] \in Nat /\ h[id] = f[id]
        /\ \A i \in DOMAIN fresh : g[i] \in Nat /\ h[Len(escrows) + i] = g[i]
        /\ escrows \in Seq(Escrow) /\ fresh \in Seq(Escrow)
    BY <1>1, <1>3, <2>1, <2>2 DEF f, g, h
  <2>6. SumFunctionOnSet(h, LockedIn(escrows \o fresh))
          = SumFunctionOnSet(f, LockedIn(escrows)) + SumFunctionOnSet(g, DOMAIN fresh)
    <3>1. Grows(escrows, fresh, f, g, h)
      BY ONLY <2>4, <2>5 DEF Grows
    <3> QED BY ONLY <3>1, TablesGrow
  <2> QED BY <1>3, <2>3, <2>6 DEF Staked, fresh, f, g, h
<1> DEFINE total == SumFunctionOnSet(debit, Accounts)
<1>11. total \in Nat /\ Held' \in Nat /\ Locked(escrows) \in Nat
  <2>1. IsFiniteSet(Accounts)
    BY CustodyConstants
  <2>2. Held' \in Nat
    BY <1>4, <2>1, SumOne DEF Held
  <2> HIDE DEF debit
  <2>3. SumFunctionOnSet(debit, Accounts) \in Nat
    BY <1>2, <2>1, SumOne
  <2> QED BY <1>1, <2>2, <2>3, TablesNatural
<1>12. Held' + Locked(escrows') = Held + Locked(escrows)
  <2>1. Locked(escrows') = Locked(escrows) + total /\ Held = Held' + total
    BY <1>7, <1>8, <1>9
  <2> HIDE DEF total
  <2> QED BY <1>11, <2>1
<1>13. ASSUME NEW a \in Accounts
       PROVE  balance'[a] + Staked(escrows', a) = balance[a] + Staked(escrows, a)
  <2>1. Staked(escrows', a) = Staked(escrows, a) + debit[a] /\ balance[a] = balance'[a] + debit[a]
    BY <1>4, <1>10
  <2>2. debit[a] \in Nat /\ balance'[a] \in Nat /\ Staked(escrows, a) \in Nat
    BY <1>1, <1>2, <1>4, TablesNatural
  <2> HIDE DEF debit
  <2> QED BY <2>1, <2>2
<1> QED BY <1>5, <1>6, <1>12, <1>13

(* A payout moves an escrow's notional back into two balances.              *)
LEMMA PayoutMoves ==
  ASSUME TypeOK, NEW id \in LockedIn(escrows), NEW outcome \in Outcome,
         balance' = [a \in Accounts |-> balance[a] + Credit(escrows[id], outcome, a)],
         escrows' = [escrows EXCEPT ![id].state = "Settled"]
  PROVE  /\ balance' \in [Accounts -> Nat] /\ escrows' \in Seq(Escrow)
         /\ escrows'[id].state = "Settled"
         /\ Held' + Locked(escrows') = Held + Locked(escrows)
         /\ \A a \in Accounts :
              /\ balance[a] \in Nat /\ balance'[a] \in Nat
              /\ Staked(escrows, a) \in Nat /\ Staked(escrows', a) \in Nat
              /\ balance'[a] = balance[a] + Credit(escrows[id], outcome, a)
              /\ Staked(escrows, a) = Staked(escrows', a) + Stake(escrows[id], a)
<1> DEFINE e == escrows[id]
           credit == [a \in Accounts |-> Credit(e, outcome, a)]
<1>1. balance \in [Accounts -> Nat] /\ escrows \in Seq(Escrow)
  BY DEF TypeOK
<1>2. id \in DOMAIN escrows /\ e \in Escrow
  BY <1>1 DEF LockedIn
<1>3. e.requester \in Accounts /\ e.maker \in Accounts
  BY <1>2 DEF Escrow
<1>4. PICK u, v \in Nat :
        /\ u + v = Notional(e)
        /\ \A a : Credit(e, outcome, a)
                    = (IF a = e.requester THEN u ELSE 0) + (IF a = e.maker THEN v ELSE 0)
  <2> HIDE DEF e
  <2> QED BY <1>2, CreditShares
<1>5. \A a \in Accounts : credit[a] \in Nat
  <2> SUFFICES ASSUME NEW a \in Accounts PROVE credit[a] \in Nat
    OBVIOUS
  <2> DEFINE x == IF a = e.requester THEN u ELSE 0
             y == IF a = e.maker THEN v ELSE 0
  <2>1. x \in Nat /\ y \in Nat /\ credit[a] = x + y
    BY <1>4
  <2> HIDE DEF x, y, credit
  <2> QED BY <2>1
<1>6. \A a \in Accounts : balance'[a] \in Nat /\ balance'[a] = balance[a] + credit[a]
  <2> SUFFICES ASSUME NEW a \in Accounts
               PROVE  balance'[a] \in Nat /\ balance'[a] = balance[a] + credit[a]
    OBVIOUS
  <2>1. balance'[a] = balance[a] + credit[a] /\ balance[a] \in Nat /\ credit[a] \in Nat
    BY <1>1, <1>5
  <2> HIDE DEF credit
  <2> QED BY <2>1
<1>7. balance' \in [Accounts -> Nat]
  BY <1>6
<1>8. escrows' \in Seq(Escrow) /\ escrows'[id].state = "Settled"
  <2>1. [e EXCEPT !.state = "Settled"] \in Escrow /\ [e EXCEPT !.state = "Settled"].state = "Settled"
    BY <1>2 DEF Escrow
  <2> DEFINE after == [e EXCEPT !.state = "Settled"]
  <2>2. escrows' = [escrows EXCEPT ![id] = after]
    OBVIOUS
  <2>3. after \in Escrow /\ after.state = "Settled"
    BY <2>1
  <2> HIDE DEF after, e
  <2>4. escrows'[id] = after
    BY <1>1, <1>2, <2>2
  <2>5. escrows \in [1 .. Len(escrows) -> Escrow] /\ Len(escrows) \in Nat
    BY <1>1
  <2>6. escrows' \in Seq(Escrow)
    <3>1. escrows' \in [1 .. Len(escrows) -> Escrow]
      BY <2>2, <2>3, <2>5
    <3> QED BY <2>5, <3>1
  <2> QED BY <2>3, <2>4, <2>6
<1>9. Held' = Held + Notional(e)
  <2> DEFINE p == e.requester
             q == e.maker
  <2>1. Shares(credit, p, u, q, v)
    BY <1>4 DEF Shares
  <2>2. p \in Accounts /\ q \in Accounts /\ IsFiniteSet(Accounts)
    BY <1>3, CustodyConstants
  <2> HIDE DEF p, q, credit
  <2>3. SumFunctionOnSet(credit, Accounts) = u + v
    <3>1. u \in Nat /\ v \in Nat
      OBVIOUS
    <3> QED BY ONLY <3>1, <2>1, <2>2, TwoShares
  <2>4. \A a \in Accounts :
          balance[a] \in Nat /\ credit[a] \in Nat /\ balance'[a] = balance[a] + credit[a]
    BY <1>1, <1>5, <1>6
  <2>5. SumFunctionOnSet(balance', Accounts)
          = SumFunctionOnSet(balance, Accounts) + SumFunctionOnSet(credit, Accounts)
    BY <2>2, <2>4, SumPlus
  <2> QED BY <1>4, <2>3, <2>5 DEF Held
<1>10. \A x \in DOMAIN escrows : x # id => escrows'[x] = escrows[x]
  BY <1>1, <1>2
<1>11. LockedIn(escrows') = LockedIn(escrows) \ {id}
  BY <1>1, <1>2, <1>8, <1>10 DEF LockedIn
<1>12. Locked(escrows) = Notional(e) + Locked(escrows')
  <2> DEFINE f == Notionals(escrows)
             h == Notionals(escrows')
  <2>1. /\ \A x \in LockedIn(escrows) : f[x] \in Nat
        /\ \A x \in LockedIn(escrows') : h[x] = f[x]
        /\ f[id] = Notional(e)
    BY <1>1, <1>10, <1>11, AmountsNatural DEF Notionals, LockedIn
  <2> HIDE DEF f, h
  <2>2. SumFunctionOnSet(f, LockedIn(escrows))
          = f[id] + SumFunctionOnSet(h, LockedIn(escrows'))
    <3>1. /\ escrows \in Seq(Escrow) /\ id \in LockedIn(escrows)
          /\ LockedIn(escrows') = LockedIn(escrows) \ {id}
      BY <1>1, <1>11
    <3> DEFINE R == LockedIn(escrows')
    <3> HIDE DEF R
    <3>2. (\A x \in R : h[x] = f[x]) /\ R = LockedIn(escrows) \ {id}
      BY <2>1, <3>1 DEF R
    <3>3. SumFunctionOnSet(f, LockedIn(escrows)) = f[id] + SumFunctionOnSet(h, R)
      BY ONLY <2>1, <3>1, <3>2, TablesShrink
    <3> QED BY <3>3 DEF R
  <2> QED BY <2>1, <2>2 DEF Locked, f, h
<1>13. ASSUME NEW a \in Accounts
       PROVE  Staked(escrows, a) = Staked(escrows', a) + Stake(e, a)
  <2> DEFINE f == Stakes(escrows, a)
             h == Stakes(escrows', a)
  <2>1. /\ \A x \in LockedIn(escrows) : f[x] \in Nat
        /\ \A x \in LockedIn(escrows') : h[x] = f[x]
        /\ f[id] = Stake(e, a)
    BY <1>1, <1>10, <1>11, AmountsNatural DEF Stakes, LockedIn
  <2> HIDE DEF f, h
  <2>2. SumFunctionOnSet(f, LockedIn(escrows))
          = f[id] + SumFunctionOnSet(h, LockedIn(escrows'))
    <3>1. /\ escrows \in Seq(Escrow) /\ id \in LockedIn(escrows)
          /\ LockedIn(escrows') = LockedIn(escrows) \ {id}
      BY <1>1, <1>11
    <3> DEFINE R == LockedIn(escrows')
    <3> HIDE DEF R
    <3>2. (\A x \in R : h[x] = f[x]) /\ R = LockedIn(escrows) \ {id}
      BY <2>1, <3>1 DEF R
    <3>3. SumFunctionOnSet(f, LockedIn(escrows)) = f[id] + SumFunctionOnSet(h, R)
      BY ONLY <2>1, <3>1, <3>2, TablesShrink
    <3> QED BY <3>3 DEF R
  <2>3. Staked(escrows, a) = Stake(e, a) + Staked(escrows', a)
    BY <2>1, <2>2 DEF Staked, f, h
  <2>4. Stake(e, a) \in Nat /\ Staked(escrows', a) \in Nat
    BY <1>1, <1>2, <1>8, AmountsNatural, TablesNatural
  <2> HIDE DEF e
  <2> QED BY <2>3, <2>4
<1>14. /\ Held \in Nat /\ Locked(escrows') \in Nat /\ Notional(e) \in Nat
       /\ \A a \in Accounts : Staked(escrows, a) \in Nat /\ Staked(escrows', a) \in Nat
  <2>1. IsFiniteSet(Accounts) /\ \A a \in Accounts : balance[a] \in Nat
    BY <1>1, CustodyConstants
  <2>2. Held \in Nat
    BY <2>1, SumOne DEF Held
  <2> QED BY <1>1, <1>2, <1>8, <2>2, AmountsNatural, TablesNatural
<1>15. Held' + Locked(escrows') = Held + Locked(escrows)
  <2> HIDE DEF e
  <2> QED BY <1>9, <1>12, <1>14
<1>16. \A a \in Accounts : balance[a] \in Nat
  BY <1>1
<1> QED BY <1>6, <1>7, <1>8, <1>13, <1>14, <1>15, <1>16

-----------------------------------------------------------------------------
(* The invariant                                                            *)

MInv == TypeOK /\ Held + Locked(escrows) = deposited - withdrawn

LEMMA MInvConserves == MInv => Conservation
BY ConservationMeans DEF MInv

LEMMA InitMoney == CustodyInit => MInv
<1> SUFFICES ASSUME CustodyInit PROVE MInv
  OBVIOUS
<1>1. TypeOK
  BY DEF CustodyInit, LogInit, TypeOK
<1>2. LockedIn(escrows) = {}
  BY DEF CustodyInit, LockedIn
<1>3. Locked(escrows) = 0
  BY <1>2, SumOne, FS_EmptySet DEF Locked
<1>4. Held = 0
  <2>1. IsFiniteSet(Accounts) /\ \A a \in Accounts : balance[a] = 0
    BY CustodyConstants DEF CustodyInit
  <2> QED BY <2>1, SumZero DEF Held
<1> QED BY <1>1, <1>3, <1>4 DEF CustodyInit, MInv

\* What the properties say of one step.
Money ==
  /\ MInv'
  /\ deposited' = deposited /\ withdrawn' = withdrawn =>
       \/ \A a \in Accounts : Position(a)' = Position(a)
       \/ \E id \in DOMAIN escrows :
            LET e == escrows[id]
            IN  /\ e.state = "Locked" /\ escrows'[id].state = "Settled"
                /\ \E x \in {e.maker_contribution, -e.requester_contribution} :
                     \A a \in Accounts :
                       Position(a)' - Position(a) =
                         (IF a = e.requester THEN x ELSE 0) - (IF a = e.maker THEN x ELSE 0)

(* A step that leaves balances and escrows alone.                           *)
LEMMA StillMoney ==
  ASSUME MInv, TypeOK', UNCHANGED <<balance, escrows, deposited, withdrawn>>
  PROVE  Money
<1>1. MInv'
  BY DEF MInv, Held, Locked
<1>2. \A a \in Accounts : Position(a)' = Position(a)
  BY PositionMeans
<1> QED BY <1>1, <1>2 DEF Money

LEMMA HeldNatural ==
  ASSUME MInv
  PROVE  Held \in Nat /\ Locked(escrows) \in Nat /\ deposited \in Nat /\ withdrawn \in Nat
<1>1. IsFiniteSet(Accounts) /\ \A a \in Accounts : balance[a] \in Nat
  BY CustodyConstants DEF MInv, TypeOK
<1>2. Held \in Nat
  BY <1>1, SumOne DEF Held
<1> QED BY <1>2, TablesNatural DEF MInv, TypeOK

LEMMA DepositMoney ==
  ASSUME MInv, NEW a \in Accounts, NEW amount \in Amounts, Deposit(a, amount)
  PROVE  Money
<1>1. amount \in Nat
  BY CustodyConstants
<1>2. balance \in [Accounts -> Nat]
  BY DEF MInv, TypeOK
<1>3. /\ balance' = [balance EXCEPT ![a] = @ + amount] /\ deposited' = deposited + amount
      /\ UNCHANGED <<now, pending, matures_at, escrows, resolved, withdrawn, queue, head>>
  BY DEF Deposit, Append1
<1>4. balance' \in [Accounts -> Nat]
  BY <1>1, <1>2, <1>3
<1>5. TypeOK'
  BY <1>1, <1>3, <1>4 DEF MInv, TypeOK
<1>6. Held' = Held + amount
  BY <1>1, <1>2, <1>3, OneBalanceMoves DEF Held
<1>7. MInv'
  <2>1. Locked(escrows') = Locked(escrows) /\ withdrawn' = withdrawn
    BY <1>3
  <2>2. Held + Locked(escrows) = deposited - withdrawn
    BY DEF MInv
  <2>3. Held' + Locked(escrows') = deposited' - withdrawn'
    BY <1>1, <1>3, <1>6, <2>1, <2>2, HeldNatural
  <2> QED BY <1>5, <2>3 DEF MInv
<1>8. ASSUME deposited' = deposited PROVE \A x \in Accounts : Position(x)' = Position(x)
  <2>1. amount = 0
    BY <1>1, <1>3, <1>8, HeldNatural
  <2>2. balance' = balance
    BY <1>2, <1>3, <2>1
  <2> QED BY <1>3, <2>2, PositionMeans
<1> QED BY <1>7, <1>8 DEF Money

LEMMA PaidOutBounded ==
  ASSUME TypeOK, NEW a \in Accounts
  PROVE  PaidOut(a) \in Nat /\ PaidOut(a) <= balance[a]
<1> DEFINE p == pending[a]
           q == balance[a]
<1>1. p \in Nat /\ q \in Nat
  BY DEF TypeOK
<1>2. PaidOut(a) = CHOOSE x \in {p, q} : \A y \in {p, q} : x <= y
  BY DEF PaidOut, Min
<1> HIDE DEF p, q
<1>3. \E x \in {p, q} : \A y \in {p, q} : x <= y
  BY <1>1
<1>4. PaidOut(a) \in {p, q} /\ \A y \in {p, q} : PaidOut(a) <= y
  BY <1>2, <1>3
<1> QED BY <1>1, <1>4 DEF p, q

LEMMA WithdrawMoney ==
  ASSUME MInv, NEW a \in Accounts, ExecuteWithdrawal(a)
  PROVE  Money
<1> DEFINE paid == PaidOut(a)
<1>1. paid \in Nat /\ paid <= balance[a]
  BY PaidOutBounded DEF MInv
<1>2. balance \in [Accounts -> Nat] /\ pending \in [Accounts -> Nat]
  BY DEF MInv, TypeOK
<1>3. /\ balance' = [balance EXCEPT ![a] = @ - paid] /\ withdrawn' = withdrawn + paid
      /\ pending' = [pending EXCEPT ![a] = 0]
      /\ UNCHANGED <<now, matures_at, escrows, resolved, deposited, queue, head>>
  BY DEF ExecuteWithdrawal, Append1
<1> HIDE DEF paid
<1>4. balance' \in [Accounts -> Nat] /\ balance = [balance' EXCEPT ![a] = @ + paid]
  <2>1. balance[a] - paid \in Nat /\ (balance[a] - paid) + paid = balance[a]
    BY <1>1, <1>2
  <2> QED BY <1>2, <1>3, <2>1
<1>5. TypeOK'
  <2>1. pending' \in [Accounts -> Nat] /\ withdrawn' \in Nat
    BY <1>1, <1>2, <1>3, HeldNatural
  <2> QED BY <1>3, <1>4, <2>1 DEF MInv, TypeOK
<1>6. Held = Held' + paid
  BY <1>1, <1>4, OneBalanceMoves DEF Held
<1>7. MInv'
  <2>1. Locked(escrows') = Locked(escrows) /\ deposited' = deposited
    BY <1>3
  <2>2. Held + Locked(escrows) = deposited - withdrawn
    BY DEF MInv
  <2>3. Held' \in Nat
    <3>1. IsFiniteSet(Accounts) /\ \A x \in Accounts : balance'[x] \in Nat
      BY <1>4, CustodyConstants
    <3> QED BY <3>1, SumOne DEF Held
  <2>4. Held' + Locked(escrows') = deposited' - withdrawn'
    BY <1>1, <1>3, <1>6, <2>1, <2>2, <2>3, HeldNatural
  <2> QED BY <1>5, <2>4 DEF MInv
<1>8. ASSUME withdrawn' = withdrawn PROVE \A x \in Accounts : Position(x)' = Position(x)
  <2>1. paid = 0
    BY <1>1, <1>3, <1>8, HeldNatural
  <2>2. balance' = balance
    BY <1>2, <1>3, <2>1
  <2> QED BY <1>3, <2>2, PositionMeans
<1> QED BY <1>7, <1>8 DEF Money

LEMMA IncludeMoney ==
  ASSUME MInv, IncludeNext
  PROVE  Money
<1> DEFINE b == Head(queue)
<1>1. queue \in Seq(Bundle) /\ queue # <<>>
  BY DEF MInv, TypeOK, IncludeNext
<1>2. b \in Bundle /\ queue' = Tail(queue) /\ Tail(queue) \in Seq(Bundle)
  BY <1>1 DEF IncludeNext
<1>3. UNCHANGED <<now, pending, matures_at, deposited, withdrawn>>
  BY DEF IncludeNext
<1>4. b.nonce \in Nonces
  BY <1>2 DEF Bundle
<1>5. CASE Answered(b.nonce) /\ UNCHANGED <<balance, escrows, resolved, logVars>>
  <2>1. TypeOK'
    BY <1>2, <1>3, <1>5 DEF MInv, TypeOK, logVars
  <2> QED BY <1>3, <1>5, <2>1, StillMoney
<1>6. CASE Valid(b) /\ SettleAll(b)
  <2>1. TypeOK /\ Covered(b)
    BY <1>6 DEF MInv, Valid
  <2>2. /\ balance' = [a \in Accounts |-> balance[a] - Debit(b, a)]
        /\ escrows' = escrows \o EscrowsOf(b)
        /\ Resolve(b.nonce, "Settled") /\ UNCHANGED head
    BY <1>6 DEF SettleAll, Append1
  <2>3. DOMAIN resolved' \subseteq Nonces
        /\ \A n \in DOMAIN resolved' : resolved'[n] \in {"Settled", "Reverted"}
    <3> HIDE DEF b
    <3> QED BY <1>4, <2>1, <2>2 DEF Resolve, TypeOK
  <2> HIDE DEF b
  <2>4. /\ balance' \in [Accounts -> Nat] /\ escrows' \in Seq(Escrow)
        /\ Held' + Locked(escrows') = Held + Locked(escrows)
        /\ \A a \in Accounts :
             balance'[a] + Staked(escrows', a) = balance[a] + Staked(escrows, a)
    BY <1>2, <2>1, <2>2, SettleMoves
  <2>5. TypeOK'
    BY <1>2, <1>3, <2>1, <2>2, <2>3, <2>4 DEF TypeOK
  <2>6. MInv'
    BY <1>3, <2>4, <2>5 DEF MInv
  <2>7. \A a \in Accounts : Position(a)' = Position(a)
    BY <2>4, PositionMeans
  <2> QED BY <2>6, <2>7 DEF Money
<1>7. CASE RevertAll(b)
  <2>1. Resolve(b.nonce, "Reverted") /\ UNCHANGED <<balance, escrows, head>>
    BY <1>7 DEF RevertAll, Append1
  <2>2. DOMAIN resolved' \subseteq Nonces
        /\ \A n \in DOMAIN resolved' : resolved'[n] \in {"Settled", "Reverted"}
    <3> HIDE DEF b
    <3> QED BY <1>4, <2>1 DEF Resolve, MInv, TypeOK
  <2>3. TypeOK'
    BY <1>2, <1>3, <2>1, <2>2 DEF MInv, TypeOK
  <2> QED BY <1>3, <2>1, <2>3, StillMoney
<1> QED BY <1>5, <1>6, <1>7 DEF IncludeNext

LEMMA PayoutMoney ==
  ASSUME MInv, NEW id \in DOMAIN escrows, NEW contract \in Contracts, NEW outcome \in Outcome,
         SettleEscrow(id, contract, outcome)
  PROVE  Money
<1> DEFINE e == escrows[id]
<1>1. TypeOK /\ id \in LockedIn(escrows) /\ e.state = "Locked"
  BY DEF MInv, SettleEscrow, Payable, LockedIn
<1>2. /\ balance' = [a \in Accounts |-> balance[a] + Credit(e, outcome, a)]
      /\ escrows' = [escrows EXCEPT ![id].state = "Settled"]
      /\ UNCHANGED <<now, pending, matures_at, resolved, deposited, withdrawn, queue, head>>
  BY DEF SettleEscrow, Append1
<1>3. /\ balance' \in [Accounts -> Nat] /\ escrows' \in Seq(Escrow)
      /\ escrows'[id].state = "Settled"
      /\ Held' + Locked(escrows') = Held + Locked(escrows)
      /\ \A a \in Accounts :
           /\ balance[a] \in Nat /\ balance'[a] \in Nat
           /\ Staked(escrows, a) \in Nat /\ Staked(escrows', a) \in Nat
           /\ balance'[a] = balance[a] + Credit(e, outcome, a)
           /\ Staked(escrows, a) = Staked(escrows', a) + Stake(e, a)
  BY <1>1, <1>2, PayoutMoves
<1>4. TypeOK'
  BY <1>1, <1>2, <1>3 DEF TypeOK
<1>5. MInv'
  BY <1>2, <1>3, <1>4 DEF MInv
<1> DEFINE rc == e.requester_contribution
           mc == e.maker_contribution
<1>6. e \in Escrow /\ rc \in Nat /\ mc \in Nat /\ Notional(e) = rc + mc
  <2>1. escrows \in Seq(Escrow)
    BY <1>1 DEF TypeOK
  <2>2. e \in Escrow
    BY <2>1
  <2> HIDE DEF e
  <2> QED BY <2>2 DEF Escrow, Notional
<1> HIDE DEF e
<1>7. PICK u, v \in Nat :
        /\ u + v = Notional(e)
        /\ \A a : Credit(e, outcome, a)
                    = (IF a = e.requester THEN u ELSE 0) + (IF a = e.maker THEN v ELSE 0)
        /\ \/ u = rc /\ v = mc
           \/ u = Notional(e) /\ v = 0
           \/ u = 0 /\ v = Notional(e)
  BY <1>6, CreditShares
<1> DEFINE x == u - rc
<1>8. x = 0 \/ x \in {mc, -rc}
  <2> HIDE DEF rc, mc
  <2> QED BY <1>6, <1>7
<1>9. \A a \in Accounts :
        Position(a)' - Position(a)
          = (IF a = e.requester THEN x ELSE 0) - (IF a = e.maker THEN x ELSE 0)
  <2> SUFFICES ASSUME NEW a \in Accounts
               PROVE  Position(a)' - Position(a)
                        = (IF a = e.requester THEN x ELSE 0) - (IF a = e.maker THEN x ELSE 0)
    OBVIOUS
  <2> DEFINE stake == Stake(e, a)
             credit == Credit(e, outcome, a)
  <2>1. stake = (IF a = e.requester THEN rc ELSE 0) + (IF a = e.maker THEN mc ELSE 0)
    BY DEF Stake
  <2>2. credit = (IF a = e.requester THEN u ELSE 0) + (IF a = e.maker THEN v ELSE 0)
    BY <1>7
  <2>3. v - mc = -x
    <3> HIDE DEF rc, mc
    <3> QED BY <1>6, <1>7
  <2> HIDE DEF rc, mc, stake, credit
  <2>4. stake \in Nat /\ credit \in Nat
    BY <1>6, <1>7, <2>1, <2>2
  <2>5. credit - stake = (IF a = e.requester THEN x ELSE 0) - (IF a = e.maker THEN x ELSE 0)
    BY <1>6, <1>7, <2>1, <2>2, <2>3
  <2>6. /\ Position(a) = balance[a] + Staked(escrows, a)
        /\ Position(a)' = balance'[a] + Staked(escrows', a)
    BY PositionMeans
  <2>7. /\ balance[a] \in Nat /\ balance'[a] \in Nat
        /\ Staked(escrows, a) \in Nat /\ Staked(escrows', a) \in Nat
        /\ balance'[a] = balance[a] + credit
        /\ Staked(escrows, a) = Staked(escrows', a) + stake
    BY <1>3 DEF stake, credit
  <2>8. Position(a)' - Position(a) = credit - stake
    BY <2>4, <2>6, <2>7
  <2> QED BY <2>5, <2>8
<1>10. CASE x = 0
  <2>1. \A a \in Accounts : Position(a)' = Position(a)
    <3> SUFFICES ASSUME NEW a \in Accounts PROVE Position(a)' = Position(a)
      OBVIOUS
    <3> DEFINE p == Position(a)
               q == Position(a)'
    <3>1. q - p = 0
      BY <1>9, <1>10
    <3>2. p \in Nat /\ q \in Nat
      BY <1>3, PositionMeans
    <3> HIDE DEF p, q
    <3>3. q = p
      BY <3>1, <3>2
    <3> QED BY <3>3 DEF p, q
  <2> QED BY <1>5, <2>1 DEF Money
<1>11. CASE x \in {mc, -rc}
  <2> HIDE DEF x
  <2> QED BY <1>1, <1>3, <1>5, <1>9, <1>11 DEF Money, e
<1> QED BY <1>8, <1>10, <1>11

LEMMA MoneyStep == MInv /\ [CustodyNext]_custodyVars => Money
<1> SUFFICES ASSUME MInv, [CustodyNext]_custodyVars PROVE Money
  OBVIOUS
<1> USE DEF MInv, TypeOK
<1>1. CASE UNCHANGED custodyVars
  <2>1. TypeOK'
    BY <1>1 DEF custodyVars, ledgerVars, logVars
  <2> QED BY <1>1, <2>1, StillMoney DEF custodyVars, ledgerVars
<1>2. CASE Tick
  <2>1. TypeOK'
    BY <1>2 DEF Tick, ledgerVars, logVars
  <2> QED BY <1>2, <2>1, StillMoney DEF Tick, ledgerVars
<1>3. CASE \E a \in Accounts, amount \in Amounts : Deposit(a, amount)
  <2> USE DEF MInv
  <2> QED BY <1>3, DepositMoney
<1>4. ASSUME NEW a \in Accounts, NEW amount \in Amounts, RequestWithdrawal(a, amount)
      PROVE  Money
  <2>1. amount \in Nat
    BY CustodyConstants
  <2>2. matures_at' \in [Accounts -> Nat] /\ pending' \in [Accounts -> Nat]
    BY <1>4, <2>1, CustodyConstants DEF RequestWithdrawal
  <2>3. TypeOK'
    BY <1>4, <2>2 DEF RequestWithdrawal, Append1
  <2> QED BY <1>4, <2>3, StillMoney DEF RequestWithdrawal
<1>5. CASE \E a \in Accounts : ExecuteWithdrawal(a)
  BY <1>5, WithdrawMoney
<1>6. ASSUME NEW b \in Bundles, Submit(b) PROVE Money
  <2>1. queue' \in Seq(Bundle)
    BY <1>6, CustodyConstants DEF Submit
  <2>2. TypeOK'
    BY <1>6, <2>1 DEF Submit, ledgerVars, logVars
  <2> QED BY <1>6, <2>2, StillMoney DEF Submit, ledgerVars
<1>7. CASE DropNextSubmission
  <2>1. queue' \in Seq(Bundle)
    BY <1>7 DEF DropNextSubmission
  <2>2. TypeOK'
    BY <1>7, <2>1 DEF DropNextSubmission, ledgerVars, logVars
  <2> QED BY <1>7, <2>2, StillMoney DEF DropNextSubmission, ledgerVars
<1>8. CASE IncludeNext
  BY <1>8, IncludeMoney
<1>9. CASE \E id \in DOMAIN escrows, contract \in Contracts, outcome \in Outcome :
             SettleEscrow(id, contract, outcome)
  BY <1>9, PayoutMoney
<1> QED BY <1>1, <1>2, <1>3, <1>4, <1>5, <1>6, <1>7, <1>8, <1>9 DEF CustodyNext

-----------------------------------------------------------------------------
(* Every unit that was deposited and not withdrawn is in a balance or in an *)
(* escrow that is still locked (SPEC 15.5), and no balance is overdrawn.    *)
THEOREM MoneyIsConserved == Spec => []Conservation
<1>1. CustodyInit => MInv
  BY InitMoney
<1>2. MInv /\ [CustodyNext]_custodyVars => MInv'
  BY MoneyStep DEF Money
<1>3. MInv => Conservation
  BY MInvConserves
<1> QED BY <1>1, <1>2, <1>3, PTL DEF Spec

(* What accounts hold changes only when an outcome is paid, and then one    *)
(* side takes exactly what the other had put in (custody.rs settle_escrow). *)
THEOREM OnlyOutcomesMoveMoney == Spec => PositionsMoveOnlyByOutcome
<1>1. CustodyInit => MInv
  BY InitMoney
<1>2. MInv /\ [CustodyNext]_custodyVars => MInv'
  BY MoneyStep DEF Money
<1> DEFINE Step ==
      deposited' = deposited /\ withdrawn' = withdrawn =>
       \/ \A a \in Accounts : Position(a)' = Position(a)
       \/ \E id \in DOMAIN escrows :
            LET e == escrows[id]
            IN  /\ e.state = "Locked" /\ escrows'[id].state = "Settled"
                /\ \E x \in {e.maker_contribution, -e.requester_contribution} :
                     \A a \in Accounts :
                       Position(a)' - Position(a) =
                         (IF a = e.requester THEN x ELSE 0) - (IF a = e.maker THEN x ELSE 0)
<1>3. MInv /\ [CustodyNext]_custodyVars => Step
  BY MoneyStep DEF Money
<1>4. MInv /\ [CustodyNext]_custodyVars => [Step]_custodyVars
  BY <1>3
<1>5. PositionsMoveOnlyByOutcome <=> [][Step]_custodyVars
  BY DEF PositionsMoveOnlyByOutcome
<1> HIDE DEF Step
<1> QED BY <1>1, <1>2, <1>4, <1>5, PTL DEF Spec

-----------------------------------------------------------------------------
(* The accounts of a bundle                                                *)

Meets(known, leg, requester) ==
  LET makers == IF Contains(known, leg.maker) THEN known ELSE Append(known, leg.maker)
  IN  IF Contains(makers, requester) THEN makers ELSE Append(makers, requester)

AppendedTo(s, t) == Len(s) <= Len(t) /\ \A i \in 1 .. Len(s) : t[i] = s[i]

LEMMA MeetsBoth ==
  ASSUME NEW known \in Seq(Accounts), NEW leg \in Leg, NEW requester \in Accounts
  PROVE  /\ Meets(known, leg, requester) \in Seq(Accounts)
         /\ AppendedTo(known, Meets(known, leg, requester))
         /\ Contains(Meets(known, leg, requester), leg.maker)
         /\ Contains(Meets(known, leg, requester), requester)
<1> DEFINE makers == IF Contains(known, leg.maker) THEN known ELSE Append(known, leg.maker)
           all == IF Contains(makers, requester) THEN makers ELSE Append(makers, requester)
<1>1. leg.maker \in Accounts
  BY DEF Leg
<1>2. makers \in Seq(Accounts) /\ AppendedTo(known, makers) /\ Contains(makers, leg.maker)
  <2>1. CASE Contains(known, leg.maker)
    BY <2>1 DEF AppendedTo
  <2>2. CASE ~Contains(known, leg.maker)
    <3>1. /\ Append(known, leg.maker) \in Seq(Accounts)
          /\ Len(Append(known, leg.maker)) = Len(known) + 1
          /\ Append(known, leg.maker)[Len(known) + 1] = leg.maker
          /\ \A i \in 1 .. Len(known) : Append(known, leg.maker)[i] = known[i]
      BY <1>1
    <3> QED BY <2>2, <3>1 DEF AppendedTo, Contains
  <2> QED BY <2>1, <2>2
<1> HIDE DEF makers
<1>3. all \in Seq(Accounts) /\ AppendedTo(makers, all) /\ Contains(all, requester)
  <2>1. CASE Contains(makers, requester)
    BY <1>2, <2>1 DEF AppendedTo
  <2>2. CASE ~Contains(makers, requester)
    <3>1. /\ Append(makers, requester) \in Seq(Accounts)
          /\ Len(Append(makers, requester)) = Len(makers) + 1
          /\ Append(makers, requester)[Len(makers) + 1] = requester
          /\ \A i \in 1 .. Len(makers) : Append(makers, requester)[i] = makers[i]
      BY <1>2
    <3> QED BY <2>2, <3>1 DEF AppendedTo, Contains
  <2> QED BY <2>1, <2>2
<1>4. Meets(known, leg, requester) = all
  BY DEF Meets, makers
<1> HIDE DEF all
<1> QED BY <1>2, <1>3, <1>4 DEF AppendedTo, Contains

(* A maker or the requester of any leg is among them.                      *)
LEMMA PartiesAreAll ==
  ASSUME NEW b \in Bundle
  PROVE  /\ Parties(b) \in Seq(Accounts)
         /\ \A i \in DOMAIN b.legs : /\ Contains(Parties(b), b.legs[i].maker)
                                     /\ Contains(Parties(b), b.requester)
<1> DEFINE legs == b.legs
           N == Len(legs)
           X == Seq(Accounts)
           q == b.requester
           G == [p \in (1 .. N) \X X |-> Meets(p[2], legs[p[1]], q)]
           Solves(h) == h = [s \in SUBSET (1 .. N) |->
                              IF s = {} THEN <<>> ELSE Meets(h[s \ {Max(s)}], legs[Max(s)], q)]
<1>1. legs \in Seq(Leg) /\ q \in Accounts
  BY DEF Bundle
<1>2. N \in Nat /\ DOMAIN legs = 1 .. N /\ \A i \in 1 .. N : legs[i] \in Leg
  BY <1>1
<1>3. Parties(b) = (CHOOSE h : Solves(h))[1 .. N]
  BY <1>2 DEF Parties, FoldLeft, MapThenFoldSet, Meets
<1> HIDE DEF legs, N, q
<1>4. <<>> \in X /\ \A n \in 1 .. N : \A x \in X : Meets(x, legs[n], q) \in X
  BY <1>1, <1>2, MeetsBoth
<1>5. G \in [(1 .. N) \X X -> X]
  BY <1>4
<1>6. \A n \in 1 .. N : \A x \in X : G[<<n, x>>] = Meets(x, legs[n], q)
  OBVIOUS
<1> HIDE DEF X, G
<1>7. \E h : Solves(h)
  <2>1. PICK h \in [SUBSET (1 .. N) -> X] : Folds(h, N, <<>>, G)
    BY <1>2, <1>4, <1>5, FoldExists
  <2>2. ASSUME NEW s \in SUBSET (1 .. N)
        PROVE  h[s] = IF s = {} THEN <<>> ELSE Meets(h[s \ {Max(s)}], legs[Max(s)], q)
    <3>1. CASE s = {}
      BY <2>1, <3>1 DEF Folds
    <3>2. CASE s # {}
      <4>1. Max(s) \in 1 .. N /\ s \ {Max(s)} \in SUBSET (1 .. N)
        <5>1. s \in SUBSET (0 .. N)
          BY <1>2
        <5>2. Max(s) \in s
          BY <1>2, <3>2, <5>1, MaxIsGreatest
        <5> QED BY <5>2
      <4>2. h[s \ {Max(s)}] \in X
        BY <4>1
      <4> QED BY <1>6, <2>1, <3>2, <4>1, <4>2 DEF Folds
    <3> QED BY <3>1, <3>2
  <2> QED BY <2>2
<1>8. PICK w : w = (CHOOSE k : Solves(k)) /\ Solves(w)
  <2> HIDE DEF Solves
  <2> QED BY <1>7
<1>9. \A s \in SUBSET (1 .. N) :
        w[s] = IF s = {} THEN <<>> ELSE Meets(w[s \ {Max(s)}], legs[Max(s)], q)
  BY <1>8
<1> HIDE DEF Solves
<1>10. FoldsPrefixes(w, N, X, <<>>, G)
  <2>1. w[{}] = <<>>
    BY <1>9
  <2>2. ASSUME NEW n \in 1 .. N, w[1 .. (n - 1)] \in X
        PROVE  w[1 .. n] = G[<<n, w[1 .. (n - 1)]>>]
    <3>1. /\ 1 .. n \in SUBSET (1 .. N) /\ 1 .. n # {}
          /\ Max(1 .. n) = n /\ (1 .. n) \ {n} = 1 .. (n - 1)
      BY <1>2, PrefixStep
    <3>2. w[1 .. n] = Meets(w[1 .. (n - 1)], legs[n], q)
      BY <1>9, <3>1
    <3> QED BY <1>6, <2>2, <3>2
  <2> QED BY <2>1, <2>2 DEF FoldsPrefixes
<1>11. PICK f \in [0 .. N -> X] : IteratesTo(f, w[1 .. N], N, <<>>, G)
  BY <1>2, <1>4, <1>5, <1>10, FoldIterates
<1> DEFINE All(n) == \A i \in 1 .. n : Contains(f[n], legs[i].maker) /\ Contains(f[n], q)
           P == {n \in Nat : n <= N => All(n)}
<1>12. 0 \in P
  OBVIOUS
<1>13. ASSUME NEW n \in Nat, n \in P PROVE n + 1 \in P
  <2> DEFINE m == n + 1
  <2>1. ASSUME m <= N PROVE All(m)
    <3>1. m \in 1 .. N /\ m - 1 = n /\ n <= N /\ n \in 0 .. N
      BY <1>2, <2>1
    <3>2. All(n) /\ f[n] \in Seq(Accounts)
      BY <1>13, <3>1 DEF X
    <3> HIDE DEF m
    <3>3. f[m] = Meets(f[n], legs[m], q)
      BY <1>6, <1>11, <3>1 DEF Iterates, IteratesTo
    <3>4. /\ AppendedTo(f[n], f[m])
          /\ Contains(f[m], legs[m].maker) /\ Contains(f[m], q)
          /\ f[m] \in Seq(Accounts)
      BY <1>1, <1>2, <3>1, <3>2, <3>3, MeetsBoth
    <3>5. ASSUME NEW i \in 1 .. n PROVE Contains(f[m], legs[i].maker)
      <4>1. PICK j \in 1 .. Len(f[n]) : f[n][j] = legs[i].maker
        BY <3>2 DEF Contains
      <4>2. j \in 1 .. Len(f[m]) /\ f[m][j] = legs[i].maker
        BY <3>2, <3>4, <4>1 DEF AppendedTo
      <4> QED BY <4>2 DEF Contains
    <3> QED BY <3>1, <3>4, <3>5
  <2> HIDE DEF All
  <2> QED BY <2>1
<1>14. N \in P
  <2> HIDE DEF P
  <2> QED BY <1>2, <1>12, <1>13, NaturalInduction
<1>15. All(N)
  BY <1>2, <1>14
<1>16. f[N] = Parties(b)
  BY <1>3, <1>8, <1>11 DEF IteratesTo
<1>17. f[N] \in Seq(Accounts)
  BY <1>2 DEF X
<1> HIDE DEF All
<1>18. \A i \in DOMAIN legs : Contains(Parties(b), legs[i].maker) /\ Contains(Parties(b), q)
  BY <1>2, <1>15, <1>16 DEF All
<1> QED BY <1>16, <1>17, <1>18 DEF legs, q

-----------------------------------------------------------------------------
(* What custody writes in the log                                          *)

BalanceNotice == [kind : {"BalanceChanged"}, account : Accounts, available : Nat]
AnswerNotice == [kind : {"SettlementResolved"}, nonce : Nonces, status : {"Settled", "Reverted"}]
Notice == BalanceNotice \cup AnswerNotice
NoticeEntry == [block : Nat, tx : Nat, index : Nat, payload : Notice]

LogTyped == entries \in Seq(NoticeEntry) /\ next_tx = Len(entries) /\ head \in Nat

Says(es, i, a) == es[i].payload.kind = "BalanceChanged" /\ es[i].payload.account = a
Tells(es, i, n) == es[i].payload.kind = "SettlementResolved" /\ es[i].payload.nonce = n

(* What an append of these payloads does to the log.                       *)
Grown(es, payloads) ==
  /\ es \in Seq(NoticeEntry)
  /\ Len(es) = Len(entries) + Len(payloads)
  /\ \A i \in 1 .. Len(entries) : es[i] = entries[i]
  /\ \A i \in 1 .. Len(payloads) : es[Len(entries) + i].payload = payloads[i]

LEMMA LogGrows ==
  ASSUME LogTyped, NEW payloads \in Seq(Notice), Append1(payloads)
  PROVE  LogTyped' /\ Grown(entries', payloads)
<1> DEFINE more == [i \in DOMAIN payloads |->
                      [block |-> head, tx |-> next_tx + i - 1, index |-> 0, payload |-> payloads[i]]]
           k == Len(payloads)
<1>1. DOMAIN payloads = 1 .. k /\ k \in Nat /\ \A i \in 1 .. k : payloads[i] \in Notice
  OBVIOUS
<1>2. next_tx \in Nat /\ head \in Nat
  BY DEF LogTyped
<1>3. more \in [1 .. k -> NoticeEntry]
  BY <1>1, <1>2 DEF NoticeEntry
<1>4. more \in Seq(NoticeEntry) /\ Len(more) = k
  BY <1>1, <1>3, SeqDef
<1>5. \A i \in 1 .. k : more[i].payload = payloads[i]
  BY <1>1
<1>6. entries' = entries \o more /\ next_tx' = next_tx + k /\ head' = head
  BY DEF Append1
<1> HIDE DEF more
<1> DEFINE long == entries \o more
<1>7. /\ long \in Seq(NoticeEntry) /\ Len(long) = Len(entries) + k /\ Len(entries) \in Nat
      /\ \A i \in 1 .. Len(entries) : long[i] = entries[i]
      /\ \A i \in 1 .. k : long[Len(entries) + i] = more[i]
  BY <1>1, <1>4 DEF LogTyped
<1> HIDE DEF long
<1>8. Grown(long, payloads)
  BY <1>5, <1>7 DEF Grown
<1>9. LogTyped'
  BY <1>2, <1>6, <1>7 DEF LogTyped, long
<1> QED BY <1>6, <1>8, <1>9 DEF long

(* Every index of the longer log is an old one or a new one.               *)
LEMMA GrownIndex ==
  ASSUME LogTyped, NEW payloads \in Seq(Notice), NEW es, Grown(es, payloads)
  PROVE  /\ Len(entries) \in Nat /\ Len(payloads) \in Nat
         /\ \A i \in 1 .. Len(es) : i \in 1 .. Len(entries)
                                     \/ \E j \in 1 .. Len(payloads) : i = Len(entries) + j
         /\ \A i \in 1 .. Len(entries) : i \in 1 .. Len(es)
         /\ \A j \in 1 .. Len(payloads) : Len(entries) + j \in 1 .. Len(es)
<1>1. Len(entries) \in Nat /\ Len(payloads) \in Nat /\ Len(es) = Len(entries) + Len(payloads)
  BY DEF LogTyped, Grown
<1>2. ASSUME NEW i \in 1 .. Len(es), i \notin 1 .. Len(entries)
      PROVE  \E j \in 1 .. Len(payloads) : i = Len(entries) + j
  <2>1. i - Len(entries) \in 1 .. Len(payloads) /\ i = Len(entries) + (i - Len(entries))
    BY <1>1, <1>2
  <2> QED BY <2>1
<1> QED BY <1>1, <1>2

(* Which of the new entries speaks last of an account.                     *)
LEMMA LastIndex ==
  ASSUME NEW N \in Nat, NEW T \in SUBSET (1 .. N), T # {}
  PROVE  \E i \in T : \A j \in T : j <= i
<1>1. T \in SUBSET (0 .. N)
  OBVIOUS
<1> QED BY <1>1, MaxIsGreatest

SaidLast(es, available, a) ==
  \/ available = 0 /\ \A i \in 1 .. Len(es) : ~Says(es, i, a)
  \/ \E i \in 1 .. Len(es) :
       /\ Says(es, i, a) /\ es[i].payload.available = available
       /\ \A j \in 1 .. Len(es) : Says(es, j, a) => j <= i

(* Announced is what is available now, and whoever is not announced has    *)
(* what they had.                                                          *)
Truthful(payloads, before, after) ==
  /\ \A i \in 1 .. Len(payloads) :
       payloads[i].kind = "BalanceChanged" => payloads[i].available = after[payloads[i].account]
  /\ \A a \in Accounts :
       \/ after[a] = before[a]
       \/ \E i \in 1 .. Len(payloads) : payloads[i].kind = "BalanceChanged" /\ payloads[i].account = a

LEMMA SaidLastKeeps ==
  ASSUME LogTyped, NEW payloads \in Seq(Notice), NEW es, Grown(es, payloads),
         NEW before, NEW after, Truthful(payloads, before, after),
         NEW a \in Accounts, SaidLast(entries, before[a], a)
  PROVE  SaidLast(es, after[a], a)
<1> DEFINE L == Len(entries)
           k == Len(payloads)
           T == {i \in 1 .. k : payloads[i].kind = "BalanceChanged" /\ payloads[i].account = a}
<1>1. /\ L \in Nat /\ k \in Nat
      /\ \A i \in 1 .. Len(es) : i \in 1 .. L \/ \E j \in 1 .. k : i = L + j
      /\ \A i \in 1 .. L : i \in 1 .. Len(es)
      /\ \A j \in 1 .. k : L + j \in 1 .. Len(es)
  BY GrownIndex
<1>2. /\ \A i \in 1 .. L : Says(es, i, a) <=> Says(entries, i, a)
      /\ \A i \in 1 .. L : es[i] = entries[i]
      /\ \A i \in 1 .. k : Says(es, L + i, a) <=> i \in T
      /\ \A i \in 1 .. k : es[L + i].payload = payloads[i]
  BY DEF Grown, Says
<1>3. CASE T = {}
  <2>1. after[a] = before[a]
    BY <1>3 DEF Truthful
  <2>2. \A i \in 1 .. Len(es) : Says(es, i, a) => i \in 1 .. L
    BY <1>1, <1>2, <1>3
  <2>3. CASE before[a] = 0 /\ \A i \in 1 .. L : ~Says(entries, i, a)
    BY <1>2, <2>1, <2>2, <2>3 DEF SaidLast
  <2>4. CASE \E i \in 1 .. L : /\ Says(entries, i, a) /\ entries[i].payload.available = before[a]
                               /\ \A j \in 1 .. L : Says(entries, j, a) => j <= i
    <3>1. PICK i \in 1 .. L : /\ Says(entries, i, a) /\ entries[i].payload.available = before[a]
                              /\ \A j \in 1 .. L : Says(entries, j, a) => j <= i
      BY <2>4
    <3>2. i \in 1 .. Len(es) /\ Says(es, i, a) /\ es[i].payload.available = after[a]
      BY <1>1, <1>2, <2>1, <3>1
    <3>3. \A j \in 1 .. Len(es) : Says(es, j, a) => j <= i
      BY <1>2, <2>2, <3>1
    <3> QED BY <3>2, <3>3 DEF SaidLast
  <2> QED BY <2>3, <2>4 DEF SaidLast
<1>4. CASE T # {}
  <2>1. PICK i \in T : \A j \in T : j <= i
    <3>1. T \in SUBSET (1 .. k)
      OBVIOUS
    <3> HIDE DEF T, k
    <3> QED BY <1>1, <1>4, <3>1, LastIndex
  <2>2. i \in 1 .. k /\ payloads[i].available = after[a]
    BY DEF Truthful
  <2>3. L + i \in 1 .. Len(es) /\ Says(es, L + i, a) /\ es[L + i].payload.available = after[a]
    BY <1>1, <1>2, <2>1, <2>2
  <2>4. ASSUME NEW j \in 1 .. Len(es), Says(es, j, a) PROVE j <= L + i
    <3>1. CASE j \in 1 .. L
      BY <1>1, <2>2, <3>1
    <3>2. CASE \E m \in 1 .. k : j = L + m
      <4>1. PICK m \in 1 .. k : j = L + m
        BY <3>2
      <4>2. m \in T
        BY <1>2, <2>4, <4>1
      <4>3. m <= i
        BY <2>1, <4>2
      <4> QED BY <1>1, <2>2, <4>1, <4>3
    <3> QED BY <1>1, <3>1, <3>2
  <2> HIDE DEF L
  <2> QED BY <2>3, <2>4 DEF SaidLast
<1> QED BY <1>3, <1>4

-----------------------------------------------------------------------------
(* What the log tells of a nonce                                           *)

(* Just before an answer that a bundle settled, the balances of its parties. *)
Debited(es, i, n) ==
  \E b \in Bundles : b.nonce = n /\
    \A a \in ToSet(Parties(b)) :
      \E j \in 1 .. (i - 1) : i - j <= Len(Parties(b)) /\ Says(es, j, a)

ToldOnce(es, res, n) ==
  IF n \notin DOMAIN res THEN \A i \in 1 .. Len(es) : ~Tells(es, i, n)
  ELSE \E i \in 1 .. Len(es) :
         /\ Tells(es, i, n) /\ es[i].payload.status = res[n]
         /\ \A j \in 1 .. Len(es) : Tells(es, j, n) => j = i
         /\ res[n] = "Settled" => Debited(es, i, n)

LEMMA DebitedKeeps ==
  ASSUME LogTyped, NEW payloads \in Seq(Notice), NEW es, Grown(es, payloads),
         NEW n, NEW i \in 1 .. Len(entries), Debited(entries, i, n)
  PROVE  Debited(es, i, n)
<1>1. PICK b \in Bundles : b.nonce = n /\
        \A a \in ToSet(Parties(b)) :
          \E j \in 1 .. (i - 1) : i - j <= Len(Parties(b)) /\ Says(entries, j, a)
  BY DEF Debited
<1>2. \A j \in 1 .. (i - 1) : es[j] = entries[j]
  BY GrownIndex DEF Grown
<1>3. \A a \in ToSet(Parties(b)) :
        \E j \in 1 .. (i - 1) : i - j <= Len(Parties(b)) /\ Says(es, j, a)
  BY <1>1, <1>2 DEF Says
<1> QED BY <1>1, <1>3 DEF Debited

(* A nonce the new entries do not speak of keeps its answer.               *)
LEMMA ToldKeeps ==
  ASSUME LogTyped, NEW payloads \in Seq(Notice), NEW es, Grown(es, payloads),
         NEW n, NEW res, NEW res2,
         n \in DOMAIN res <=> n \in DOMAIN res2, n \in DOMAIN res => res2[n] = res[n],
         \A i \in 1 .. Len(payloads) :
           ~(payloads[i].kind = "SettlementResolved" /\ payloads[i].nonce = n),
         ToldOnce(entries, res, n)
  PROVE  ToldOnce(es, res2, n)
<1>1. /\ \A i \in 1 .. Len(entries) : Tells(es, i, n) <=> Tells(entries, i, n)
      /\ \A i \in 1 .. Len(entries) : es[i] = entries[i]
      /\ \A i \in 1 .. Len(payloads) : ~Tells(es, Len(entries) + i, n)
  BY DEF Grown, Tells
<1>2. \A i \in 1 .. Len(es) : Tells(es, i, n) => i \in 1 .. Len(entries) /\ Tells(entries, i, n)
  BY <1>1, GrownIndex
<1>3. CASE n \notin DOMAIN res
  BY <1>2, <1>3 DEF ToldOnce
<1>4. CASE n \in DOMAIN res
  <2>1. PICK i \in 1 .. Len(entries) :
         /\ Tells(entries, i, n) /\ entries[i].payload.status = res[n]
         /\ \A j \in 1 .. Len(entries) : Tells(entries, j, n) => j = i
         /\ res[n] = "Settled" => Debited(entries, i, n)
    BY <1>4 DEF ToldOnce
  <2>2. i \in 1 .. Len(es) /\ Tells(es, i, n) /\ es[i].payload.status = res2[n]
    BY <1>1, <1>4, <2>1, GrownIndex
  <2>3. \A j \in 1 .. Len(es) : Tells(es, j, n) => j = i
    BY <1>2, <2>1
  <2>4. res2[n] = "Settled" => Debited(es, i, n)
    BY <1>4, <2>1, DebitedKeeps
  <2> QED BY <1>4, <2>2, <2>3, <2>4 DEF ToldOnce
<1> QED BY <1>3, <1>4

(* An answer written last, where there was none.                           *)
LEMMA ToldAtLast ==
  ASSUME LogTyped, NEW payloads \in Seq(Notice), NEW es, Grown(es, payloads),
         NEW n, NEW res, NEW res2, n \notin DOMAIN res, n \in DOMAIN res2,
         ToldOnce(entries, res, n),
         NEW k \in Nat, Len(payloads) = k + 1,
         \A i \in 1 .. k : payloads[i].kind = "BalanceChanged",
         payloads[k + 1] = SettlementResolved(n, res2[n]),
         res2[n] = "Settled" => Debited(es, Len(entries) + k + 1, n)
  PROVE  ToldOnce(es, res2, n)
<1> DEFINE L == Len(entries)
           i == L + (k + 1)
<1>0. \A j \in 1 .. Len(es) : j \in 1 .. L \/ \E m \in 1 .. Len(payloads) : j = L + m
  BY ONLY LogTyped, payloads \in Seq(Notice), Grown(es, payloads), GrownIndex
<1>1. \A j \in 1 .. L : ~Tells(es, j, n)
  BY DEF Grown, Tells, ToldOnce
<1>2. \A j \in 1 .. k : ~Tells(es, L + j, n)
  <2> TAKE j \in 1 .. k
  <2>1. j \in 1 .. Len(payloads)
    OBVIOUS
  <2>2. es[L + j].payload = payloads[j]
    BY <2>1 DEF Grown
  <2>3. es[L + j].payload.kind = "BalanceChanged"
    BY <2>2
  <2> QED BY <2>3 DEF Tells
<1>3. i \in 1 .. Len(es) /\ es[i].payload = SettlementResolved(n, res2[n])
  <2>1. k + 1 \in 1 .. Len(payloads)
    OBVIOUS
  <2> QED BY <2>1, GrownIndex DEF Grown
<1>4. Tells(es, i, n) /\ es[i].payload.status = res2[n]
  BY <1>3 DEF Tells, SettlementResolved
<1>5. ASSUME NEW j \in 1 .. Len(es), Tells(es, j, n) PROVE j = i
  <2>1. PICK m \in 1 .. (k + 1) : j = L + m
    <3>1. j \in 1 .. L \/ \E m \in 1 .. Len(payloads) : j = L + m
      BY <1>0
    <3>2. j \notin 1 .. L
      BY <1>1, <1>5
    <3> HIDE DEF L
    <3> QED BY <3>1, <3>2
  <2>2. m = k + 1
    BY <1>2, <1>5, <2>1
  <2> QED BY <2>1, <2>2
<1>6. i = Len(entries) + k + 1
  BY GrownIndex
<1> HIDE DEF i
<1> QED BY <1>3, <1>4, <1>5, <1>6 DEF ToldOnce

-----------------------------------------------------------------------------
(* The log and the state it speaks of                                      *)

Lendable(bal, pend) == [a \in Accounts |-> Available(bal, pend, a)]

AnnouncedInv ==
  /\ LogTyped
  /\ \A i \in 1 .. Len(queue) : queue[i] \in Bundles
  /\ \A a \in Accounts : SaidLast(entries, Lendable(balance, pending)[a], a)
  /\ \A n \in Nonces : ToldOnce(entries, resolved, n)

LEMMA AnnounceSays ==
  ASSUME NEW bal, bal \in [Accounts -> Nat], NEW pend, pend \in [Accounts -> Nat],
         NEW accounts, accounts \in Seq(Accounts)
  PROVE  /\ Announce(accounts, bal, pend) \in Seq(Notice)
         /\ Len(Announce(accounts, bal, pend)) = Len(accounts) /\ Len(accounts) \in Nat
         /\ \A i \in 1 .. Len(accounts) :
              /\ Announce(accounts, bal, pend)[i].kind = "BalanceChanged"
              /\ Announce(accounts, bal, pend)[i].account = accounts[i]
              /\ Announce(accounts, bal, pend)[i].available = Lendable(bal, pend)[accounts[i]]
<1> DEFINE ps == Announce(accounts, bal, pend)
           k == Len(accounts)
<1>1. DOMAIN accounts = 1 .. k /\ k \in Nat /\ \A i \in 1 .. k : accounts[i] \in Accounts
  OBVIOUS
<1>2. \A a \in Accounts : Available(bal, pend, a) \in Nat
  <2> TAKE a \in Accounts
  <2>1. bal[a] \in Nat /\ pend[a] \in Nat
    OBVIOUS
  <2> QED BY <2>1 DEF Available
<1>3. /\ DOMAIN ps = 1 .. k
      /\ \A i \in 1 .. k : ps[i] = BalanceChanged(accounts[i], Available(bal, pend, accounts[i]))
      /\ ps = [i \in 1 .. k |-> ps[i]]
  BY <1>1 DEF Announce
<1> HIDE DEF ps
<1>4. \A i \in 1 .. k : /\ ps[i] \in Notice
                        /\ ps[i].kind = "BalanceChanged"
                        /\ ps[i].account = accounts[i]
                        /\ ps[i].available = Lendable(bal, pend)[accounts[i]]
  <2> TAKE i \in 1 .. k
  <2>1. accounts[i] \in Accounts /\ Available(bal, pend, accounts[i]) \in Nat
    BY <1>1, <1>2
  <2> QED BY <1>3, <2>1 DEF BalanceChanged, Notice, BalanceNotice, Lendable
<1>5. ps \in [1 .. k -> Notice]
  BY <1>3, <1>4
<1>6. ps \in Seq(Notice) /\ Len(ps) = k
  <2> HIDE DEF k
  <2> QED BY <1>1, <1>5, FunctionIsSeq
<1> QED BY <1>1, <1>4, <1>6 DEF ps

(* An operation that only announces balances.                              *)
LEMMA BalancesAnnounced ==
  ASSUME TypeOK, TypeOK', AnnouncedInv, NEW accounts, accounts \in Seq(Accounts),
         Append1(Announce(accounts, balance', pending')),
         \A a \in Accounts : \/ Contains(accounts, a)
                             \/ Available(balance', pending', a) = Available(balance, pending, a),
         UNCHANGED <<resolved, queue>>
  PROVE  AnnouncedInv'
<1> DEFINE ps == Announce(accounts, balance', pending')
           before == Lendable(balance, pending)
           after == Lendable(balance', pending')
<1>1. balance' \in [Accounts -> Nat] /\ pending' \in [Accounts -> Nat]
  BY DEF TypeOK
<1>2. /\ ps \in Seq(Notice) /\ Len(ps) = Len(accounts) /\ Len(accounts) \in Nat
      /\ \A i \in 1 .. Len(accounts) : /\ ps[i].kind = "BalanceChanged"
                                       /\ ps[i].account = accounts[i]
                                       /\ ps[i].available = after[accounts[i]]
  BY <1>1, AnnounceSays
<1>3. Append1(ps)
  OBVIOUS
<1>4. \A a \in Accounts : Contains(accounts, a) \/ after[a] = before[a]
  BY DEF Lendable
<1> HIDE DEF ps, before, after
<1>5. Truthful(ps, before, after)
  BY <1>2, <1>4 DEF Truthful, Contains
<1>6. LogTyped' /\ Grown(entries', ps)
  BY <1>2, <1>3, LogGrows DEF AnnouncedInv
<1>7. ASSUME NEW a \in Accounts PROVE SaidLast(entries', after[a], a)
  <2>1. LogTyped /\ SaidLast(entries, before[a], a)
    BY DEF AnnouncedInv, before
  <2> QED BY <1>2, <1>5, <1>6, <2>1, SaidLastKeeps
<1>8. ASSUME NEW n \in Nonces PROVE ToldOnce(entries', resolved', n)
  <2>1. LogTyped /\ ToldOnce(entries, resolved, n)
    BY DEF AnnouncedInv
  <2>2. \A i \in 1 .. Len(ps) : ~(ps[i].kind = "SettlementResolved" /\ ps[i].nonce = n)
    BY <1>2
  <2> QED BY <1>2, <1>6, <2>1, <2>2, ToldKeeps
<1> QED BY <1>6, <1>7, <1>8 DEF AnnouncedInv, after

(* An operation that says nothing and changes nothing the log speaks of.   *)
LEMMA SilenceKeeps ==
  ASSUME AnnouncedInv, UNCHANGED <<logVars, balance, pending, resolved>>,
         \A i \in 1 .. Len(queue') : queue'[i] \in Bundles
  PROVE  AnnouncedInv'
<1>1. UNCHANGED <<entries, head, next_tx, balance, pending, resolved>>
  BY DEF logVars
<1>2. LogTyped'
  BY <1>1 DEF AnnouncedInv, LogTyped
<1>3. /\ \A a \in Accounts : SaidLast(entries', Lendable(balance', pending')[a], a)
      /\ \A n \in Nonces : ToldOnce(entries', resolved', n)
  BY <1>1 DEF AnnouncedInv
<1> QED BY <1>2, <1>3 DEF AnnouncedInv

LEMMA SlotsKnown ==
  ASSUME TypeOK, AnnouncedInv, queue # <<>>
  PROVE  /\ Head(queue) \in Bundles /\ Head(queue) \in Bundle
         /\ \A i \in 1 .. Len(Tail(queue)) : Tail(queue)[i] \in Bundles
<1>1. queue \in Seq(Bundles)
  <2>1. queue \in Seq(Bundle) /\ \A i \in 1 .. Len(queue) : queue[i] \in Bundles
    BY DEF TypeOK, AnnouncedInv
  <2>2. queue \in [1 .. Len(queue) -> Bundles] /\ Len(queue) \in Nat
    BY <2>1
  <2> QED BY <2>2, SeqDef
<1>2. Head(queue) \in Bundles /\ Tail(queue) \in Seq(Bundles)
  BY <1>1
<1>3. \A i \in 1 .. Len(Tail(queue)) : Tail(queue)[i] \in Bundles
  BY <1>2
<1> QED BY <1>2, <1>3, CustodyConstants

LEMMA AnnouncedStarts == CustodyInit => AnnouncedInv
<1> SUFFICES ASSUME CustodyInit PROVE AnnouncedInv
  OBVIOUS
<1>1. LogTyped /\ Len(entries) = 0 /\ DOMAIN resolved = {} /\ Len(queue) = 0
  BY DEF CustodyInit, LogInit, LogTyped
<1>2. \A a \in Accounts : Lendable(balance, pending)[a] = 0
  BY DEF CustodyInit, Lendable, Available
<1> QED BY <1>1, <1>2 DEF AnnouncedInv, SaidLast, ToldOnce

(* An answer, after the balances of the accounts it moved.                 *)
LEMMA AnswerAnnounced ==
  ASSUME TypeOK, TypeOK', AnnouncedInv, NEW accounts, accounts \in Seq(Accounts),
         NEW n \in Nonces, NEW status \in {"Settled", "Reverted"}, ~Answered(n),
         Resolve(n, status),
         Append1(Announce(accounts, balance', pending') \o <<SettlementResolved(n, status)>>),
         \A a \in Accounts : \/ Contains(accounts, a)
                             \/ Available(balance', pending', a) = Available(balance, pending, a),
         status = "Settled" => \E b \in Bundles : b.nonce = n /\ accounts = Parties(b),
         \A i \in 1 .. Len(queue') : queue'[i] \in Bundles
  PROVE  AnnouncedInv'
<1> DEFINE qs == Announce(accounts, balance', pending')
           answer == SettlementResolved(n, status)
           ps == qs \o <<answer>>
           k == Len(accounts)
           before == Lendable(balance, pending)
           after == Lendable(balance', pending')
<1>1. balance' \in [Accounts -> Nat] /\ pending' \in [Accounts -> Nat]
  BY DEF TypeOK
<1>2. /\ qs \in Seq(Notice) /\ Len(qs) = k /\ k \in Nat
      /\ \A i \in 1 .. k : /\ qs[i].kind = "BalanceChanged"
                           /\ qs[i].account = accounts[i]
                           /\ qs[i].available = after[accounts[i]]
  BY <1>1, AnnounceSays
<1>3. /\ answer \in Notice /\ answer.kind = "SettlementResolved" /\ answer.nonce = n
      /\ answer.status = status
  BY DEF SettlementResolved, Notice, AnswerNotice
<1>4. \A a \in Accounts : Contains(accounts, a) \/ after[a] = before[a]
  BY DEF Lendable
<1>5. Append1(ps)
  OBVIOUS
<1> HIDE DEF qs, answer, before, after
<1>6. /\ ps \in Seq(Notice) /\ Len(ps) = k + 1
      /\ ps[k + 1] = answer /\ \A i \in 1 .. k : ps[i] = qs[i]
  <2>1. /\ ps \in Seq(Notice) /\ Len(ps) = Len(qs) + 1
        /\ ps[Len(qs) + 1] = answer /\ \A i \in 1 .. Len(qs) : ps[i] = qs[i]
    BY <1>2, <1>3, OneMore
  <2> QED BY <1>2, <2>1
<1> HIDE DEF ps
<1>7. Truthful(ps, before, after)
  <2>1. ASSUME NEW i \in 1 .. Len(ps), ps[i].kind = "BalanceChanged"
        PROVE  ps[i].available = after[ps[i].account]
    <3>1. i # k + 1
      BY <1>3, <1>6, <2>1
    <3>2. i \in 1 .. k
      BY <1>2, <1>6, <3>1
    <3> QED BY <1>2, <1>6, <3>2
  <2>2. ASSUME NEW a \in Accounts, Contains(accounts, a)
        PROVE  \E i \in 1 .. Len(ps) : ps[i].kind = "BalanceChanged" /\ ps[i].account = a
    <3>1. PICK i \in 1 .. k : accounts[i] = a
      BY <2>2 DEF Contains
    <3>2. i \in 1 .. Len(ps) /\ ps[i].kind = "BalanceChanged" /\ ps[i].account = a
      BY <1>2, <1>6, <3>1
    <3> QED BY <3>2
  <2> QED BY <1>4, <2>1, <2>2 DEF Truthful
<1>8. LogTyped' /\ Grown(entries', ps)
  BY <1>5, <1>6, LogGrows DEF AnnouncedInv
<1>9. ASSUME NEW a \in Accounts PROVE SaidLast(entries', after[a], a)
  <2>1. LogTyped /\ SaidLast(entries, before[a], a)
    BY DEF AnnouncedInv, before
  <2> QED BY <1>6, <1>7, <1>8, <2>1, SaidLastKeeps
<1>10. /\ n \notin DOMAIN resolved /\ n \in DOMAIN resolved' /\ resolved'[n] = status
       /\ \A m \in Nonces : m # n => /\ m \in DOMAIN resolved <=> m \in DOMAIN resolved'
                                     /\ m \in DOMAIN resolved => resolved'[m] = resolved[m]
  BY DEF Answered, Resolve
<1>11. ASSUME NEW m \in Nonces PROVE ToldOnce(entries', resolved', m)
  <2>1. LogTyped /\ ToldOnce(entries, resolved, m)
    BY DEF AnnouncedInv
  <2>2. CASE m # n
    <3>1. \A i \in 1 .. Len(ps) : ~(ps[i].kind = "SettlementResolved" /\ ps[i].nonce = m)
      <4> TAKE i \in 1 .. Len(ps)
      <4>1. i \in 1 .. k \/ i = k + 1
        BY <1>2, <1>6
      <4> QED BY <1>2, <1>3, <1>6, <2>2, <4>1
    <3>2. /\ m \in DOMAIN resolved <=> m \in DOMAIN resolved'
          /\ m \in DOMAIN resolved => resolved'[m] = resolved[m]
      BY <1>10, <2>2
    <3> QED BY <1>6, <1>8, <2>1, <3>1, <3>2, ToldKeeps
  <2>3. CASE m = n
    <3> DEFINE es == entries'
               res == resolved'
    <3>1. \A i \in 1 .. k : ps[i].kind = "BalanceChanged"
      BY <1>2, <1>6
    <3>2. ps[k + 1] = SettlementResolved(n, res[n])
      BY <1>6, <1>10 DEF answer
    <3>3. ASSUME res[n] = "Settled" PROVE Debited(es, Len(entries) + k + 1, n)
      <4>1. PICK b \in Bundles : b.nonce = n /\ accounts = Parties(b)
        BY <1>10, <3>3
      <4>2. ASSUME NEW a \in ToSet(accounts)
            PROVE  \E j \in 1 .. (Len(entries) + k + 1 - 1) :
                     Len(entries) + k + 1 - j <= Len(accounts) /\ Says(es, j, a)
        <5>1. PICK i \in 1 .. k : accounts[i] = a
          BY <1>2 DEF ToSet
        <5>2. i \in 1 .. Len(ps) /\ ps[i].kind = "BalanceChanged" /\ ps[i].account = a
          BY <1>2, <1>6, <5>1
        <5>3. Says(es, Len(entries) + i, a)
          BY <1>8, <5>2 DEF Grown, Says
        <5>4. Len(entries) \in Nat
          BY <2>1 DEF LogTyped
        <5>5. /\ Len(entries) + i \in 1 .. (Len(entries) + k + 1 - 1)
              /\ Len(entries) + k + 1 - (Len(entries) + i) <= k
          BY <1>2, <5>4
        <5> QED BY <5>3, <5>5
      <4> QED BY <4>1, <4>2 DEF Debited
    <3>4. Grown(es, ps) /\ n \notin DOMAIN resolved /\ n \in DOMAIN res
      BY <1>8, <1>10
    <3>5. ToldOnce(entries, resolved, n)
      BY <2>1, <2>3
    <3> HIDE DEF es, res
    <3>6. ToldOnce(es, res, n)
      BY <1>2, <1>6, <2>1, <3>1, <3>2, <3>3, <3>4, <3>5, ToldAtLast
    <3> QED BY <2>3, <3>6 DEF es, res
  <2> QED BY <2>2, <2>3
<1> QED BY <1>8, <1>9, <1>11 DEF AnnouncedInv, after

LEMMA IncludeAnnounces ==
  ASSUME TypeOK, TypeOK', AnnouncedInv, IncludeNext
  PROVE  AnnouncedInv'
<1> DEFINE b == Head(queue)
<1>1. queue # <<>> /\ queue' = Tail(queue) /\ pending' = pending
  BY DEF IncludeNext
<1>2. b \in Bundles /\ b \in Bundle /\ \A i \in 1 .. Len(queue') : queue'[i] \in Bundles
  BY <1>1, SlotsKnown
<1>3. b.nonce \in Nonces
  BY <1>2 DEF Bundle
<1>4. CASE Answered(b.nonce) /\ UNCHANGED <<balance, escrows, resolved, logVars>>
  BY <1>1, <1>2, <1>4, SilenceKeeps
<1>5. CASE ~Answered(b.nonce) /\ Valid(b) /\ SettleAll(b)
  <2> DEFINE accounts == Parties(b)
  <2>1. /\ accounts \in Seq(Accounts)
        /\ \A i \in DOMAIN b.legs : Contains(accounts, b.legs[i].maker) /\ Contains(accounts, b.requester)
    BY <1>2, PartiesAreAll
  <2>2. ASSUME NEW a \in Accounts, ~Contains(accounts, a)
        PROVE  Available(balance', pending', a) = Available(balance, pending, a)
    <3>1. \A i \in DOMAIN b.legs : a \notin {b.legs[i].maker, b.requester}
      BY <2>1, <2>2
    <3>2. Debit(b, a) = 0
      BY <1>2, <3>1, DebitIsSum
    <3>3. balance'[a] = balance[a] - Debit(b, a) /\ balance[a] \in Nat
      BY <1>5 DEF SettleAll, TypeOK
    <3>4. balance'[a] = balance[a]
      BY <3>2, <3>3
    <3> QED BY <1>1, <3>4 DEF Available
  <2>3. Append1(Announce(accounts, balance', pending') \o <<SettlementResolved(b.nonce, "Settled")>>)
    BY <1>1, <1>5 DEF SettleAll
  <2>4. Resolve(b.nonce, "Settled")
    BY <1>5 DEF SettleAll
  <2>5. \E c \in Bundles : c.nonce = b.nonce /\ accounts = Parties(c)
    BY <1>2
  <2> HIDE DEF accounts, b
  <2> QED BY <1>2, <1>3, <1>5, <2>1, <2>2, <2>3, <2>4, <2>5, AnswerAnnounced
<1>6. CASE ~Answered(b.nonce) /\ ~Valid(b) /\ RevertAll(b)
  <2> DEFINE answer == SettlementResolved(b.nonce, "Reverted")
             qs == Announce(<<>>, balance', pending')
  <2>1. balance' \in [Accounts -> Nat] /\ pending' \in [Accounts -> Nat] /\ <<>> \in Seq(Accounts)
    BY DEF TypeOK
  <2>2. qs \in Seq(Notice) /\ Len(qs) = 0
    <3>1. \A s \in Seq(Accounts) : /\ Announce(s, balance', pending') \in Seq(Notice)
                                    /\ Len(Announce(s, balance', pending')) = Len(s)
      BY <2>1, AnnounceSays
    <3>2. Len(<<>>) = 0
      OBVIOUS
    <3> QED BY <2>1, <3>1, <3>2
  <2> HIDE DEF qs, answer
  <2>3. qs \o <<answer>> = <<answer>>
    BY <2>2
  <2>4. Append1(qs \o <<answer>>)
    BY <1>6, <2>3 DEF RevertAll, answer
  <2>5. Resolve(b.nonce, "Reverted") /\ balance' = balance
    BY <1>6 DEF RevertAll
  <2>6. \A a \in Accounts : Available(balance', pending', a) = Available(balance, pending, a)
    BY <1>1, <2>5 DEF Available
  <2> HIDE DEF b
  <2> QED BY <1>2, <1>3, <1>6, <2>1, <2>4, <2>5, <2>6, AnswerAnnounced DEF qs, answer
<1> QED BY <1>4, <1>5, <1>6 DEF IncludeNext

LEMMA AnnouncedStep ==
  ASSUME TypeOK, TypeOK', AnnouncedInv, [CustodyNext]_custodyVars
  PROVE  AnnouncedInv'
<1>1. CASE Tick
  BY <1>1, SilenceKeeps DEF Tick, ledgerVars, AnnouncedInv
<1>2. CASE \E a \in Accounts, amount \in Amounts : Deposit(a, amount)
  <2>1. PICK a \in Accounts, amount \in Amounts : Deposit(a, amount)
    BY <1>2
  <2>2. /\ <<a>> \in Seq(Accounts) /\ Append1(Announce(<<a>>, balance', pending'))
        /\ UNCHANGED <<pending, resolved, queue>>
        /\ \A c \in Accounts : c # a => balance'[c] = balance[c]
    BY <2>1 DEF Deposit, TypeOK
  <2>3. \A c \in Accounts : Contains(<<a>>, c)
          \/ Available(balance', pending', c) = Available(balance, pending, c)
    BY <2>2 DEF Contains, Available
  <2> QED BY <2>2, <2>3, BalancesAnnounced
<1>3. CASE \E a \in Accounts, amount \in Amounts : RequestWithdrawal(a, amount)
  <2>1. PICK a \in Accounts, amount \in Amounts : RequestWithdrawal(a, amount)
    BY <1>3
  <2>2. /\ <<a>> \in Seq(Accounts) /\ Append1(Announce(<<a>>, balance', pending'))
        /\ UNCHANGED <<balance, resolved, queue>>
        /\ \A c \in Accounts : c # a => pending'[c] = pending[c]
    BY <2>1 DEF RequestWithdrawal, TypeOK
  <2>3. \A c \in Accounts : Contains(<<a>>, c)
          \/ Available(balance', pending', c) = Available(balance, pending, c)
    BY <2>2 DEF Contains, Available
  <2> QED BY <2>2, <2>3, BalancesAnnounced
<1>4. CASE \E a \in Accounts : ExecuteWithdrawal(a)
  <2>1. PICK a \in Accounts : ExecuteWithdrawal(a)
    BY <1>4
  <2>2. /\ <<a>> \in Seq(Accounts) /\ Append1(Announce(<<a>>, balance', pending'))
        /\ UNCHANGED <<resolved, queue>>
        /\ \A c \in Accounts : c # a => balance'[c] = balance[c] /\ pending'[c] = pending[c]
    BY <2>1 DEF ExecuteWithdrawal, TypeOK
  <2>3. \A c \in Accounts : Contains(<<a>>, c)
          \/ Available(balance', pending', c) = Available(balance, pending, c)
    BY <2>2 DEF Contains, Available
  <2> QED BY <2>2, <2>3, BalancesAnnounced
<1>5. CASE \E b \in Bundles : Submit(b)
  <2>1. PICK b \in Bundles : Submit(b)
    BY <1>5
  <2>2. queue' = Append(queue, b) /\ queue \in Seq(Bundle)
    BY <2>1 DEF Submit, TypeOK
  <2>3. \A i \in 1 .. Len(queue') : queue'[i] \in Bundles
    <3> TAKE i \in 1 .. Len(queue')
    <3>1. (i \in 1 .. Len(queue) /\ queue'[i] = queue[i]) \/ queue'[i] = b
      BY <2>2
    <3> QED BY <3>1 DEF AnnouncedInv
  <2> QED BY <2>1, <2>3, SilenceKeeps DEF Submit, ledgerVars
<1>6. CASE DropNextSubmission
  BY <1>6, SlotsKnown, SilenceKeeps DEF DropNextSubmission, ledgerVars
<1>7. CASE IncludeNext
  BY <1>7, IncludeAnnounces
<1>8. CASE \E id \in DOMAIN escrows, contract \in Contracts, outcome \in Outcome :
             SettleEscrow(id, contract, outcome)
  <2>1. PICK id \in DOMAIN escrows, contract \in Contracts, outcome \in Outcome :
             SettleEscrow(id, contract, outcome)
    BY <1>8
  <2> DEFINE e == escrows[id]
             accounts == PayoutOrder(e, outcome)
  <2>2. e \in Escrow
    BY DEF TypeOK
  <2>3. e.requester \in Accounts /\ e.maker \in Accounts
    BY <2>2 DEF Escrow
  <2>4. /\ Append1(Announce(accounts, balance', pending')) /\ UNCHANGED <<pending, resolved, queue>>
        /\ balance' = [a \in Accounts |-> balance[a] + Credit(e, outcome, a)]
    BY <2>1 DEF SettleEscrow
  <2> HIDE DEF e
  <2>5. accounts \in Seq(Accounts) /\ Contains(accounts, e.requester) /\ Contains(accounts, e.maker)
    <3>1. CASE accounts = <<e.requester, e.maker>>
      <4>1. /\ Len(accounts) = 2 /\ accounts[1] = e.requester /\ accounts[2] = e.maker
            /\ accounts \in Seq(Accounts)
        BY <2>3, <3>1
      <4>2. 1 \in 1 .. 2 /\ 2 \in 1 .. 2
        OBVIOUS
      <4> HIDE DEF accounts
      <4> QED BY <4>1, <4>2 DEF Contains
    <3>2. CASE accounts = <<e.maker, e.requester>>
      <4>1. /\ Len(accounts) = 2 /\ accounts[2] = e.requester /\ accounts[1] = e.maker
            /\ accounts \in Seq(Accounts)
        BY <2>3, <3>2
      <4>2. 1 \in 1 .. 2 /\ 2 \in 1 .. 2
        OBVIOUS
      <4> HIDE DEF accounts
      <4> QED BY <4>1, <4>2 DEF Contains
    <3> QED BY <3>1, <3>2 DEF PayoutOrder
  <2>6. ASSUME NEW a \in Accounts, ~Contains(accounts, a)
        PROVE  Available(balance', pending', a) = Available(balance, pending, a)
    <3>1. a # e.requester /\ a # e.maker
      BY <2>5, <2>6
    <3>2. Credit(e, outcome, a) = 0
      BY <3>1 DEF Credit
    <3>3. balance'[a] = balance[a] + Credit(e, outcome, a) /\ balance[a] \in Nat
      BY <2>4 DEF TypeOK
    <3>4. balance'[a] = balance[a]
      BY <3>2, <3>3
    <3> QED BY <2>4, <3>4 DEF Available
  <2> HIDE DEF accounts
  <2> QED BY <2>4, <2>5, <2>6, BalancesAnnounced
<1>9. CASE UNCHANGED custodyVars
  BY <1>9, SilenceKeeps DEF custodyVars, ledgerVars, AnnouncedInv
<1> QED BY <1>1, <1>2, <1>3, <1>4, <1>5, <1>6, <1>7, <1>8, <1>9 DEF CustodyNext

(* The log's last word on an account is what admission may lend against,   *)
(* whatever was deposited, withdrawn, settled or paid in between           *)
(* (custody.rs emits a balance with every change of availability).         *)
THEOREM LogSaysWhatIsAvailable == Spec => []AvailabilityIsAnnounced
<1>1. AnnouncedInv /\ TypeOK => AvailabilityIsAnnounced
  <2> SUFFICES ASSUME AnnouncedInv, TypeOK PROVE AvailabilityIsAnnounced
    OBVIOUS
  <2>1. next_tx = Len(entries) /\ DOMAIN entries = 1 .. Len(entries) /\ Len(entries) \in Nat
    BY DEF AnnouncedInv, LogTyped
  <2>2. ASSUME NEW a \in Accounts
        PROVE  LET said == {i \in DOMAIN entries : /\ entries[i].payload.kind = "BalanceChanged"
                                                   /\ entries[i].payload.account = a}
               IN  Available(balance, pending, a) =
                     IF said = {} THEN 0 ELSE entries[Max(said)].payload.available
    <3> DEFINE said == {i \in DOMAIN entries : /\ entries[i].payload.kind = "BalanceChanged"
                                               /\ entries[i].payload.account = a}
               v == Available(balance, pending, a)
    <3>1. \A i \in 1 .. Len(entries) : i \in said <=> Says(entries, i, a)
      BY <2>1 DEF Says
    <3>2. SaidLast(entries, v, a)
      BY DEF AnnouncedInv, Lendable
    <3>3. CASE v = 0 /\ said = {}
      BY <3>3
    <3>4. CASE \E i \in said : entries[i].payload.available = v /\ \A j \in said : j <= i
      <4>1. PICK i \in said : entries[i].payload.available = v /\ \A j \in said : j <= i
        BY <3>4
      <4>2. said \in SUBSET (0 .. Len(entries)) /\ said # {}
        BY <2>1, <4>1
      <4>3. Max(said) \in said /\ \A j \in said : Max(said) >= j
        BY <2>1, <4>2, MaxIsGreatest
      <4>4. Max(said) = i
        <5>1. Max(said) <= i /\ i <= Max(said)
          BY <4>1, <4>3
        <5>2. Max(said) \in Int /\ i \in Int
          BY <2>1, <4>3
        <5> HIDE DEF said
        <5> QED BY <5>1, <5>2
      <4> QED BY <4>1, <4>4
    <3>5. (v = 0 /\ said = {}) \/ \E i \in said : entries[i].payload.available = v /\ \A j \in said : j <= i
      <4>1. said \subseteq 1 .. Len(entries)
        BY <2>1
      <4> HIDE DEF said
      <4> QED BY <3>1, <3>2, <4>1 DEF SaidLast
    <3> QED BY <3>3, <3>4, <3>5
  <2> QED BY <2>1, <2>2 DEF AvailabilityIsAnnounced
<1>2. CustodyInit => MInv /\ AnnouncedInv
  BY InitMoney, AnnouncedStarts
<1>3. MInv /\ [CustodyNext]_custodyVars => MInv'
  BY MoneyStep DEF Money
<1>4. MInv /\ MInv' /\ AnnouncedInv /\ [CustodyNext]_custodyVars => AnnouncedInv'
  BY AnnouncedStep DEF MInv
<1>5. MInv => TypeOK
  BY DEF MInv
<1> QED BY <1>1, <1>2, <1>3, <1>4, <1>5, PTL DEF Spec

(* A nonce's terminal answer is in the log once, says what custody holds,  *)
(* and follows the balances its settlement moved (custody.rs settle).      *)
THEOREM AnswersFollowTheirDebits == Spec => []AnswersAnnouncedOnceAfterDebits
<1>1. AnnouncedInv => AnswersAnnouncedOnceAfterDebits
  <2> SUFFICES ASSUME AnnouncedInv, NEW n \in Nonces
               PROVE
                 LET told == {i \in DOMAIN entries : /\ entries[i].payload.kind = "SettlementResolved"
                                                     /\ entries[i].payload.nonce = n}
                 IN  IF n \notin DOMAIN resolved THEN told = {}
                     ELSE /\ Cardinality(told) = 1
                          /\ \A i \in told :
                               /\ entries[i].payload.status = resolved[n]
                               /\ resolved[n] = "Settled" =>
                                    \E b \in Bundles : b.nonce = n /\
                                      \A a \in ToSet(Parties(b)) :
                                        \E j \in 1..(i - 1) :
                                          /\ i - j <= Len(Parties(b))
                                          /\ entries[j].payload.kind = "BalanceChanged"
                                          /\ entries[j].payload.account = a
    BY DEF AnswersAnnouncedOnceAfterDebits
  <2> DEFINE told == {i \in DOMAIN entries : /\ entries[i].payload.kind = "SettlementResolved"
                                             /\ entries[i].payload.nonce = n}
  <2>1. DOMAIN entries = 1 .. Len(entries)
    BY DEF AnnouncedInv, LogTyped
  <2>2. ToldOnce(entries, resolved, n)
    BY DEF AnnouncedInv
  <2>3. \A i \in 1 .. Len(entries) : i \in told <=> Tells(entries, i, n)
    BY <2>1 DEF Tells
  <2>4. CASE n \notin DOMAIN resolved
    BY <2>1, <2>2, <2>4 DEF ToldOnce, Tells
  <2>5. CASE n \in DOMAIN resolved
    <3>1. PICK i \in 1 .. Len(entries) :
           /\ Tells(entries, i, n) /\ entries[i].payload.status = resolved[n]
           /\ \A j \in 1 .. Len(entries) : Tells(entries, j, n) => j = i
           /\ resolved[n] = "Settled" => Debited(entries, i, n)
      BY <2>2, <2>5 DEF ToldOnce
    <3>2. told = {i}
      BY <2>1, <2>3, <3>1
    <3>3. Cardinality(told) = 1
      BY <3>2, FS_Singleton
    <3>4. resolved[n] = "Settled" =>
            \E b \in Bundles : b.nonce = n /\
              \A a \in ToSet(Parties(b)) :
                \E j \in 1..(i - 1) :
                  /\ i - j <= Len(Parties(b))
                  /\ entries[j].payload.kind = "BalanceChanged"
                  /\ entries[j].payload.account = a
      BY <3>1 DEF Debited, Says
    <3> HIDE DEF told
    <3> QED BY <2>5, <3>1, <3>2, <3>3, <3>4 DEF told
  <2> QED BY <2>4, <2>5
<1>2. CustodyInit => MInv /\ AnnouncedInv
  BY InitMoney, AnnouncedStarts
<1>3. MInv /\ [CustodyNext]_custodyVars => MInv'
  BY MoneyStep DEF Money
<1>4. MInv /\ MInv' /\ AnnouncedInv /\ [CustodyNext]_custodyVars => AnnouncedInv'
  BY AnnouncedStep DEF MInv
<1> QED BY <1>1, <1>2, <1>3, <1>4, PTL DEF Spec

-----------------------------------------------------------------------------
(* Escrows and the bundles they came from                                  *)

(* A nonce names one basket: whoever submits it again sends the same       *)
(* bundle (core settlement.rs: the nonce of a bundle is unique).           *)
NonceNamesOneBundle == \A b, c \in Bundles : b.nonce = c.nonce => b = c

AsFormed(e) == [e EXCEPT !.state = "Locked"]
FormedAs(es, f) == {id \in DOMAIN es : AsFormed(es[id]) = f}
LegsAs(b, f) == {i \in DOMAIN b.legs : EscrowsOf(b)[i] = f}

SettledBundles(res) == {b \in Bundles : b.nonce \in DOMAIN res /\ res[b.nonce] = "Settled"}
LegTotals(S) == [b \in S |-> Len(b.legs)]
LegCounts(S, f) == [b \in S |-> Cardinality(LegsAs(b, f))]

FormedInv(es, S) ==
  /\ IsFiniteSet(S)
  /\ Len(es) = SumFunctionOnSet(LegTotals(S), S)
  /\ \A f \in Escrow : Cardinality(FormedAs(es, f)) = SumFunctionOnSet(LegCounts(S, f), S)

LEMMA LegsCounted ==
  ASSUME NEW b \in Bundles, NEW f
  PROVE  /\ Len(b.legs) \in Nat /\ IsFiniteSet(LegsAs(b, f)) /\ Cardinality(LegsAs(b, f)) \in Nat
         /\ LegsAs(b, f) \subseteq 1 .. Len(b.legs)
<1>1. b \in Bundle
  BY CustodyConstants
<1>2. b.legs \in Seq(Leg)
  BY <1>1 DEF Bundle
<1>3. LegsAs(b, f) \subseteq 1 .. Len(b.legs) /\ Len(b.legs) \in Nat
  BY <1>2 DEF LegsAs
<1>4. IsFiniteSet(1 .. Len(b.legs))
  BY <1>3, FS_Interval
<1> QED BY <1>3, <1>4, FS_Subset, FS_CardinalityType

(* The count of a set moved along by a constant.                           *)
LEMMA ShiftedCount ==
  ASSUME NEW T \in SUBSET Nat, IsFiniteSet(T), NEW L \in Nat
  PROVE  /\ IsFiniteSet({L + i : i \in T})
         /\ Cardinality({L + i : i \in T}) = Cardinality(T)
<1> DEFINE R == {L + i : i \in T}
           f == [i \in T |-> L + i]
<1>1. f \in [T -> R]
  OBVIOUS
<1>2. \A i, j \in T : f[i] = f[j] => i = j
  OBVIOUS
<1>3. \A r \in R : \E i \in T : f[i] = r
  OBVIOUS
<1> HIDE DEF f, R
<1>4. f \in Bijection(T, R)
  BY <1>1, <1>2, <1>3 DEF Bijection, Injection, Surjection, IsInjective
<1>5. ExistsBijection(T, R)
  BY <1>4 DEF ExistsBijection
<1> QED BY <1>5, FS_Bijection DEF R

LEMMA AddedOnce ==
  ASSUME NEW S, IsFiniteSet(S), NEW b, b \notin S, NEW f, NEW h,
         \A x \in S \cup {b} : h[x] \in Nat, \A x \in S : f[x] = h[x]
  PROVE  SumFunctionOnSet(h, S \cup {b}) = SumFunctionOnSet(f, S) + h[b]
<1> DEFINE R == S \cup {b}
<1>1. IsFiniteSet(R) /\ b \in R /\ R \ {b} = S /\ \A x \in R : h[x] \in Nat
  BY FS_AddElement
<1> HIDE DEF R
<1>2. SumFunctionOnSet(h, R) = h[b] + SumFunctionOnSet(h, S)
  BY <1>1, SumOne
<1>3. \A x \in S : h[x] \in Nat /\ f[x] = h[x]
  BY <1>1
<1>4. SumFunctionOnSet(f, S) = SumFunctionOnSet(h, S)
  BY <1>3, SumSame
<1>5. SumFunctionOnSet(h, S) \in Nat /\ h[b] \in Nat
  BY <1>1, <1>3, SumOne
<1> QED BY <1>2, <1>4, <1>5 DEF R

(* Forming the escrows of one more bundle.                                 *)
LEMMA BundleFormed ==
  ASSUME NEW es \in Seq(Escrow), NEW S \in SUBSET Bundles, FormedInv(es, S),
         NEW b \in Bundles, b \notin S
  PROVE  FormedInv(es \o EscrowsOf(b), S \cup {b})
<1> DEFINE fresh == EscrowsOf(b)
           L == Len(es)
           k == Len(b.legs)
           T == S \cup {b}
           long == es \o fresh
<1>1. b \in Bundle
  BY CustodyConstants
<1>2. /\ fresh \in Seq(Escrow) /\ DOMAIN fresh = DOMAIN b.legs
      /\ \A i \in DOMAIN b.legs : fresh[i] \in Escrow /\ fresh[i].state = "Locked"
  BY <1>1, BundleEscrows
<1>3. k \in Nat /\ DOMAIN b.legs = 1 .. k
  BY <1>1 DEF Bundle
<1>4. Len(fresh) = k
  BY <1>2, <1>3
<1>5. T \in SUBSET Bundles /\ IsFiniteSet(T) /\ IsFiniteSet(S)
  BY FS_AddElement DEF FormedInv
<1>6. /\ DOMAIN long = 1 .. L + k /\ L \in Nat /\ DOMAIN es = 1 .. L /\ Len(long) = L + k
      /\ \A i \in 1 .. L : long[i] = es[i]
      /\ \A i \in 1 .. k : long[L + i] = fresh[i]
  <2>1. fresh \in Seq(Escrow)
    BY <1>2
  <2> HIDE DEF fresh, long
  <2>2. /\ long \in Seq(Escrow) /\ Len(long) = L + Len(fresh)
        /\ \A i \in 1 .. L + Len(fresh) : long[i] = IF i <= L THEN es[i] ELSE fresh[i - L]
    BY <2>1, ConcatProperties DEF long
  <2>3. L \in Nat /\ DOMAIN es = 1 .. L
    OBVIOUS
  <2> HIDE DEF L, k
  <2>4. \A i \in 1 .. L : long[i] = es[i]
    BY <1>3, <1>4, <2>2, <2>3
  <2>5. ASSUME NEW i \in 1 .. k PROVE long[L + i] = fresh[i]
    <3>1. L + i \in 1 .. L + k /\ ~(L + i <= L) /\ (L + i) - L = i
      BY <1>3, <2>3
    <3> QED BY <1>4, <2>2, <3>1
  <2>6. DOMAIN long = 1 .. L + k /\ Len(long) = L + k
    BY <1>4, <2>2
  <2> QED BY <2>3, <2>4, <2>5, <2>6
<1> HIDE DEF fresh, long, k, L
<1>7. Len(long) = SumFunctionOnSet(LegTotals(T), T)
  <2> DEFINE f == LegTotals(S)
             h == LegTotals(T)
  <2>1. \A x \in T : h[x] \in Nat
    BY <1>5, LegsCounted DEF LegTotals
  <2>2. (\A x \in S : f[x] = h[x]) /\ h[b] = k
    BY DEF LegTotals, k
  <2>3. L = SumFunctionOnSet(f, S)
    BY DEF FormedInv, L
  <2> HIDE DEF f, h
  <2>S. IsFiniteSet(S) /\ b \notin S
    BY <1>5
  <2>4. SumFunctionOnSet(h, S \cup {b}) = SumFunctionOnSet(f, S) + h[b]
    BY ONLY <2>1, <2>2, <2>S, AddedOnce, ZenonT(40)
  <2> QED BY <1>6, <2>2, <2>3, <2>4 DEF h
<1>8. ASSUME NEW x \in Escrow
      PROVE  Cardinality(FormedAs(long, x)) = SumFunctionOnSet(LegCounts(T, x), T)
  <2> DEFINE f == LegCounts(S, x)
             h == LegCounts(T, x)
             old == FormedAs(es, x)
             new == LegsAs(b, x)
             moved == {L + i : i \in new}
  <2>1. \A y \in T : h[y] \in Nat
    BY <1>5, LegsCounted DEF LegCounts
  <2>2. (\A y \in S : f[y] = h[y]) /\ h[b] = Cardinality(new)
    BY DEF LegCounts
  <2>3. Cardinality(old) = SumFunctionOnSet(f, S)
    BY DEF FormedInv
  <2>4. new \in SUBSET (1 .. k) /\ IsFiniteSet(new) /\ Cardinality(new) \in Nat
    BY LegsCounted DEF k
  <2>5. old \in SUBSET (1 .. L) /\ IsFiniteSet(old)
    <3>1. old \in SUBSET (1 .. L)
      BY <1>6 DEF FormedAs
    <3>2. IsFiniteSet(1 .. L)
      <4>1. 1 \in Int /\ L \in Int
        BY <1>6
      <4> QED BY <4>1, FS_Interval
    <3> QED BY <3>1, <3>2, FS_Subset
  <2>6. \A i \in 1 .. k : AsFormed(fresh[i]) = fresh[i]
    <3> TAKE i \in 1 .. k
    <3>1. fresh[i] \in Escrow /\ fresh[i].state = "Locked"
      BY <1>2, <1>3
    <3> QED BY <3>1 DEF AsFormed, Escrow
  <2>7. FormedAs(long, x) = old \cup moved
    <3>1. \A i \in 1 .. L : i \in FormedAs(long, x) <=> i \in old
      <4> TAKE i \in 1 .. L
      <4>1. i \in DOMAIN long /\ i \in DOMAIN es /\ long[i] = es[i]
        BY <1>3, <1>6
      <4> QED BY <4>1 DEF FormedAs
    <3>2. \A i \in 1 .. k : L + i \in FormedAs(long, x) <=> i \in new
      BY <1>3, <1>6, <2>6 DEF FormedAs, LegsAs, fresh
    <3>3. \A j \in 1 .. L + k : j \in 1 .. L \/ \E i \in 1 .. k : j = L + i
      <4> TAKE j \in 1 .. L + k
      <4>1. j \notin 1 .. L => j - L \in 1 .. k /\ j = L + (j - L)
        BY <1>3, <1>6
      <4> QED BY <4>1
    <3>4. \A i \in 1 .. k : L + i \in 1 .. L + k /\ L + i \notin 1 .. L
      BY <1>3, <1>6
    <3>5. FormedAs(long, x) \subseteq 1 .. L + k
      BY <1>6 DEF FormedAs
    <3> HIDE DEF old, new
    <3>6. FormedAs(long, x) \subseteq old \cup moved
      <4> SUFFICES ASSUME NEW j \in FormedAs(long, x) PROVE j \in old \cup moved
        OBVIOUS
      <4>1. CASE j \in 1 .. L
        BY <3>1, <4>1
      <4>2. CASE j \notin 1 .. L
        <5>1. PICK i \in 1 .. k : j = L + i
          BY <3>3, <3>5, <4>2
        <5> QED BY <3>2, <5>1
      <4> QED BY <4>1, <4>2
    <3>7. old \subseteq FormedAs(long, x)
      BY <2>5, <3>1
    <3>8. moved \subseteq FormedAs(long, x)
      BY <2>4, <3>2
    <3> QED BY <3>6, <3>7, <3>8
  <2>8. IsFiniteSet(moved) /\ Cardinality(moved) = Cardinality(new)
    <3>1. new \in SUBSET Nat
      BY <2>4
    <3> HIDE DEF new
    <3> QED BY <1>6, <2>4, <3>1, ShiftedCount
  <2>9. old \cap moved = {}
    BY <1>3, <1>6, <2>4, <2>5
  <2> HIDE DEF f, h, old, new, moved
  <2>10. Cardinality(old \cup moved) = Cardinality(old) + Cardinality(new)
    <3>1. Cardinality(old \cup moved) = Cardinality(old) + Cardinality(moved) - Cardinality(old \cap moved)
      BY <2>5, <2>8, FS_Union
    <3>2. Cardinality(old \cap moved) = 0
      BY <2>9, FS_EmptySet
    <3>3. Cardinality(old) \in Nat /\ Cardinality(moved) \in Nat
      BY <2>5, <2>8, FS_CardinalityType
    <3> QED BY <2>8, <3>1, <3>2, <3>3
  <2>S. IsFiniteSet(S) /\ b \notin S
    BY <1>5
  <2>11. SumFunctionOnSet(h, S \cup {b}) = SumFunctionOnSet(f, S) + h[b]
    BY ONLY <2>1, <2>2, <2>S, AddedOnce, ZenonT(40)
  <2> QED BY <2>2, <2>3, <2>7, <2>10, <2>11 DEF h
<1> QED BY <1>5, <1>7, <1>8 DEF FormedInv, long, fresh

BooksInv ==
  /\ \A i \in 1 .. Len(queue) : queue[i] \in Bundles
  /\ FormedInv(escrows, SettledBundles(resolved))

LEMMA BooksMean ==
  ASSUME BooksInv, TypeOK
  PROVE  EscrowsFormedOncePerSettledNonce
<1> DEFINE S == SettledBundles(resolved)
<1>1. DOMAIN LegTotals(S) = S /\ \A f : DOMAIN LegCounts(S, f) = S
  BY DEF LegTotals, LegCounts
<1>2. Len(escrows) = SumFunction(LegTotals(S))
  BY <1>1 DEF BooksInv, FormedInv, SumFunction
<1>3. ASSUME NEW id \in DOMAIN escrows
      PROVE  Cardinality(FormedAs(escrows, AsFormed(escrows[id])))
               = SumFunction(LegCounts(S, AsFormed(escrows[id])))
  <2>1. escrows[id] \in Escrow
    BY DEF TypeOK
  <2>2. AsFormed(escrows[id]) \in Escrow
    BY <2>1 DEF AsFormed, Escrow
  <2> QED BY <1>1, <2>2 DEF BooksInv, FormedInv, SumFunction
<1> QED BY <1>2, <1>3
        DEF EscrowsFormedOncePerSettledNonce, SettledBundles, LegTotals, LegCounts, LegsAs,
            FormedAs, AsFormed

LEMMA BooksStart == CustodyInit => BooksInv
<1> SUFFICES ASSUME CustodyInit PROVE BooksInv
  OBVIOUS
<1>1. SettledBundles(resolved) = {} /\ escrows = <<>> /\ Len(queue) = 0
  BY DEF CustodyInit, SettledBundles
<1>2. \A f : FormedAs(escrows, f) = {}
  BY <1>1 DEF FormedAs
<1>3. IsFiniteSet({}) /\ Cardinality({}) = 0 /\ \A f : SumFunctionOnSet(f, {}) = 0
  BY FS_EmptySet, SumOne
<1>4. Len(escrows) = 0
  BY <1>1
<1>5. FormedInv(escrows, {})
  <2>1. IsFiniteSet({}) /\ Len(escrows) = SumFunctionOnSet(LegTotals({}), {})
    BY <1>3, <1>4
  <2>2. \A f \in Escrow : Cardinality(FormedAs(escrows, f)) = SumFunctionOnSet(LegCounts({}, f), {})
    BY <1>2, <1>3
  <2> QED BY <2>1, <2>2 DEF FormedInv
<1> QED BY <1>1, <1>5 DEF BooksInv

LEMMA BooksStay ==
  ASSUME BooksInv, UNCHANGED <<escrows, resolved>>,
         \A i \in 1 .. Len(queue') : queue'[i] \in Bundles
  PROVE  BooksInv'
BY DEF BooksInv

LEMMA IncludeBooks ==
  ASSUME NonceNamesOneBundle, TypeOK, AnnouncedInv, BooksInv, IncludeNext
  PROVE  BooksInv'
<1> DEFINE b == Head(queue)
           S == SettledBundles(resolved)
<1>1. queue # <<>> /\ queue' = Tail(queue)
  BY DEF IncludeNext
<1>2. b \in Bundles /\ \A i \in 1 .. Len(queue') : queue'[i] \in Bundles
  BY <1>1, SlotsKnown
<1>3. CASE Answered(b.nonce) /\ UNCHANGED <<balance, escrows, resolved, logVars>>
  BY <1>2, <1>3, BooksStay
<1>4. CASE ~Answered(b.nonce) /\ SettleAll(b)
  <2>1. escrows' = escrows \o EscrowsOf(b) /\ Resolve(b.nonce, "Settled")
    BY <1>4 DEF SettleAll
  <2> HIDE DEF b
  <2>2. b \notin S /\ SettledBundles(resolved') = S \cup {b} /\ S \in SUBSET Bundles
    BY <1>2, <1>4, <2>1 DEF SettledBundles, Resolve, Answered, NonceNamesOneBundle
  <2>3. escrows \in Seq(Escrow) /\ FormedInv(escrows, S)
    BY DEF TypeOK, BooksInv
  <2> HIDE DEF S
  <2>4. FormedInv(escrows \o EscrowsOf(b), S \cup {b})
    BY <1>2, <2>2, <2>3, BundleFormed
  <2> QED BY <1>2, <2>1, <2>2, <2>4 DEF BooksInv
<1>5. CASE ~Answered(b.nonce) /\ RevertAll(b)
  <2>1. escrows' = escrows /\ Resolve(b.nonce, "Reverted")
    BY <1>5 DEF RevertAll
  <2> HIDE DEF b
  <2>2. SettledBundles(resolved') = S
    BY <1>5, <2>1 DEF SettledBundles, Resolve, Answered
  <2> QED BY <1>2, <2>1, <2>2 DEF BooksInv
<1> QED BY <1>3, <1>4, <1>5 DEF IncludeNext

LEMMA BooksStep ==
  ASSUME NonceNamesOneBundle, TypeOK, AnnouncedInv, AnnouncedInv', BooksInv, [CustodyNext]_custodyVars
  PROVE  BooksInv'
<1>0. \A i \in 1 .. Len(queue') : queue'[i] \in Bundles
  BY DEF AnnouncedInv
<1>1. CASE UNCHANGED <<escrows, resolved>>
  BY <1>0, <1>1, BooksStay
<1>2. CASE IncludeNext
  BY <1>2, IncludeBooks
<1>3. CASE \E id \in DOMAIN escrows, contract \in Contracts, outcome \in Outcome :
             SettleEscrow(id, contract, outcome)
  <2>1. PICK id \in DOMAIN escrows, contract \in Contracts, outcome \in Outcome :
             SettleEscrow(id, contract, outcome)
    BY <1>3
  <2>2. escrows' = [escrows EXCEPT ![id].state = "Settled"] /\ resolved' = resolved
    BY <2>1 DEF SettleEscrow
  <2> DEFINE es == escrows'
  <2>3. escrows \in Seq(Escrow) /\ DOMAIN es = DOMAIN escrows /\ Len(es) = Len(escrows)
    BY <2>2 DEF TypeOK
  <2>4. \A i \in DOMAIN escrows : AsFormed(es[i]) = AsFormed(escrows[i])
    <3> TAKE i \in DOMAIN escrows
    <3>1. escrows[i] \in Escrow
      BY <2>3
    <3>2. es[i] = IF i = id THEN [escrows[i] EXCEPT !.state = "Settled"] ELSE escrows[i]
      BY <2>2
    <3> HIDE DEF es
    <3> QED BY <3>1, <3>2 DEF AsFormed, Escrow
  <2> HIDE DEF es
  <2>5. \A f : FormedAs(es, f) = FormedAs(escrows, f)
    BY <2>3, <2>4 DEF FormedAs
  <2>6. FormedInv(es, SettledBundles(resolved'))
    BY <2>2, <2>3, <2>5 DEF BooksInv, FormedInv
  <2> QED BY <1>0, <2>6 DEF BooksInv, es
<1> QED BY <1>1, <1>2, <1>3
        DEF CustodyNext, Tick, Deposit, RequestWithdrawal, ExecuteWithdrawal, Submit,
            DropNextSubmission, ledgerVars, custodyVars

(* Where a nonce names one basket, the escrows on the books are the legs   *)
(* of the bundles whose nonce settled, each formed once, whatever was      *)
(* resubmitted, lost or reverted (custody.rs include_next and settle).     *)
THEOREM EscrowsAreSettledLegs ==
  ASSUME NonceNamesOneBundle PROVE Spec => []EscrowsFormedOncePerSettledNonce
<1>1. CustodyInit => MInv /\ AnnouncedInv /\ BooksInv
  BY InitMoney, AnnouncedStarts, BooksStart
<1>2. MInv /\ [CustodyNext]_custodyVars => MInv'
  BY MoneyStep DEF Money
<1>3. MInv /\ MInv' /\ AnnouncedInv /\ [CustodyNext]_custodyVars => AnnouncedInv'
  BY AnnouncedStep DEF MInv
<1>4. MInv /\ AnnouncedInv /\ AnnouncedInv' /\ BooksInv /\ [CustodyNext]_custodyVars => BooksInv'
  BY BooksStep DEF MInv
<1>5. MInv /\ BooksInv => EscrowsFormedOncePerSettledNonce
  BY BooksMean DEF MInv
<1> QED BY <1>1, <1>2, <1>3, <1>4, <1>5, PTL DEF Spec

-----------------------------------------------------------------------------
(* What a reorg leaves of the log                                          *)

LogEntry == [block : Nat, tx : Nat, index : Nat, payload : Payloads]

SortedLog(es) == \A i, j \in 1 .. Len(es) : i <= j => es[i].block <= es[j].block

(* Retaining from the left, one entry at a time.                           *)
LEMMA RetainedIsFold ==
  ASSUME NEW es \in Seq(LogEntry), NEW block \in Nat
  PROVE  \E kept \in [0 .. Len(es) -> Seq(LogEntry)] :
           /\ kept[0] = <<>>
           /\ \A n \in 1 .. Len(es) :
                kept[n] = IF es[n].block < block THEN Append(kept[n - 1], es[n]) ELSE kept[n - 1]
           /\ Retained(es, block) = kept[Len(es)]
<1> DEFINE N == Len(es)
           X == Seq(LogEntry)
           G == [p \in (1 .. N) \X X |->
                   IF es[p[1]].block < block THEN Append(p[2], es[p[1]]) ELSE p[2]]
           Solves(h) == h = [s \in SUBSET (1 .. N) |->
                              IF s = {} THEN <<>>
                              ELSE IF es[Max(s)].block < block
                                   THEN Append(h[s \ {Max(s)}], es[Max(s)])
                                   ELSE h[s \ {Max(s)}]]
<1>1. N \in Nat /\ DOMAIN es = 1 .. N /\ \A i \in 1 .. N : es[i] \in LogEntry
  OBVIOUS
<1>2. <<>> \in X /\ \A n \in 1 .. N : \A x \in X : Append(x, es[n]) \in X
  OBVIOUS
<1>3. G \in [(1 .. N) \X X -> X]
  BY <1>2
<1>4. \A n \in 1 .. N : \A x \in X :
        G[<<n, x>>] = IF es[n].block < block THEN Append(x, es[n]) ELSE x
  OBVIOUS
<1>5. Retained(es, block) = (CHOOSE h : Solves(h))[1 .. N]
  BY <1>1 DEF Retained, FoldLeft, MapThenFoldSet
<1> HIDE DEF N, X, G
<1>6. \E h : Solves(h)
  <2>1. PICK h \in [SUBSET (1 .. N) -> X] : Folds(h, N, <<>>, G)
    BY <1>1, <1>2, <1>3, FoldExists
  <2>2. ASSUME NEW s \in SUBSET (1 .. N)
        PROVE  h[s] = IF s = {} THEN <<>>
                      ELSE IF es[Max(s)].block < block
                           THEN Append(h[s \ {Max(s)}], es[Max(s)])
                           ELSE h[s \ {Max(s)}]
    <3>1. CASE s = {}
      BY <2>1, <3>1 DEF Folds
    <3>2. CASE s # {}
      <4>1. Max(s) \in 1 .. N /\ s \ {Max(s)} \in SUBSET (1 .. N)
        <5>1. s \in SUBSET (0 .. N)
          BY <1>1
        <5>2. Max(s) \in s
          BY <1>1, <3>2, <5>1, MaxIsGreatest
        <5> QED BY <5>2
      <4>2. h[s \ {Max(s)}] \in X
        BY <4>1
      <4> QED BY <1>4, <2>1, <3>2, <4>1, <4>2 DEF Folds
    <3> QED BY <3>1, <3>2
  <2> QED BY <2>2
<1>7. PICK w : w = (CHOOSE k : Solves(k)) /\ Solves(w)
  <2> HIDE DEF Solves
  <2> QED BY <1>6
<1>8. \A s \in SUBSET (1 .. N) :
         w[s] = IF s = {} THEN <<>>
                ELSE IF es[Max(s)].block < block
                     THEN Append(w[s \ {Max(s)}], es[Max(s)]) ELSE w[s \ {Max(s)}]
  BY <1>7
<1> HIDE DEF Solves
<1>9. w[{}] = <<>>
  BY <1>8
<1>10. ASSUME NEW n \in 1 .. N, w[1 .. (n - 1)] \in X
       PROVE  w[1 .. n] = G[<<n, w[1 .. (n - 1)]>>]
  <2>1. /\ 1 .. n \in SUBSET (1 .. N) /\ 1 .. n # {}
        /\ Max(1 .. n) = n /\ (1 .. n) \ {n} = 1 .. (n - 1)
    BY <1>1, PrefixStep
  <2>2. w[1 .. n] = IF es[n].block < block THEN Append(w[1 .. (n - 1)], es[n])
                    ELSE w[1 .. (n - 1)]
    BY <1>8, <2>1
  <2> QED BY <1>4, <1>10, <2>2
<1>11. PICK kept \in [0 .. N -> X] : IteratesTo(kept, w[1 .. N], N, <<>>, G)
  <2>1. FoldsPrefixes(w, N, X, <<>>, G)
    BY <1>9, <1>10 DEF FoldsPrefixes
  <2> QED BY <1>1, <1>2, <1>3, <2>1, FoldIterates
<1>12. \A n \in 1 .. N :
         kept[n] = IF es[n].block < block THEN Append(kept[n - 1], es[n]) ELSE kept[n - 1]
  <2> TAKE n \in 1 .. N
  <2>1. kept[n - 1] \in X
    BY <1>1
  <2> QED BY <1>4, <1>11, <2>1 DEF Iterates, IteratesTo
<1> QED BY <1>5, <1>7, <1>11, <1>12 DEF N, X, Iterates, IteratesTo

(* Blocks only grow along the log, so what is retained is its beginning.   *)
LEMMA RetainedIsPrefix ==
  ASSUME NEW es \in Seq(LogEntry), SortedLog(es), NEW block \in Nat
  PROVE  \E k \in 0 .. Len(es) :
           /\ Retained(es, block) \in Seq(LogEntry)
           /\ Len(Retained(es, block)) = k
           /\ \A i \in 1 .. k : Retained(es, block)[i] = es[i] /\ es[i].block < block
           /\ \A i \in 1 .. Len(es) : es[i].block < block => i <= k
<1>1. PICK kept \in [0 .. Len(es) -> Seq(LogEntry)] :
           /\ kept[0] = <<>>
           /\ \A n \in 1 .. Len(es) :
                kept[n] = IF es[n].block < block THEN Append(kept[n - 1], es[n]) ELSE kept[n - 1]
           /\ Retained(es, block) = kept[Len(es)]
  BY RetainedIsFold
<1> DEFINE Begins(n) == /\ Len(kept[n]) <= n
                        /\ \A i \in 1 .. Len(kept[n]) : kept[n][i] = es[i] /\ es[i].block < block
                        /\ \A i \in 1 .. n : es[i].block < block => i <= Len(kept[n])
           P == {n \in Nat : n <= Len(es) => Begins(n)}
<1>2. Len(es) \in Nat /\ \A i \in 1 .. Len(es) : es[i].block \in Nat
  <2>1. \A i \in 1 .. Len(es) : es[i] \in LogEntry
    OBVIOUS
  <2> QED BY <2>1 DEF LogEntry
<1>3. 0 \in P
  BY <1>1
<1>4. ASSUME NEW n \in Nat, n \in P PROVE n + 1 \in P
  <2> DEFINE m == n + 1
  <2>1. ASSUME m <= Len(es) PROVE Begins(m)
    <3>1. m \in 1 .. Len(es) /\ m - 1 = n /\ n <= Len(es) /\ n \in 0 .. Len(es)
      BY <1>2, <2>1
    <3>2. Begins(n) /\ kept[n] \in Seq(LogEntry)
      BY <1>4, <3>1
    <3>3. kept[m] = IF es[m].block < block THEN Append(kept[n], es[m]) ELSE kept[n]
      BY <1>1, <3>1
    <3> HIDE DEF m
    <3>4. CASE es[m].block < block
      <4>1. \A i \in 1 .. n : es[i].block < block
        BY <1>2, <3>1, <3>4 DEF SortedLog
      <4>2. Len(kept[n]) = n
        <5>1. CASE n = 0
          BY <3>2, <5>1
        <5>2. CASE n # 0
          <6>1. n \in 1 .. n
            BY <5>2
          <6> QED BY <3>2, <4>1, <6>1
        <5> QED BY <5>1, <5>2
      <4>3. kept[m] = Append(kept[n], es[m]) /\ es[m] \in LogEntry
        BY <3>1, <3>3, <3>4
      <4>4. Len(kept[m]) = m /\ kept[m][m] = es[m] /\ \A i \in 1 .. n : kept[m][i] = kept[n][i]
        BY <3>1, <3>2, <4>2, <4>3
      <4> QED BY <3>1, <3>2, <3>4, <4>2, <4>4
    <3>5. CASE ~(es[m].block < block)
      BY <1>2, <3>1, <3>2, <3>3, <3>5
    <3> QED BY <3>4, <3>5
  <2> HIDE DEF Begins
  <2> QED BY <2>1
<1>5. Len(es) \in P
  <2> HIDE DEF P
  <2> QED BY <1>2, <1>3, <1>4, NaturalInduction
<1>6. Begins(Len(es)) /\ kept[Len(es)] \in Seq(LogEntry)
  BY <1>2, <1>5
<1> QED BY <1>1, <1>2, <1>6

-----------------------------------------------------------------------------
(* The indexer                                                             *)

(* What was handed over is the log's beginning: the cursor never leads it, *)
(* deduplication keeps to it, and no shallow reorg reaches it.             *)
ReaderTyped ==
  /\ IndexerTypeOK
  /\ entries \in Seq(LogEntry) /\ handed \in Seq(LogEntry)

(* Blocks grow along the log, up to the head.                              *)
BlocksSorted ==
  /\ SortedLog(entries)
  /\ \A i \in 1 .. Len(entries) : entries[i].block <= head

(* Transaction and index identify an entry.                                *)
KeysDistinct ==
  \A i, j \in 1 .. Len(entries) : Key(entries[i]) = Key(entries[j]) => i = j

HandedInOrder ==
  /\ Len(handed) <= Len(entries)
  /\ \A i \in 1 .. Len(handed) : handed[i] = entries[i]
  /\ delivered = {Key(entries[i]) : i \in 1 .. Len(handed)}
  /\ cursor <= Len(handed)

HandedIsDeep ==
  \A i \in 1 .. Len(handed) : entries[i].block + Confirmations <= tip

ReaderInv == ReaderTyped /\ BlocksSorted /\ KeysDistinct /\ HandedInOrder /\ HandedIsDeep

LEMMA ReaderFacts ==
  ASSUME ReaderTyped
  PROVE  /\ Len(entries) \in Nat /\ Len(handed) \in Nat
         /\ DOMAIN entries = 1 .. Len(entries)
         /\ \A i \in 1 .. Len(entries) :
              /\ entries[i] \in LogEntry
              /\ entries[i].block \in Nat /\ entries[i].tx \in Nat /\ entries[i].index \in Nat
              /\ entries[i].tx < next_tx
         /\ head \in Nat /\ tip \in Nat /\ head <= tip /\ tip <= MaxHead
         /\ cursor \in Nat /\ next_tx \in Nat
         /\ MaxHead \in Nat /\ Confirmations \in Nat
<1>1. \A i \in 1 .. Len(entries) : entries[i] \in LogEntry
  BY DEF ReaderTyped
<1> QED BY <1>1, IndexerConstants DEF ReaderTyped, IndexerTypeOK, LogEntry

LEMMA ReaderStarts == IndexerInit => ReaderInv
BY IndexerConstants
   DEF IndexerInit, LogInit, ReaderInv, ReaderTyped, IndexerTypeOK, BlocksSorted, SortedLog,
       KeysDistinct, HandedInOrder, HandedIsDeep

LEMMA ReadNextKeeps ==
  ASSUME ReaderInv, ReadNext
  PROVE  ReaderInv'
<1> USE DEF ReaderInv
<1> DEFINE e == entries[cursor + 1]
<1>1. /\ cursor < Len(entries) /\ Confirmed(e) /\ cursor' = cursor + 1
      /\ UNCHANGED <<entries, head, next_tx, tip>>
  BY DEF ReadNext, CursorPast, logVars
<1>2. cursor + 1 \in 1 .. Len(entries) /\ e \in LogEntry
  BY <1>1, ReaderFacts
<1>3. CASE Key(e) \in delivered /\ UNCHANGED <<delivered, handed>>
  <2>1. cursor + 1 \in 1 .. Len(handed)
    BY <1>2, <1>3, ReaderFacts DEF HandedInOrder, KeysDistinct
  <2>2. cursor' \in 0 .. Len(entries) /\ cursor' <= Len(handed)
    BY <1>1, <1>2, <2>1
  <2>3. ReaderTyped'
    BY <1>1, <1>3, <2>2 DEF ReaderTyped, IndexerTypeOK
  <2>4. BlocksSorted' /\ KeysDistinct' /\ HandedIsDeep'
    BY <1>1, <1>3 DEF BlocksSorted, SortedLog, KeysDistinct, HandedIsDeep, Key
  <2>5. HandedInOrder'
    BY <1>1, <1>3, <2>2 DEF HandedInOrder, Key
  <2> QED BY <2>3, <2>4, <2>5
<1>4. CASE Key(e) \notin delivered /\ delivered' = delivered \cup {Key(e)}
           /\ handed' = Append(handed, e)
  <2>1. cursor = Len(handed)
    BY <1>2, <1>4, ReaderFacts DEF HandedInOrder
  <2>2. /\ handed' \in Seq(LogEntry) /\ Len(handed') = cursor + 1
        /\ handed'[cursor + 1] = e /\ \A i \in 1 .. cursor : handed'[i] = handed[i]
    BY <1>2, <1>4, <2>1 DEF ReaderTyped
  <2> DEFINE n == cursor + 1
  <2>3. n \in Nat /\ 1 .. n = (1 .. cursor) \cup {n} /\ n <= Len(entries) /\ 1 .. n \subseteq 1 .. Len(entries)
    BY <1>2, ReaderFacts
  <2>4. Len(handed') = n /\ \A i \in 1 .. n : handed'[i] = entries[i]
    BY <2>1, <2>2, <2>3 DEF HandedInOrder
  <2>5. delivered' = {Key(entries[i]) : i \in 1 .. n}
    BY <1>4, <2>1, <2>3 DEF HandedInOrder
  <2>6. e.block + Confirmations <= tip
    BY <1>1, <1>2, ReaderFacts DEF Confirmed
  <2>7. Key(e) \in Nat \X Nat
    BY <1>2 DEF Key, LogEntry
  <2> HIDE DEF n
  <2>8. HandedInOrder'
    <3>1. cursor' = n
      BY <1>1 DEF n
    <3> QED BY <1>1, <2>3, <2>4, <2>5, <3>1 DEF HandedInOrder, Key
  <2>9. HandedIsDeep'
    BY <1>1, <2>1, <2>3, <2>4, <2>6 DEF HandedIsDeep, n
  <2>10. ReaderTyped'
    BY <1>1, <1>2, <1>4, <2>2, <2>7, ReaderFacts DEF ReaderTyped, IndexerTypeOK
  <2>11. BlocksSorted' /\ KeysDistinct'
    BY <1>1 DEF BlocksSorted, SortedLog, KeysDistinct, Key
  <2> QED BY <2>8, <2>9, <2>10, <2>11
<1> QED BY <1>3, <1>4 DEF ReadNext

LEMMA LogExtended ==
  ASSUME NEW es \in Seq(LogEntry), NEW k \in Nat, NEW more \in [1 .. k -> LogEntry]
  PROVE  /\ es \o more \in Seq(LogEntry) /\ Len(es \o more) = Len(es) + k /\ Len(es) \in Nat
         /\ \A i \in 1 .. Len(es) : (es \o more)[i] = es[i]
         /\ \A i \in 1 .. Len(es) + k : i \notin 1 .. Len(es) =>
              i - Len(es) \in 1 .. k /\ (es \o more)[i] = more[i - Len(es)]
<1>1. more \in Seq(LogEntry) /\ Len(more) = k
  BY SeqDef
<1> QED BY <1>1

(* Appending at the head, with fresh keys, leaves the beginning alone.     *)
LEMMA ExtendKeeps ==
  ASSUME ReaderInv, NEW k \in Nat, NEW m \in Nat, NEW more, more \in [1 .. k -> LogEntry],
         \A i \in 1 .. k : more[i].block = head /\ more[i].tx >= next_tx /\ more[i].tx < m,
         \A i, j \in 1 .. k : Key(more[i]) = Key(more[j]) => i = j,
         next_tx <= m, entries' = entries \o more, next_tx' = m,
         UNCHANGED <<head, readerVars, tip>>
  PROVE  ReaderInv'
<1> USE DEF ReaderInv
<1> DEFINE n == Len(entries)
<1>2. entries' \in Seq(LogEntry) /\ Len(entries') = n + k
  BY LogExtended DEF ReaderTyped
<1>3. /\ \A i \in 1 .. n : entries'[i] = entries[i]
      /\ \A i \in 1 .. n + k : i \notin 1 .. n => i - n \in 1 .. k /\ entries'[i] = more[i - n]
  BY LogExtended DEF ReaderTyped
<1>4. n \in Nat
  BY ReaderFacts
<1> HIDE DEF n
<1>5. \A i \in 1 .. k : more[i] \in LogEntry
  OBVIOUS
<1>6. ASSUME NEW i \in 1 .. n + k
      PROVE  /\ entries'[i].block \in Nat /\ entries'[i].block <= head /\ entries'[i].tx < m
             /\ entries'[i].tx \in Nat
             /\ i \notin 1 .. n => entries'[i].block = head /\ entries'[i].tx >= next_tx
             /\ i \in 1 .. n => entries'[i].tx < next_tx
  <2>1. CASE i \in 1 .. n
    BY <1>3, <2>1, ReaderFacts DEF BlocksSorted, n
  <2>2. CASE i \notin 1 .. n
    <3>1. i - n \in 1 .. k /\ entries'[i] = more[i - n]
      BY <1>3, <2>2
    <3> DEFINE e == more[i - n]
    <3>2. e.block = head /\ e.tx >= next_tx /\ e.tx < m /\ e \in LogEntry
      BY <1>5, <3>1
    <3> HIDE DEF e
    <3>3. e.block \in Nat /\ e.block <= head /\ e.tx \in Nat
      BY <3>2, ReaderFacts DEF LogEntry
    <3> QED BY <2>2, <3>1, <3>2, <3>3 DEF e
  <2> QED BY <2>1, <2>2
<1>7. ReaderTyped'
  <2>1. DOMAIN entries' = 1 .. n + k
    BY <1>2
  <2>2. cursor' \in 0 .. Len(entries')
    BY <1>2, <1>4, ReaderFacts DEF readerVars, n, ReaderTyped, IndexerTypeOK
  <2>3. \A i \in DOMAIN entries' : entries'[i].block \in 0 .. MaxHead /\ entries'[i].tx < next_tx'
    <3>1. ASSUME NEW i \in 1 .. n + k
          PROVE  entries'[i].block \in 0 .. MaxHead /\ entries'[i].tx < m
      <4>1. entries'[i].block \in Nat /\ entries'[i].block <= head /\ entries'[i].tx < m
        BY <1>6
      <4> DEFINE x == entries'[i].block
      <4>2. x \in Nat /\ x <= head /\ head \in Nat /\ head <= tip /\ tip <= MaxHead
            /\ tip \in Nat /\ MaxHead \in Nat
        BY <4>1, ReaderFacts
      <4> HIDE DEF x
      <4>3. x \in 0 .. MaxHead
        BY <4>2
      <4> QED BY <4>1, <4>3 DEF x
    <3> QED BY <2>1, <3>1
  <2>4. /\ head' \in 0 .. MaxHead /\ tip' \in head' .. MaxHead /\ next_tx' \in Nat
        /\ delivered' \subseteq (Nat \X Nat) /\ handed' \in Seq(LogEntry)
    BY DEF readerVars, ReaderTyped, IndexerTypeOK
  <2> QED BY <1>2, <2>2, <2>3, <2>4 DEF ReaderTyped, IndexerTypeOK
<1>8. BlocksSorted'
  <2>1. ASSUME NEW i \in 1 .. n + k, NEW j \in 1 .. n + k, i <= j
        PROVE  entries'[i].block <= entries'[j].block
    <3>1. CASE j \in 1 .. n
      BY <1>3, <1>4, <2>1, <3>1 DEF BlocksSorted, SortedLog, n
    <3>2. CASE j \notin 1 .. n
      BY <1>6, <3>2
    <3> QED BY <3>1, <3>2
  <2> QED BY <1>2, <1>6, <2>1 DEF BlocksSorted, SortedLog
<1>9. KeysDistinct'
  <2>1. ASSUME NEW i \in 1 .. n + k, NEW j \in 1 .. n + k,
               entries'[i].tx = entries'[j].tx, entries'[i].index = entries'[j].index
        PROVE  i = j
    <3>1. CASE i \in 1 .. n /\ j \in 1 .. n
      BY <1>3, <2>1, <3>1 DEF KeysDistinct, Key, n
    <3>2. CASE i \notin 1 .. n /\ j \notin 1 .. n
      <4>1. i - n = j - n
        <5>1. i - n \in 1 .. k /\ entries'[i] = more[i - n] /\ j - n \in 1 .. k /\ entries'[j] = more[j - n]
          BY <1>3, <3>2
        <5>2. Key(more[i - n]) = Key(more[j - n])
          BY <2>1, <5>1 DEF Key
        <5> QED BY <5>1, <5>2
      <4> QED BY <1>4, <4>1
    <3>3. CASE i \in 1 .. n <=> j \notin 1 .. n
      <4> DEFINE x == entries'[i].tx
                 y == entries'[j].tx
      <4>1. /\ i \in 1 .. n => x < next_tx
            /\ i \notin 1 .. n => x >= next_tx
            /\ x \in Nat
        BY <1>6
      <4>2. /\ j \in 1 .. n => y < next_tx
            /\ j \notin 1 .. n => y >= next_tx
        BY <1>6
      <4>3. x = y /\ next_tx \in Nat
        BY <2>1, ReaderFacts
      <4> HIDE DEF x, y
      <4> QED BY <3>3, <4>1, <4>2, <4>3
    <3> QED BY <3>1, <3>2, <3>3
  <2> QED BY <1>2, <2>1 DEF KeysDistinct, Key
<1>10. HandedInOrder' /\ HandedIsDeep'
  <2>1. Len(handed) \in Nat /\ Len(handed) <= n /\ \A i \in 1 .. Len(handed) : i \in 1 .. n
    BY <1>4, ReaderFacts DEF HandedInOrder, n
  <2>2. \A i \in 1 .. Len(handed) : entries'[i] = entries[i]
    BY <1>3, <2>1
  <2> QED BY <1>2, <1>4, <2>1, <2>2 DEF HandedInOrder, HandedIsDeep, readerVars, Key
<1> QED BY <1>7, <1>8, <1>9, <1>10

LEMMA PublishKeeps ==
  ASSUME ReaderInv, NEW k \in {1, 2}, NEW payloads \in [1 .. k -> Payloads], Publish(payloads)
  PROVE  ReaderInv'
<1>1. Len(payloads) = k /\ DOMAIN payloads = 1 .. k
  <2>1. payloads \in Seq(Payloads)
    BY SeqDef
  <2> QED BY <2>1
<1>2. next_tx \in Nat /\ head \in Nat
  BY ReaderFacts DEF ReaderInv
<1>3. CASE Append1(payloads)
  <2> DEFINE more == [i \in 1 .. k |-> [block |-> head, tx |-> next_tx + i - 1, index |-> 0,
                                        payload |-> payloads[i]]]
  <2>1. more \in [1 .. k -> LogEntry]
    BY <1>2 DEF LogEntry
  <2>2. \A i \in 1 .. k : more[i].block = head /\ more[i].tx = next_tx + i - 1
    OBVIOUS
  <2>3. entries' = entries \o more /\ next_tx' = next_tx + k /\ UNCHANGED <<head, readerVars, tip>>
    BY <1>1, <1>3 DEF Append1, Publish
  <2> HIDE DEF more
  <2>4. \A i \in 1 .. k : more[i].block = head /\ more[i].tx >= next_tx /\ more[i].tx < next_tx + k
    BY <1>2, <2>2
  <2>5. \A i, j \in 1 .. k : Key(more[i]) = Key(more[j]) => i = j
    BY <1>2, <2>2 DEF Key
  <2>6. next_tx + k \in Nat /\ next_tx <= next_tx + k
    BY <1>2
  <2> QED BY <2>1, <2>3, <2>4, <2>5, <2>6, ExtendKeeps
<1>4. CASE AppendTransaction(payloads)
  <2> DEFINE more == [i \in 1 .. k |-> [block |-> head, tx |-> next_tx, index |-> i - 1,
                                        payload |-> payloads[i]]]
  <2>1. more \in [1 .. k -> LogEntry]
    BY <1>2 DEF LogEntry
  <2>2. \A i \in 1 .. k : more[i].block = head /\ more[i].tx = next_tx /\ more[i].index = i - 1
    OBVIOUS
  <2>3. entries' = entries \o more /\ next_tx' = next_tx + 1 /\ UNCHANGED <<head, readerVars, tip>>
    BY <1>1, <1>4 DEF AppendTransaction, Publish
  <2> HIDE DEF more
  <2>4. \A i \in 1 .. k : more[i].block = head /\ more[i].tx >= next_tx /\ more[i].tx < next_tx + 1
    BY <1>2, <2>2
  <2>5. \A i, j \in 1 .. k : Key(more[i]) = Key(more[j]) => i = j
    BY <2>2 DEF Key
  <2>6. next_tx + 1 \in Nat /\ next_tx <= next_tx + 1
    BY <1>2
  <2> QED BY <2>1, <2>3, <2>4, <2>5, <2>6, ExtendKeeps
<1> QED BY <1>3, <1>4 DEF Publish

LEMMA MineKeeps ==
  ASSUME ReaderInv, Mine
  PROVE  ReaderInv'
<1>1. /\ head < MaxHead /\ head' = head + 1 /\ tip' = (IF head' > tip THEN head' ELSE tip)
      /\ UNCHANGED <<entries, next_tx, cursor, delivered, handed>>
  BY DEF Mine, AdvanceBlock, readerVars
<1>2. head' \in Nat /\ tip' \in Nat /\ head' <= tip' /\ tip' <= MaxHead /\ tip <= tip' /\ head <= head'
  BY <1>1, ReaderFacts DEF ReaderInv
<1>3. ReaderTyped'
  BY <1>1, <1>2, ReaderFacts DEF ReaderInv, ReaderTyped, IndexerTypeOK
<1>4. BlocksSorted'
  BY <1>1, <1>2, ReaderFacts DEF ReaderInv, BlocksSorted, SortedLog
<1>5. KeysDistinct' /\ HandedInOrder'
  BY <1>1 DEF ReaderInv, KeysDistinct, HandedInOrder, Key
<1>6. HandedIsDeep'
  <2>1. \A i \in 1 .. Len(handed) : i \in 1 .. Len(entries)
    BY ReaderFacts DEF ReaderInv, HandedInOrder
  <2>2. \A i \in 1 .. Len(handed) :
          entries[i].block \in Nat /\ entries[i].block + Confirmations <= tip
    BY <2>1, ReaderFacts DEF ReaderInv, HandedIsDeep
  <2>3. tip \in Nat /\ Confirmations \in Nat
    BY ReaderFacts DEF ReaderInv
  <2>4. \A i \in 1 .. Len(handed) : entries[i].block + Confirmations <= tip'
    BY ONLY <1>2, <2>2, <2>3
  <2> QED BY <1>1, <2>4 DEF HandedIsDeep
<1> QED BY <1>3, <1>4, <1>5, <1>6 DEF ReaderInv

LEMMA ReorgKeeps ==
  ASSUME ReaderInv, NEW block \in 0 .. MaxHead, ShallowReorg(block)
  PROVE  ReaderInv'
<1> USE DEF ReaderInv
<1>1. /\ block \in 1 .. head /\ block + Confirmations > tip
      /\ entries' = Retained(entries, block) /\ head' = block - 1
      /\ UNCHANGED <<next_tx, cursor, delivered, handed, tip>>
  BY ReaderFacts DEF ShallowReorg, Reorg, readerVars
<1>2. block \in Nat /\ entries \in Seq(LogEntry) /\ SortedLog(entries)
  BY <1>1, ReaderFacts DEF ReaderTyped, BlocksSorted
<1>3. PICK k \in 0 .. Len(entries) :
           /\ entries' \in Seq(LogEntry)
           /\ Len(entries') = k
           /\ \A i \in 1 .. k : entries'[i] = entries[i] /\ entries[i].block < block
           /\ \A i \in 1 .. Len(entries) : entries[i].block < block => i <= k
  BY <1>1, <1>2, RetainedIsPrefix
<1>4. k \in Nat /\ \A i \in 1 .. k : i \in 1 .. Len(entries)
  BY ReaderFacts
<1>5. Len(handed) <= k
  <2>1. CASE Len(handed) = 0
    BY <1>4, <2>1
  <2>2. CASE Len(handed) # 0
    <3> DEFINE n == Len(handed)
    <3>1. n \in 1 .. n /\ n \in 1 .. Len(entries)
      BY <2>2, ReaderFacts DEF HandedInOrder
    <3>2. entries[n].block + Confirmations <= tip
      BY <3>1 DEF HandedIsDeep
    <3>3. entries[n].block < block
      BY <1>1, <1>2, <3>1, <3>2, ReaderFacts
    <3> QED BY <1>3, <3>1, <3>3
  <2> QED BY <2>1, <2>2
<1>6. ReaderTyped'
  <2>1. DOMAIN entries' = 1 .. k /\ cursor' \in 0 .. Len(entries')
    BY <1>1, <1>3, <1>4, <1>5, ReaderFacts DEF HandedInOrder
  <2>2. \A i \in DOMAIN entries' : entries'[i].block \in 0 .. MaxHead /\ entries'[i].tx < next_tx'
    BY <1>1, <1>3, <1>4, <2>1 DEF ReaderTyped, IndexerTypeOK
  <2>3. head' \in 0 .. MaxHead /\ tip' \in head' .. MaxHead
    BY <1>1, <1>2, ReaderFacts
  <2> QED BY <1>1, <1>3, <2>1, <2>2, <2>3 DEF ReaderTyped, IndexerTypeOK
<1>7. BlocksSorted'
  <2>1. SortedLog(entries')
    BY <1>3, <1>4 DEF BlocksSorted, SortedLog
  <2>2. \A i \in 1 .. k : entries'[i].block <= head'
    BY <1>1, <1>2, <1>3, <1>4, ReaderFacts
  <2> QED BY <1>3, <2>1, <2>2 DEF BlocksSorted
<1>8. KeysDistinct'
  BY <1>3, <1>4 DEF KeysDistinct, Key
<1>9. HandedInOrder' /\ HandedIsDeep'
  <2>1. \A i \in 1 .. Len(handed) : entries'[i] = entries[i]
    BY <1>3, <1>5, ReaderFacts
  <2> QED BY <1>1, <1>3, <1>5, <2>1, ReaderFacts DEF HandedInOrder, HandedIsDeep, Key
<1> QED BY <1>6, <1>7, <1>8, <1>9

LEMMA ReaderStep == ReaderInv /\ [IndexerNext]_indexerVars => ReaderInv'
<1> SUFFICES ASSUME ReaderInv, [IndexerNext]_indexerVars PROVE ReaderInv'
  OBVIOUS
<1>1. CASE ReadNext
  BY <1>1, ReadNextKeeps
<1>2. CASE Rewind
  BY <1>2, ReaderFacts
  DEF Rewind, ReaderInv, ReaderTyped, IndexerTypeOK, BlocksSorted, SortedLog, KeysDistinct,
      HandedInOrder, HandedIsDeep, logVars, Key
<1>3. CASE \E n \in {1, 2} : \E payloads \in [1 .. n -> Payloads] : Publish(payloads)
  BY <1>3, PublishKeeps
<1>4. CASE Mine
  BY <1>4, MineKeeps
<1>5. CASE \E block \in 0 .. MaxHead : ShallowReorg(block)
  BY <1>5, ReorgKeeps
<1>6. CASE UNCHANGED indexerVars
  BY <1>6 DEF indexerVars, logVars, readerVars, ReaderInv, ReaderTyped, IndexerTypeOK,
              BlocksSorted, SortedLog, KeysDistinct, HandedInOrder, HandedIsDeep, Key
<1> QED BY <1>1, <1>2, <1>3, <1>4, <1>5, <1>6 DEF IndexerNext

(* The engine is handed the log from its start, in order, with nothing     *)
(* skipped, nothing twice and nothing that a shallow reorg takes back,     *)
(* through any number of restarts (drain, indexer.rs).                     *)
THEOREM EngineReadsTheLog == IndexerSpec => []HandedIsLogPrefix
<1>1. ReaderInv => HandedIsLogPrefix
  <2> SUFFICES ASSUME ReaderInv PROVE HandedIsLogPrefix
    OBVIOUS
  <2>1. Len(handed) \in Nat /\ Len(handed) <= Len(entries) /\ Len(entries) \in Nat
    BY ReaderFacts DEF ReaderInv, HandedInOrder
  <2> DEFINE s == SubSeq(entries, 1, Len(handed))
  <2>2. s \in Seq(LogEntry) /\ Len(s) = Len(handed) /\ \A i \in 1 .. Len(handed) : s[i] = entries[i]
    BY <2>1 DEF ReaderInv, ReaderTyped
  <2>3. handed = s
    <3> HIDE DEF s
    <3>1. handed \in Seq(LogEntry) /\ \A i \in 1 .. Len(handed) : handed[i] = s[i]
      BY <2>2 DEF ReaderInv, ReaderTyped, HandedInOrder
    <3> QED BY <2>1, <2>2, <3>1, SeqEqual
  <2> QED BY <2>1, <2>3 DEF ReaderInv, ReaderTyped, HandedIsLogPrefix
<1>2. IndexerSpec => []ReaderInv
  BY ReaderStarts, ReaderStep, PTL DEF IndexerSpec
<1> QED BY <1>1, <1>2, PTL

-----------------------------------------------------------------------------
(* What a transaction writes and decides, for whoever reads along          *)

(* An answer in the log is an answer custody stands by.                    *)
AnswersTrue(payloads, res) ==
  \A i \in 1 .. Len(payloads) :
    payloads[i].kind = "SettlementResolved" =>
      payloads[i].nonce \in DOMAIN res /\ res[payloads[i].nonce] = payloads[i].status

Writes ==
  \/ UNCHANGED logVars
  \/ \E payloads \in Seq(Notice) : Append1(payloads) /\ AnswersTrue(payloads, resolved')

(* What is announced of accounts tells no fate.                            *)
Announced(payloads, n) ==
  /\ payloads \in Seq(Notice) /\ Len(payloads) = n
  /\ \A i \in 1 .. n : payloads[i].kind = "BalanceChanged"

LEMMA AnnouncedOnly ==
  ASSUME NEW bal, bal \in [Accounts -> Nat], NEW pend, pend \in [Accounts -> Nat],
         NEW accounts, accounts \in Seq(Accounts)
  PROVE  Announced(Announce(accounts, bal, pend), Len(accounts))
<1>1. /\ Announce(accounts, bal, pend) \in Seq(Notice)
      /\ Len(Announce(accounts, bal, pend)) = Len(accounts) /\ Len(accounts) \in Nat
      /\ \A i \in 1 .. Len(accounts) :
           /\ Announce(accounts, bal, pend)[i].kind = "BalanceChanged"
           /\ Announce(accounts, bal, pend)[i].account = accounts[i]
           /\ Announce(accounts, bal, pend)[i].available = Lendable(bal, pend)[accounts[i]]
  BY AnnounceSays
<1> QED BY <1>1 DEF Announced

LEMMA AnnouncingWrites ==
  ASSUME TypeOK', NEW accounts, accounts \in Seq(Accounts),
         Append1(Announce(accounts, balance', pending'))
  PROVE  Writes
<1> DEFINE ps == Announce(accounts, balance', pending')
<1>1. balance' \in [Accounts -> Nat] /\ pending' \in [Accounts -> Nat]
  BY DEF TypeOK
<1>2. Announced(ps, Len(accounts))
  BY <1>1, AnnouncedOnly
<1>3. Append1(ps)
  OBVIOUS
<1> HIDE DEF ps
<1> QED BY <1>2, <1>3 DEF Writes, AnswersTrue, Announced

LEMMA AnsweringWrites ==
  ASSUME TypeOK', NEW accounts, accounts \in Seq(Accounts),
         NEW n \in Nonces, NEW status \in {"Settled", "Reverted"}, Resolve(n, status),
         Append1(Announce(accounts, balance', pending') \o <<SettlementResolved(n, status)>>)
  PROVE  Writes
<1> DEFINE ps == Announce(accounts, balance', pending')
           answer == SettlementResolved(n, status)
           qs == ps \o <<answer>>
<1>1. balance' \in [Accounts -> Nat] /\ pending' \in [Accounts -> Nat]
  BY DEF TypeOK
<1>2. Announced(ps, Len(accounts))
  BY <1>1, AnnouncedOnly
<1>3. answer \in Notice /\ answer.nonce = n /\ answer.status = status
  BY DEF SettlementResolved, Notice, AnswerNotice
<1>4. n \in DOMAIN resolved' /\ resolved'[n] = status
  BY DEF Resolve
<1>5. Append1(qs)
  OBVIOUS
<1> HIDE DEF ps, answer
<1>6. /\ qs \in Seq(Notice) /\ Len(qs) = Len(ps) + 1
      /\ qs[Len(ps) + 1] = answer /\ \A i \in 1 .. Len(ps) : qs[i] = ps[i]
  BY <1>2, <1>3, OneMore DEF Announced
<1> HIDE DEF qs
<1>7. AnswersTrue(qs, resolved')
  <2> SUFFICES ASSUME NEW i \in 1 .. Len(qs), qs[i].kind = "SettlementResolved"
               PROVE  qs[i].nonce \in DOMAIN resolved' /\ resolved'[qs[i].nonce] = qs[i].status
    BY DEF AnswersTrue
  <2>1. i = Len(ps) + 1
    <3>1. Len(ps) \in Nat
      BY <1>2 DEF Announced
    <3>2. i \in 1 .. Len(ps) \/ i = Len(ps) + 1
      BY <1>6, <3>1
    <3>3. i \notin 1 .. Len(ps)
      BY <1>2, <1>6 DEF Announced
    <3> QED BY <3>2, <3>3
  <2> QED BY <1>3, <1>4, <1>6, <2>1
<1> QED BY <1>5, <1>6, <1>7 DEF Writes

Decides(b, status) ==
  /\ b.nonce \notin DOMAIN resolved /\ Resolve(b.nonce, status)
  /\ Len(escrows') = Len(escrows) + (IF status = "Settled" THEN Len(b.legs) ELSE 0)

(* A transaction appends to the log or leaves it, and decides nothing or   *)
(* the nonce at the head of the queue, which had no answer.                *)
Transacted ==
  /\ Writes
  /\ \/ resolved' = resolved /\ Len(escrows') = Len(escrows)
     \/ queue # <<>> /\ \E status \in {"Settled", "Reverted"} : Decides(Head(queue), status)

LEMMA IncludeWrites ==
  ASSUME TypeOK, TypeOK', IncludeNext
  PROVE  Transacted
<1> DEFINE b == Head(queue)
<1>1. queue # <<>> /\ queue' = Tail(queue) /\ pending' = pending
  BY DEF IncludeNext
<1>2. b \in Bundle
  <2>1. queue \in Seq(Bundle)
    BY DEF TypeOK
  <2> QED BY <1>1, <2>1
<1>3. b.nonce \in Nonces /\ b.legs \in Seq(Leg)
  BY <1>2 DEF Bundle
<1>4. CASE Answered(b.nonce) /\ UNCHANGED <<balance, escrows, resolved, logVars>>
  BY <1>4 DEF Transacted, Writes
<1>5. CASE ~Answered(b.nonce) /\ Valid(b) /\ SettleAll(b)
  <2> DEFINE accounts == Parties(b)
  <2>1. accounts \in Seq(Accounts)
    BY <1>2, PartiesAreAll
  <2>2. Append1(Announce(accounts, balance', pending') \o <<SettlementResolved(b.nonce, "Settled")>>)
    BY <1>1, <1>5 DEF SettleAll
  <2>3. Resolve(b.nonce, "Settled")
    BY <1>5 DEF SettleAll
  <2>4. Len(escrows') = Len(escrows) + Len(b.legs)
    <3>1. EscrowsOf(b) \in Seq(Escrow) /\ Len(EscrowsOf(b)) = Len(b.legs)
      BY <1>2, BundleEscrows
    <3>2. escrows \in Seq(Escrow) /\ escrows' = escrows \o EscrowsOf(b)
      BY <1>5 DEF SettleAll, TypeOK
    <3>3. \A s, t \in Seq(Escrow) : Len(s \o t) = Len(s) + Len(t)
      OBVIOUS
    <3> HIDE DEF b
    <3> QED BY <3>1, <3>2, <3>3
  <2> HIDE DEF accounts, b
  <2>5. Writes
    BY <1>3, <2>1, <2>2, <2>3, AnsweringWrites
  <2> QED BY <1>1, <1>5, <2>3, <2>4, <2>5 DEF Transacted, Decides, Answered, b
<1>6. CASE ~Answered(b.nonce) /\ ~Valid(b) /\ RevertAll(b)
  <2> DEFINE answer == SettlementResolved(b.nonce, "Reverted")
             qs == Announce(<<>>, balance', pending')
  <2>1. balance' \in [Accounts -> Nat] /\ pending' \in [Accounts -> Nat] /\ <<>> \in Seq(Accounts)
    BY DEF TypeOK
  <2>2. qs \in Seq(Notice) /\ Len(qs) = 0
    <3>1. \A s \in Seq(Accounts) : /\ Announce(s, balance', pending') \in Seq(Notice)
                                    /\ Len(Announce(s, balance', pending')) = Len(s)
      BY <2>1, AnnounceSays
    <3>2. Len(<<>>) = 0
      OBVIOUS
    <3> QED BY <2>1, <3>1, <3>2
  <2> HIDE DEF qs, answer
  <2>3. qs \o <<answer>> = <<answer>>
    BY <2>2
  <2>4. Append1(qs \o <<answer>>)
    BY <1>6, <2>3 DEF RevertAll, answer
  <2>5. Resolve(b.nonce, "Reverted") /\ escrows' = escrows
    BY <1>6 DEF RevertAll
  <2>6. Len(escrows) \in Nat
    BY DEF TypeOK
  <2> HIDE DEF b
  <2>7. Writes
    BY <1>3, <2>1, <2>4, <2>5, AnsweringWrites DEF qs, answer
  <2> QED BY <1>1, <1>6, <2>5, <2>6, <2>7 DEF Transacted, Decides, Answered, b
<1> QED BY <1>4, <1>5, <1>6 DEF IncludeNext

LEMMA CustodyTransacts ==
  ASSUME TypeOK, TypeOK', [CustodyNext]_custodyVars
  PROVE  Transacted
<1>1. CASE Tick \/ UNCHANGED custodyVars \/ DropNextSubmission
  BY <1>1 DEF Tick, custodyVars, ledgerVars, DropNextSubmission, Transacted, Writes
<1>2. CASE \E a \in Accounts, amount \in Amounts : Deposit(a, amount) \/ RequestWithdrawal(a, amount)
  <2>1. PICK a \in Accounts, amount \in Amounts : Deposit(a, amount) \/ RequestWithdrawal(a, amount)
    BY <1>2
  <2>2. /\ <<a>> \in Seq(Accounts) /\ Append1(Announce(<<a>>, balance', pending'))
        /\ UNCHANGED <<resolved, escrows>>
    BY <2>1 DEF Deposit, RequestWithdrawal
  <2> QED BY <2>2, AnnouncingWrites DEF Transacted
<1>3. CASE \E a \in Accounts : ExecuteWithdrawal(a)
  <2>1. PICK a \in Accounts : ExecuteWithdrawal(a)
    BY <1>3
  <2>2. /\ <<a>> \in Seq(Accounts) /\ Append1(Announce(<<a>>, balance', pending'))
        /\ UNCHANGED <<resolved, escrows>>
    BY <2>1 DEF ExecuteWithdrawal
  <2> QED BY <2>2, AnnouncingWrites DEF Transacted
<1>4. CASE \E b \in Bundles : Submit(b)
  BY <1>4 DEF Submit, ledgerVars, Transacted, Writes
<1>5. CASE IncludeNext
  BY <1>5, IncludeWrites
<1>6. CASE \E id \in DOMAIN escrows, contract \in Contracts, outcome \in Outcome :
             SettleEscrow(id, contract, outcome)
  <2>1. PICK id \in DOMAIN escrows, contract \in Contracts, outcome \in Outcome :
             SettleEscrow(id, contract, outcome)
    BY <1>6
  <2> DEFINE e == escrows[id]
             accounts == PayoutOrder(e, outcome)
  <2>2. e.requester \in Accounts /\ e.maker \in Accounts
    <3>1. e \in Escrow
      BY DEF TypeOK
    <3> QED BY <3>1 DEF Escrow
  <2>3. accounts \in Seq(Accounts)
    BY <2>2 DEF PayoutOrder
  <2>4. /\ Append1(Announce(accounts, balance', pending')) /\ UNCHANGED <<pending, resolved>>
        /\ escrows' = [escrows EXCEPT ![id].state = "Settled"]
    BY <2>1 DEF SettleEscrow
  <2>5. Len(escrows') = Len(escrows)
    <3>1. escrows \in Seq(Escrow) /\ escrows' \in Seq(Escrow) /\ DOMAIN escrows' = DOMAIN escrows
      BY <2>4 DEF TypeOK
    <3> QED BY <3>1
  <2> HIDE DEF accounts, e
  <2>6. Writes
    BY <2>3, <2>4, AnnouncingWrites
  <2> QED BY <2>4, <2>5, <2>6 DEF Transacted
<1> QED BY <1>1, <1>2, <1>3, <1>4, <1>5, <1>6 DEF CustodyNext

-----------------------------------------------------------------------------
(* What a reader of the log has yet to hear                                *)

\* After entry i the log speaks of a, and after that it answers n.
Awaits(es, i, a, n) ==
  \E k, t \in 1 .. Len(es) : i < k /\ k < t /\ Says(es, k, a) /\ Tells(es, t, n)

LEMMA AwaitsKeeps ==
  ASSUME LogTyped, NEW payloads \in Seq(Notice), NEW es, Grown(es, payloads),
         NEW i, NEW a, NEW n, Awaits(entries, i, a, n)
  PROVE  Awaits(es, i, a, n)
<1>1. PICK k, t \in 1 .. Len(entries) :
        i < k /\ k < t /\ Says(entries, k, a) /\ Tells(entries, t, n)
  BY DEF Awaits
<1>2. k \in 1 .. Len(es) /\ t \in 1 .. Len(es)
  BY GrownIndex
<1>3. es[k] = entries[k] /\ es[t] = entries[t]
  BY DEF Grown
<1> QED BY <1>1, <1>2, <1>3 DEF Awaits, Says, Tells

LEMMA AwaitsPast ==
  ASSUME NEW es, NEW i \in Nat, NEW a, NEW n, Awaits(es, i, a, n), ~Says(es, i + 1, a)
  PROVE  Awaits(es, i + 1, a, n)
<1>1. PICK k, t \in 1 .. Len(es) : i < k /\ k < t /\ Says(es, k, a) /\ Tells(es, t, n)
  BY DEF Awaits
<1>2. i + 1 < k
  BY <1>1
<1> QED BY <1>1, <1>2 DEF Awaits

\* An answer that has been read is not awaited any more.
LEMMA AwaitsToldNot ==
  ASSUME NEW es, NEW res, NEW n \in DOMAIN res, ToldOnce(es, res, n),
         NEW i \in 1 .. Len(es), Tells(es, i, n), NEW j \in Int, i <= j + 1, NEW a
  PROVE  ~Awaits(es, j, a, n)
<1>1. SUFFICES ASSUME NEW k \in 1 .. Len(es), NEW t \in 1 .. Len(es),
                      j < k, k < t, Tells(es, t, n)
               PROVE  FALSE
  BY DEF Awaits
<1>2. t = i
  BY <1>1 DEF ToldOnce
<1> QED BY <1>1, <1>2

\* An answer is awaited from wherever the log ended before the balances it moved.
LEMMA AwaitsAnswer ==
  ASSUME LogTyped, NEW payloads \in Seq(Notice), NEW es, Grown(es, payloads),
         NEW j \in 1 .. Len(payloads), NEW l \in 1 .. Len(payloads), j < l, NEW a, NEW n,
         payloads[j].kind = "BalanceChanged", payloads[j].account = a,
         payloads[l].kind = "SettlementResolved", payloads[l].nonce = n,
         NEW i \in 0 .. Len(entries)
  PROVE  Awaits(es, i, a, n)
<1> DEFINE k == Len(entries) + j
           t == Len(entries) + l
<1>1. /\ Len(entries) \in Nat /\ Len(payloads) \in Nat
      /\ k \in 1 .. Len(es) /\ t \in 1 .. Len(es)
  BY GrownIndex
<1>2. i < k /\ k < t
  BY <1>1
<1>3. es[k].payload = payloads[j] /\ es[t].payload = payloads[l]
  BY DEF Grown
<1> HIDE DEF k, t
<1> QED BY <1>1, <1>2, <1>3 DEF Awaits, Says, Tells

LEMMA PayloadTyped ==
  ASSUME LogTyped, NEW i \in 1 .. Len(entries), entries[i].payload.kind = "BalanceChanged"
  PROVE  entries[i].payload.available \in Nat
<1>1. entries[i] \in NoticeEntry
  BY DEF LogTyped
<1>2. entries[i].payload \in Notice
  BY <1>1 DEF NoticeEntry
<1> QED BY <1>2 DEF Notice, BalanceNotice, AnswerNotice

(* What a reader believes, and will be told, of an account.                *)

\* Having read h entries it believes f, and neither that nor anything it has yet to read is
\* more than x and what is due by then.
Believes(es, h, f, a, x, due) ==
  /\ f <= x + due[h]
  /\ \A i \in (h + 1) .. Len(es) : Says(es, i, a) => es[i].payload.available <= x + due[i]

LEMMA BelievesMore ==
  ASSUME LogTyped, NEW payloads \in Seq(Notice), NEW es, Grown(es, payloads),
         NEW h \in 0 .. Len(entries), NEW f \in Nat, NEW a, NEW x \in Nat, NEW y \in Nat,
         NEW due, NEW more, \A i \in 0 .. Len(entries) : due[i] \in Nat,
         \A i \in 0 .. Len(es) : more[i] \in Nat,
         \A i \in 0 .. Len(entries) : x + due[i] <= y + more[i],
         \A i \in 1 .. Len(payloads) :
           payloads[i].kind = "BalanceChanged" /\ payloads[i].account = a =>
             payloads[i].available <= y,
         Believes(entries, h, f, a, x, due)
  PROVE  Believes(es, h, f, a, y, more)
<1>1. /\ Len(entries) \in Nat /\ Len(payloads) \in Nat /\ Len(es) \in Nat
      /\ \A i \in 1 .. Len(es) : i \in 1 .. Len(entries)
                                  \/ \E j \in 1 .. Len(payloads) : i = Len(entries) + j
  <2>1. Len(entries) \in Nat /\ Len(payloads) \in Nat
    BY GrownIndex
  <2>2. Len(es) \in Nat
    BY <2>1 DEF Grown
  <2> QED BY <2>1, <2>2, GrownIndex
<1>2. f <= y + more[h]
  <2>1. f <= x + due[h] /\ x + due[h] <= y + more[h] /\ due[h] \in Nat
    BY DEF Believes
  <2>2. more[h] \in Nat
    BY <1>1 DEF Grown
  <2> QED BY <2>1, <2>2
<1>3. ASSUME NEW i \in (h + 1) .. Len(es), Says(es, i, a)
      PROVE  es[i].payload.available <= y + more[i]
  <2>1. i \in 1 .. Len(es) /\ more[i] \in Nat
    BY <1>1
  <2>2. CASE i \in 1 .. Len(entries)
    <3>1. es[i] = entries[i]
      BY <2>2 DEF Grown
    <3>2. entries[i].payload.available <= x + due[i]
      BY <1>3, <2>2, <3>1 DEF Believes, Says
    <3>3. entries[i].payload.available \in Nat
      BY <1>3, <2>2, <3>1, PayloadTyped DEF Says
    <3>4. i \in 0 .. Len(entries)
      BY <1>1, <2>2
    <3>5. x + due[i] <= y + more[i] /\ due[i] \in Nat
      BY <3>4
    <3>6. entries[i].payload.available <= y + more[i]
      <4> DEFINE said == entries[i].payload.available
                 u == due[i]
                 v == more[i]
      <4>1. said \in Nat /\ u \in Nat /\ v \in Nat /\ said <= x + u /\ x + u <= y + v
        BY <2>1, <3>2, <3>3, <3>5
      <4> HIDE DEF said, u, v
      <4>2. said <= y + v
        BY <4>1
      <4> QED BY <4>2 DEF said, v
    <3> QED BY <3>1, <3>6
  <2>3. ASSUME NEW j \in 1 .. Len(payloads), i = Len(entries) + j
        PROVE  es[i].payload.available <= y + more[i]
    <3>1. es[i].payload = payloads[j]
      BY <2>3 DEF Grown
    <3>2. payloads[j].kind = "BalanceChanged" /\ payloads[j].account = a
      BY <1>3, <3>1 DEF Says
    <3>3. payloads[j].available <= y
      BY <3>2
    <3>4. payloads[j].available \in Nat
      <4>1. payloads[j] \in Notice
        OBVIOUS
      <4> QED BY <3>2, <4>1 DEF Notice, BalanceNotice, AnswerNotice
    <3>5. payloads[j].available <= y + more[i]
      <4> DEFINE said == payloads[j].available
                 v == more[i]
      <4>1. said \in Nat /\ v \in Nat /\ said <= y
        BY <2>1, <3>3, <3>4
      <4> HIDE DEF said, v
      <4>2. said <= y + v
        BY <4>1
      <4> QED BY <4>2 DEF said, v
    <3> QED BY <3>1, <3>5
  <2> QED BY <1>1, <2>1, <2>2, <2>3
<1> QED BY <1>2, <1>3 DEF Believes

LEMMA BelievesRead ==
  ASSUME LogTyped, NEW h \in Nat, h + 1 \in 1 .. Len(entries), NEW f \in Nat, NEW g \in Nat,
         NEW a, NEW x \in Nat, NEW due, NEW more,
         \A i \in 0 .. Len(entries) : due[i] \in Nat /\ more[i] \in Nat,
         \A i \in (h + 1) .. Len(entries) : due[i] <= more[i],
         IF Says(entries, h + 1, a) THEN g = entries[h + 1].payload.available
         ELSE g = f /\ due[h] <= more[h + 1],
         Believes(entries, h, f, a, x, due)
  PROVE  Believes(entries, h + 1, g, a, x, more)
<1>1. Len(entries) \in Nat
  BY DEF LogTyped
<1>2. g <= x + more[h + 1]
  <2>1. /\ due[h] \in Nat /\ more[h + 1] \in Nat /\ due[h + 1] \in Nat
        /\ h + 1 \in (h + 1) .. Len(entries)
    BY <1>1
  <2>2. CASE Says(entries, h + 1, a)
    <3>1. g <= x + due[h + 1] /\ due[h + 1] <= more[h + 1]
      BY <2>1, <2>2 DEF Believes
    <3> QED BY <2>1, <3>1
  <2>3. CASE ~Says(entries, h + 1, a)
    BY <2>1, <2>3 DEF Believes
  <2> QED BY <2>2, <2>3
<1>3. ASSUME NEW i \in (h + 1 + 1) .. Len(entries), Says(entries, i, a)
      PROVE  entries[i].payload.available <= x + more[i]
  <2>1. i \in (h + 1) .. Len(entries) /\ i \in 0 .. Len(entries) /\ i \in 1 .. Len(entries)
    BY <1>1
  <2>2. entries[i].payload.available <= x + due[i]
    BY <1>3, <2>1 DEF Believes
  <2>4. entries[i].payload.available \in Nat
    BY <1>3, <2>1, PayloadTyped DEF Says
  <2>5. due[i] <= more[i] /\ due[i] \in Nat /\ more[i] \in Nat
    BY <2>1
  <2> DEFINE said == entries[i].payload.available
             u == due[i]
             v == more[i]
  <2>6. said \in Nat /\ u \in Nat /\ v \in Nat /\ said <= x + u /\ u <= v
    BY <2>2, <2>4, <2>5
  <2> HIDE DEF said, u, v
  <2>7. said <= x + v
    BY <2>6
  <2> QED BY <2>7 DEF said, v
<1> QED BY <1>2, <1>3 DEF Believes

(* A reader that has read everything.                                      *)
LEMMA BelievesAll ==
  ASSUME LogTyped, NEW f \in Nat, NEW a, NEW x \in Nat, f <= x, NEW due,
         due[Len(entries)] \in Nat
  PROVE  Believes(entries, Len(entries), f, a, x, due)
<1>1. Len(entries) \in Nat
  BY DEF LogTyped
<1> QED BY <1>1 DEF Believes

-----------------------------------------------------------------------------
(* A transaction, as one account and a reader of the log see it            *)

\* What is announced of an account is what is available to it then.
Speaks(payloads) ==
  /\ payloads \in Seq(Notice) /\ Grown(entries', payloads)
  /\ \A i \in 1 .. Len(payloads) :
       payloads[i].kind = "BalanceChanged" =>
         payloads[i].available = Lendable(balance', pending')[payloads[i].account]

AnnouncedAs(accounts, bal, pend) ==
  /\ Announce(accounts, bal, pend) \in Seq(Notice)
  /\ Len(Announce(accounts, bal, pend)) = Len(accounts) /\ Len(accounts) \in Nat
  /\ \A i \in 1 .. Len(accounts) :
       /\ Announce(accounts, bal, pend)[i].kind = "BalanceChanged"
       /\ Announce(accounts, bal, pend)[i].account = accounts[i]
       /\ Announce(accounts, bal, pend)[i].available = Lendable(bal, pend)[accounts[i]]

LEMMA AnnouncesAll ==
  \A bal, pend \in [Accounts -> Nat], accounts \in Seq(Accounts) : AnnouncedAs(accounts, bal, pend)
<1> TAKE bal, pend \in [Accounts -> Nat], accounts \in Seq(Accounts)
<1> QED BY AnnounceSays, SMTT(60) DEF AnnouncedAs

LEMMA SaysNothing ==
  ASSUME LogTyped, entries' = entries PROVE \E payloads : Speaks(payloads)
<1>1. <<>> \in Seq(Notice) /\ Len(<<>>) = 0
  OBVIOUS
<1>2. entries \in Seq(NoticeEntry) /\ Len(entries) \in Nat
  BY DEF LogTyped
<1>3. Grown(entries', <<>>)
  BY <1>1, <1>2 DEF Grown
<1>4. \A i \in 1 .. Len(<<>>) : FALSE
  BY <1>1
<1>5. Speaks(<<>>)
  BY <1>1, <1>3, <1>4 DEF Speaks
<1> QED BY <1>5

\* The accounts announced, and an answer after them.
LEMMA SaysAccounts ==
  ASSUME TypeOK', LogTyped, NEW accounts, accounts \in Seq(Accounts),
         Append1(Announce(accounts, balance', pending'))
  PROVE  \E payloads : Speaks(payloads)
<1> DEFINE qs == Announce(accounts, balance', pending')
<1>1. balance' \in [Accounts -> Nat] /\ pending' \in [Accounts -> Nat]
  BY DEF TypeOK
<1>2. /\ qs \in Seq(Notice) /\ Len(qs) = Len(accounts)
      /\ \A i \in 1 .. Len(accounts) :
           /\ qs[i].kind = "BalanceChanged" /\ qs[i].account = accounts[i]
           /\ qs[i].available = Lendable(balance', pending')[accounts[i]]
  <2>1. AnnouncedAs(accounts, balance', pending')
    BY <1>1, AnnouncesAll
  <2> QED BY <2>1 DEF AnnouncedAs
<1>3. Append1(qs)
  OBVIOUS
<1> HIDE DEF qs
<1>4. Grown(entries', qs)
  BY <1>2, <1>3, LogGrows
<1> QED BY <1>2, <1>4 DEF Speaks

SpeaksLast(payloads, accounts, n) ==
  /\ Speaks(payloads)
  /\ Len(accounts) \in Nat /\ Len(payloads) = Len(accounts) + 1
  /\ \A i \in 1 .. Len(accounts) :
       payloads[i].kind = "BalanceChanged" /\ payloads[i].account = accounts[i]
  /\ payloads[Len(accounts) + 1].kind = "SettlementResolved"
  /\ payloads[Len(accounts) + 1].nonce = n

LEMMA SaysAnswer ==
  ASSUME TypeOK', LogTyped, NEW accounts, accounts \in Seq(Accounts),
         NEW n \in Nonces, NEW status \in {"Settled", "Reverted"},
         Append1(Announce(accounts, balance', pending') \o <<SettlementResolved(n, status)>>)
  PROVE  \E payloads : SpeaksLast(payloads, accounts, n)
<1> DEFINE qs == Announce(accounts, balance', pending')
           answer == SettlementResolved(n, status)
           ps == qs \o <<answer>>
           k == Len(accounts)
           after == Lendable(balance', pending')
<1>1. balance' \in [Accounts -> Nat] /\ pending' \in [Accounts -> Nat]
  BY DEF TypeOK
<1>2. /\ qs \in Seq(Notice) /\ Len(qs) = k /\ k \in Nat
      /\ \A i \in 1 .. k : /\ qs[i].kind = "BalanceChanged"
                           /\ qs[i].account = accounts[i]
                           /\ qs[i].available = after[accounts[i]]
  <2>1. AnnouncedAs(accounts, balance', pending')
    BY <1>1, AnnouncesAll
  <2> QED BY <2>1 DEF AnnouncedAs
<1>3. answer \in Notice /\ answer.kind = "SettlementResolved" /\ answer.nonce = n
  BY DEF SettlementResolved, Notice, AnswerNotice
<1>4. Append1(ps)
  OBVIOUS
<1> HIDE DEF qs, answer, after
<1>5. /\ ps \in Seq(Notice) /\ Len(ps) = k + 1
      /\ ps[k + 1] = answer /\ \A i \in 1 .. k : ps[i] = qs[i]
  <2>1. /\ ps \in Seq(Notice) /\ Len(ps) = Len(qs) + 1
        /\ ps[Len(qs) + 1] = answer /\ \A i \in 1 .. Len(qs) : ps[i] = qs[i]
    BY <1>2, <1>3, OneMore
  <2> QED BY <1>2, <2>1
<1> HIDE DEF ps
<1>6. Grown(entries', ps)
  BY <1>4, <1>5, LogGrows
<1>7. ASSUME NEW i \in 1 .. Len(ps), ps[i].kind = "BalanceChanged"
      PROVE  ps[i].available = after[ps[i].account]
  <2>1. i # k + 1
    BY <1>3, <1>5, <1>7
  <2>2. i \in 1 .. k
    BY <1>2, <1>5, <2>1
  <2> QED BY <1>2, <1>5, <2>2
<1>8. Speaks(ps)
  BY <1>5, <1>6, <1>7 DEF Speaks, after
<1>9. SpeaksLast(ps, accounts, n)
  BY <1>2, <1>3, <1>5, <1>8 DEF SpeaksLast
<1> QED BY <1>9

\* What a transaction is to one account: more of it, a withdrawal asked for, one paid.
Gains(a) ==
  /\ pending'[a] = pending[a] /\ matures_at'[a] = matures_at[a] /\ balance[a] <= balance'[a]
Retires(a) ==
  pending[a] = 0 /\ balance'[a] = balance[a] /\ matures_at'[a] = now + WithdrawalDelay
Leaves(a) ==
  /\ pending[a] # 0 /\ matures_at[a] <= now
  /\ balance'[a] = Available(balance, pending, a) /\ pending'[a] = 0
  /\ matures_at'[a] = matures_at[a]
\* Or an answer, for all of them.
Settles(b) ==
  /\ queue # <<>> /\ b = Head(queue) /\ ~Answered(b.nonce) /\ Resolve(b.nonce, "Settled")
  /\ balance' = [a \in Accounts |-> balance[a] - Debit(b, a)]
  /\ UNCHANGED <<pending, matures_at>>
  /\ \E payloads : SpeaksLast(payloads, Parties(b), b.nonce)
Reverts(b) ==
  /\ queue # <<>> /\ b = Head(queue) /\ ~Answered(b.nonce) /\ Resolve(b.nonce, "Reverted")
  /\ UNCHANGED <<balance, pending, matures_at>>
  /\ \E payloads : Speaks(payloads)
Serves ==
  /\ resolved' = resolved
  /\ \A a \in Accounts : Gains(a) \/ Retires(a) \/ Leaves(a)
  /\ \E payloads : Speaks(payloads)

LEMMA IncludeServes ==
  ASSUME TypeOK, TypeOK', LogTyped, IncludeNext
  PROVE  Serves \/ \E b \in Bundle : Settles(b) \/ Reverts(b)
<1> DEFINE b == Head(queue)
<1>1. /\ queue # <<>> /\ UNCHANGED <<pending, matures_at>>
      /\ balance \in [Accounts -> Nat] /\ balance' \in [Accounts -> Nat]
  BY DEF IncludeNext, TypeOK
<1>2. b \in Bundle
  <2>1. queue \in Seq(Bundle)
    BY DEF TypeOK
  <2> QED BY <1>1, <2>1
<1>3. b.nonce \in Nonces
  BY <1>2 DEF Bundle
<1>4. CASE Answered(b.nonce) /\ UNCHANGED <<balance, escrows, resolved, logVars>>
  <2>1. \E payloads : Speaks(payloads)
    BY <1>4, SaysNothing DEF logVars
  <2>2. \A a \in Accounts : Gains(a)
    BY <1>1, <1>4 DEF Gains
  <2> QED BY <1>4, <2>1, <2>2 DEF Serves
<1>5. CASE ~Answered(b.nonce) /\ Valid(b) /\ SettleAll(b)
  <2> DEFINE accounts == Parties(b)
  <2>1. accounts \in Seq(Accounts)
    BY <1>2, PartiesAreAll
  <2>2. Append1(Announce(accounts, balance', pending') \o <<SettlementResolved(b.nonce, "Settled")>>)
    BY <1>1, <1>5 DEF SettleAll
  <2>3. /\ Resolve(b.nonce, "Settled")
        /\ balance' = [a \in Accounts |-> balance[a] - Debit(b, a)]
    BY <1>5 DEF SettleAll
  <2> HIDE DEF accounts, b
  <2>4. \E payloads : SpeaksLast(payloads, accounts, b.nonce)
    BY <1>3, <2>1, <2>2, SaysAnswer
  <2>5. Settles(b)
    BY <1>1, <1>5, <2>3, <2>4 DEF Settles, accounts, b
  <2> QED BY <1>2, <2>5
<1>6. CASE ~Answered(b.nonce) /\ ~Valid(b) /\ RevertAll(b)
  <2> DEFINE answer == SettlementResolved(b.nonce, "Reverted")
             qs == Announce(<<>>, balance', pending')
  <2>1. balance' \in [Accounts -> Nat] /\ pending' \in [Accounts -> Nat] /\ <<>> \in Seq(Accounts)
    BY DEF TypeOK
  <2>2. qs \in Seq(Notice) /\ Len(qs) = 0
    <3>1. \A s \in Seq(Accounts) : /\ Announce(s, balance', pending') \in Seq(Notice)
                                    /\ Len(Announce(s, balance', pending')) = Len(s)
      BY <2>1, AnnounceSays
    <3>2. Len(<<>>) = 0
      OBVIOUS
    <3> QED BY <2>1, <3>1, <3>2
  <2> HIDE DEF qs, answer
  <2>3. qs \o <<answer>> = <<answer>>
    BY <2>2
  <2>4. Append1(qs \o <<answer>>)
    BY <1>6, <2>3 DEF RevertAll, answer
  <2>5. Resolve(b.nonce, "Reverted") /\ UNCHANGED balance
    BY <1>6 DEF RevertAll
  <2> HIDE DEF b
  <2>6. \E payloads : SpeaksLast(payloads, <<>>, b.nonce)
    BY <1>3, <2>1, <2>4, SaysAnswer DEF qs, answer
  <2>7. Reverts(b)
    BY <1>1, <1>6, <2>5, <2>6 DEF Reverts, SpeaksLast, b
  <2> QED BY <1>2, <2>7
<1> QED BY <1>4, <1>5, <1>6 DEF IncludeNext

LEMMA MoneyServes ==
  ASSUME TypeOK, TypeOK', LogTyped,
         \/ \E a \in Accounts, amount \in Amounts : Deposit(a, amount) \/ RequestWithdrawal(a, amount)
         \/ \E a \in Accounts : ExecuteWithdrawal(a)
  PROVE  Serves
<1>1. /\ balance \in [Accounts -> Nat] /\ pending \in [Accounts -> Nat]
      /\ matures_at \in [Accounts -> Nat] /\ Amounts \subseteq Nat
  BY CustodyConstants DEF TypeOK
<1>2. ASSUME NEW a \in Accounts, NEW amount \in Amounts, Deposit(a, amount) PROVE Serves
  <2>1. /\ <<a>> \in Seq(Accounts) /\ Append1(Announce(<<a>>, balance', pending'))
        /\ UNCHANGED <<resolved, pending, matures_at>>
        /\ balance' = [balance EXCEPT ![a] = balance[a] + amount]
    BY <1>2 DEF Deposit
  <2>2. \A c \in Accounts : Gains(c)
    BY <1>1, <2>1 DEF Gains
  <2> QED BY <2>1, <2>2, SaysAccounts DEF Serves
<1>3. ASSUME NEW a \in Accounts, NEW amount \in Amounts, RequestWithdrawal(a, amount) PROVE Serves
  <2>1. /\ <<a>> \in Seq(Accounts) /\ Append1(Announce(<<a>>, balance', pending'))
        /\ UNCHANGED <<resolved, balance>> /\ pending[a] = 0
        /\ pending' = [pending EXCEPT ![a] = amount]
        /\ matures_at' = [matures_at EXCEPT ![a] = now + WithdrawalDelay]
    BY <1>3 DEF RequestWithdrawal
  <2>2. ASSUME NEW c \in Accounts PROVE Gains(c) \/ Retires(c)
    BY <1>1, <2>1 DEF Gains, Retires
  <2> QED BY <2>1, <2>2, SaysAccounts DEF Serves
<1>4. ASSUME NEW a \in Accounts, ExecuteWithdrawal(a) PROVE Serves
  <2>1. /\ <<a>> \in Seq(Accounts) /\ Append1(Announce(<<a>>, balance', pending'))
        /\ UNCHANGED <<resolved, matures_at>> /\ pending[a] # 0 /\ matures_at[a] <= now
        /\ balance' = [balance EXCEPT ![a] = balance[a] - PaidOut(a)]
        /\ pending' = [pending EXCEPT ![a] = 0]
    BY <1>1, <1>4 DEF ExecuteWithdrawal, TypeOK
  <2>2. balance[a] - PaidOut(a) = Available(balance, pending, a)
    <3>1. PaidOut(a) = IF balance[a] >= pending[a] THEN pending[a] ELSE balance[a]
      BY <1>1 DEF PaidOut, Min
    <3> QED BY <1>1, <3>1 DEF Available
  <2>3. ASSUME NEW c \in Accounts PROVE Gains(c) \/ Leaves(c)
    <3>1. CASE c = a
      BY <1>1, <2>1, <2>2, <3>1 DEF Leaves
    <3>2. CASE c # a
      BY <1>1, <2>1, <3>2 DEF Gains
    <3> QED BY <3>1, <3>2
  <2> QED BY <2>1, <2>3, SaysAccounts DEF Serves
<1> QED BY <1>2, <1>3, <1>4

LEMMA PayoutServes ==
  ASSUME TypeOK, TypeOK', LogTyped, NEW id \in DOMAIN escrows, NEW contract \in Contracts,
         NEW outcome \in Outcome, SettleEscrow(id, contract, outcome)
  PROVE  Serves
<1> DEFINE e == escrows[id]
           accounts == PayoutOrder(e, outcome)
<1>1. e \in Escrow
  BY DEF TypeOK
<1>2. e.requester \in Accounts /\ e.maker \in Accounts
  BY <1>1 DEF Escrow
<1>3. accounts \in Seq(Accounts)
  BY <1>2 DEF PayoutOrder
<1>4. /\ Append1(Announce(accounts, balance', pending'))
      /\ UNCHANGED <<pending, resolved, matures_at>>
      /\ balance' = [a \in Accounts |-> balance[a] + Credit(e, outcome, a)]
  BY DEF SettleEscrow
<1>5. balance \in [Accounts -> Nat]
  BY DEF TypeOK
<1> HIDE DEF e, accounts
<1>6. ASSUME NEW a \in Accounts PROVE Credit(e, outcome, a) \in Nat
  <2>1. PICK u \in Nat, v \in Nat :
          \A c : Credit(e, outcome, c) = (IF c = e.requester THEN u ELSE 0)
                                         + (IF c = e.maker THEN v ELSE 0)
    BY <1>1, CreditShares
  <2> QED BY <2>1
<1>7. \A a \in Accounts : Gains(a)
  BY <1>4, <1>5, <1>6 DEF Gains
<1> QED BY <1>3, <1>4, <1>7, SaysAccounts DEF Serves

(* A transaction leaves decisions alone and serves each account, or it     *)
(* answers the nonce at the head of the queue.                             *)
LEMMA CustodyServes ==
  ASSUME TypeOK, TypeOK', LogTyped, [CustodyNext]_custodyVars
  PROVE  Serves \/ \E b \in Bundle : Settles(b) \/ Reverts(b)
<1>1. CASE \/ Tick \/ UNCHANGED custodyVars \/ DropNextSubmission \/ \E b \in Bundles : Submit(b)
  <2>1. UNCHANGED <<balance, pending, matures_at, resolved, entries>>
    BY <1>1 DEF Tick, custodyVars, ledgerVars, logVars, DropNextSubmission, Submit
  <2>2. balance \in [Accounts -> Nat]
    BY DEF TypeOK
  <2>3. \A a \in Accounts : Gains(a)
    BY <2>1, <2>2 DEF Gains
  <2> QED BY <2>1, <2>3, SaysNothing DEF Serves
<1>2. CASE \/ \E a \in Accounts, amount \in Amounts : Deposit(a, amount) \/ RequestWithdrawal(a, amount)
           \/ \E a \in Accounts : ExecuteWithdrawal(a)
  BY <1>2, MoneyServes
<1>3. CASE IncludeNext
  BY <1>3, IncludeServes
<1>4. CASE \E id \in DOMAIN escrows, contract \in Contracts, outcome \in Outcome :
             SettleEscrow(id, contract, outcome)
  BY <1>4, PayoutServes
<1> QED BY <1>1, <1>2, <1>3, <1>4 DEF CustodyNext

\* An account that is debited is told of.
LEMMA PartyAnnounced ==
  ASSUME NEW b \in Bundle, NEW a \in Accounts, Debit(b, a) # 0
  PROVE  \E k \in 1 .. Len(Parties(b)) : Parties(b)[k] = a
<1> DEFINE owed == [i \in DOMAIN b.legs |->
                      (IF b.legs[i].maker = a THEN b.legs[i].maker_contribution ELSE 0)
                      + (IF b.requester = a THEN b.legs[i].requester_contribution ELSE 0)]
<1>1. b.legs \in Seq(Leg) /\ IsFiniteSet(DOMAIN b.legs)
  <2>1. b.legs \in Seq(Leg)
    BY DEF Bundle
  <2>2. DOMAIN b.legs = 1 .. Len(b.legs) /\ Len(b.legs) \in Nat
    BY <2>1
  <2>3. IsFiniteSet(1 .. Len(b.legs))
    BY <2>2, FS_Interval
  <2> QED BY <2>1, <2>2, <2>3
<1>2. Debit(b, a) = SumFunctionOnSet(owed, DOMAIN b.legs)
  <2>1. Debit(b, a) = SumFunction(owed) /\ DOMAIN owed = DOMAIN b.legs
    BY DEF Debit
  <2> HIDE DEF owed
  <2> QED BY <2>1 DEF SumFunction
<1>3. \E i \in DOMAIN b.legs : b.legs[i].maker = a \/ b.requester = a
  <2> SUFFICES ASSUME \A i \in DOMAIN b.legs : b.legs[i].maker # a /\ b.requester # a
               PROVE  FALSE
    OBVIOUS
  <2>1. \A i \in DOMAIN b.legs : owed[i] = 0
    OBVIOUS
  <2> HIDE DEF owed
  <2> QED BY <1>1, <1>2, <2>1, SumZero
<1>4. Parties(b) \in Seq(Accounts) /\ Contains(Parties(b), a)
  BY <1>3, PartiesAreAll
<1> QED BY <1>4 DEF Contains
=============================================================================
