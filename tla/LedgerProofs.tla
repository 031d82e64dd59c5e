---------------------------- MODULE LedgerProofs ----------------------------
(***************************************************************************)
(* The chains and totals of the ledger, for any number of claims: every    *)
(* expiry chain and committed list links exactly the claims it should,     *)
(* and the whole is a book of claims.                                      *)
(***************************************************************************)
EXTENDS Ledger, Induction

-----------------------------------------------------------------------------
(* Doubly linked paths                                                     *)

\* A path is n distinct slots; beyond its ends there is the nil link.
At(s, n, k) == IF k \in 1 .. n THEN s[k] ELSE NIL
IsPath(s, n) ==
  /\ n \in Nat /\ s \in [1 .. n -> ResSlots]
  /\ \A j, k \in 1 .. n : s[j] = s[k] => j = k
Along(s, n) == {s[k] : k \in 1 .. n}

\* `prv` and `nxt` lead along it, from `head` to `tail`.
Threads(s, n, prv, nxt, head, tail) ==
  /\ head = At(s, n, 1) /\ tail = At(s, n, n)
  /\ \A k \in 1 .. n : prv[s[k]] = At(s, n, k - 1) /\ nxt[s[k]] = At(s, n, k + 1)

Inserted(s, n, m, i) ==
  [k \in 1 .. n + 1 |-> IF k <= m THEN s[k] ELSE IF k = m + 1 THEN i ELSE s[k - 1]]
Removed(s, n, m) == [k \in 1 .. n - 1 |-> IF k < m THEN s[k] ELSE s[k + 1]]

LEMMA InsertedPath ==
  ASSUME NEW s, NEW n, IsPath(s, n), NEW m \in 0 .. n,
         NEW i \in ResSlots, i \notin Along(s, n)
  PROVE  /\ IsPath(Inserted(s, n, m, i), n + 1)
         /\ Along(Inserted(s, n, m, i), n + 1) = Along(s, n) \cup {i}
<1> DEFINE t == Inserted(s, n, m, i)
<1>1. n \in Nat /\ m \in Nat /\ m <= n /\ \A k \in 1 .. n : s[k] \in ResSlots /\ s[k] # i
  BY DEF IsPath, Along
<1>2. /\ t \in [1 .. n + 1 -> ResSlots]
      /\ \A k \in 1 .. n + 1 : t[k] = IF k <= m THEN s[k] ELSE IF k = m + 1 THEN i ELSE s[k - 1]
  BY <1>1 DEF Inserted
<1> HIDE DEF t
<1>3. \A j, k \in 1 .. n + 1 : t[j] = t[k] => j = k
  <2> SUFFICES ASSUME NEW j \in 1 .. n + 1, NEW k \in 1 .. n + 1, t[j] = t[k] PROVE j = k
    OBVIOUS
  <2>1. j = m + 1 \/ k = m + 1 => j = k
    BY <1>1, <1>2
  <2>2. CASE j # m + 1 /\ k # m + 1
    <3> DEFINE u == IF j <= m THEN j ELSE j - 1
               v == IF k <= m THEN k ELSE k - 1
    <3>1. u \in 1 .. n /\ v \in 1 .. n /\ s[u] = t[j] /\ s[v] = t[k]
      BY <1>1, <1>2, <2>2
    <3>2. u = v
      BY <3>1 DEF IsPath
    <3> QED BY <1>1, <2>2, <3>2
  <2> QED BY <2>1, <2>2
<1>4. Along(t, n + 1) = Along(s, n) \cup {i}
  <2>1. ASSUME NEW k \in 1 .. n + 1 PROVE t[k] \in Along(s, n) \cup {i}
    BY <1>1, <1>2 DEF Along
  <2>2. i = t[m + 1] /\ m + 1 \in 1 .. n + 1
    BY <1>1, <1>2
  <2>3. ASSUME NEW k \in 1 .. n PROVE s[k] \in Along(t, n + 1)
    <3>1. CASE k <= m
      BY <1>1, <1>2, <3>1 DEF Along
    <3>2. CASE k > m
      <4>1. k + 1 \in 1 .. n + 1 /\ t[k + 1] = s[k]
        BY <1>1, <1>2, <3>2
      <4> QED BY <4>1 DEF Along
    <3> QED BY <1>1, <3>1, <3>2
  <2> QED BY <2>1, <2>2, <2>3 DEF Along
<1> QED BY <1>1, <1>2, <1>3, <1>4 DEF IsPath, t

LEMMA InsertedThreads ==
  ASSUME NEW s, NEW n, IsPath(s, n), NEW m \in 0 .. n,
         NEW i \in ResSlots, i \notin Along(s, n),
         NEW prv, NEW nxt, NEW head, NEW tail, Threads(s, n, prv, nxt, head, tail),
         NEW after, after = At(s, n, m), NEW next, next = At(s, n, m + 1),
         NEW prv2, NEW nxt2, prv2[i] = after, nxt2[i] = next,
         \A j \in ResSlots \ {i} : /\ prv2[j] = IF j = next THEN i ELSE prv[j]
                                   /\ nxt2[j] = IF j = after THEN i ELSE nxt[j]
  PROVE  Threads(Inserted(s, n, m, i), n + 1, prv2, nxt2,
                 IF after = NIL THEN i ELSE head, IF next = NIL THEN i ELSE tail)
<1> DEFINE t == Inserted(s, n, m, i)
<1>1. n \in Nat /\ m \in Nat /\ m <= n
      /\ \A k \in 1 .. n : s[k] \in ResSlots /\ s[k] # i /\ s[k] # NIL
  BY LedgerConstants DEF IsPath, Along
<1>2. \A k \in 1 .. n + 1 : t[k] = IF k <= m THEN s[k] ELSE IF k = m + 1 THEN i ELSE s[k - 1]
  BY <1>1 DEF Inserted
<1> HIDE DEF t
<1>3. (after = NIL <=> m = 0) /\ (next = NIL <=> m = n)
  BY <1>1 DEF At
<1>4. At(t, n + 1, 1) = IF after = NIL THEN i ELSE head
  BY <1>1, <1>2, <1>3 DEF At, Threads
<1>5. At(t, n + 1, n + 1) = IF next = NIL THEN i ELSE tail
  BY <1>1, <1>2, <1>3 DEF At, Threads
<1>6. ASSUME NEW k \in 1 .. n + 1
      PROVE  prv2[t[k]] = At(t, n + 1, k - 1) /\ nxt2[t[k]] = At(t, n + 1, k + 1)
  <2>1. CASE k = m + 1
    BY <1>1, <1>2, <2>1 DEF At
  <2>2. CASE k <= m
    <3>1. t[k] = s[k] /\ s[k] \in ResSlots \ {i} /\ k \in 1 .. n /\ k \in Nat
      BY <1>1, <1>2, <2>2
    <3>2. s[k] # next
      BY <1>1, <2>2, <3>1 DEF At, IsPath
    <3>3. s[k] = after <=> k = m
      BY <1>1, <2>2, <3>1 DEF At, IsPath
    <3>4. prv2[s[k]] = At(s, n, k - 1)
      BY <3>1, <3>2 DEF Threads
    <3>5. At(s, n, k - 1) = At(t, n + 1, k - 1)
      BY <1>1, <1>2, <2>2, <3>1 DEF At
    <3>6. CASE k = m
      BY <1>1, <1>2, <3>1, <3>3, <3>4, <3>5, <3>6 DEF At
    <3>7. CASE k < m
      <4>1. nxt2[s[k]] = At(s, n, k + 1)
        BY <3>1, <3>3, <3>7 DEF Threads
      <4>2. At(s, n, k + 1) = At(t, n + 1, k + 1)
        BY <1>1, <1>2, <3>1, <3>7 DEF At
      <4> QED BY <3>1, <3>4, <3>5, <4>1, <4>2
    <3> QED BY <1>1, <2>2, <3>1, <3>6, <3>7
  <2>3. CASE k > m + 1
    <3>1. t[k] = s[k - 1] /\ s[k - 1] \in ResSlots \ {i} /\ k - 1 \in 1 .. n /\ k \in Nat
      BY <1>1, <1>2, <2>3
    <3>2. s[k - 1] # after
      BY <1>1, <2>3, <3>1 DEF At, IsPath
    <3>3. s[k - 1] = next <=> k - 1 = m + 1
      BY <1>1, <2>3, <3>1 DEF At, IsPath
    <3>4. nxt2[s[k - 1]] = At(s, n, k)
      <4>1. nxt[s[k - 1]] = At(s, n, (k - 1) + 1)
        BY <3>1 DEF Threads
      <4>2. (k - 1) + 1 = k
        BY <3>1
      <4> QED BY <3>1, <3>2, <4>1, <4>2
    <3>5. At(s, n, k) = At(t, n + 1, k + 1)
      BY <1>1, <1>2, <2>3, <3>1 DEF At
    <3>6. CASE k - 1 = m + 1
      BY <1>1, <1>2, <3>1, <3>3, <3>4, <3>5, <3>6 DEF At
    <3>7. CASE k - 1 > m + 1
      <4>1. prv2[s[k - 1]] = At(s, n, (k - 1) - 1)
        BY <3>1, <3>3, <3>7 DEF Threads
      <4>2. At(s, n, (k - 1) - 1) = At(t, n + 1, k - 1)
        BY <1>1, <1>2, <3>1, <3>7 DEF At
      <4> QED BY <3>1, <3>4, <3>5, <4>1, <4>2
    <3> QED BY <1>1, <2>3, <3>1, <3>6, <3>7
  <2> QED BY <1>1, <2>1, <2>2, <2>3
<1> QED BY <1>4, <1>5, <1>6 DEF Threads, t

LEMMA RemovedPath ==
  ASSUME NEW s, NEW n, IsPath(s, n), NEW m \in 1 .. n
  PROVE  /\ IsPath(Removed(s, n, m), n - 1)
         /\ Along(Removed(s, n, m), n - 1) = Along(s, n) \ {s[m]}
<1> DEFINE t == Removed(s, n, m)
<1>1. n \in Nat /\ n - 1 \in Nat /\ m \in Nat /\ m <= n /\ \A k \in 1 .. n : s[k] \in ResSlots
  BY DEF IsPath
<1>2. /\ t \in [1 .. n - 1 -> ResSlots]
      /\ \A k \in 1 .. n - 1 : t[k] = IF k < m THEN s[k] ELSE s[k + 1]
  BY <1>1 DEF Removed
<1> HIDE DEF t
<1>3. \A k \in 1 .. n - 1 :
        LET u == IF k < m THEN k ELSE k + 1 IN u \in 1 .. n /\ u # m /\ t[k] = s[u]
  BY <1>1, <1>2
<1>4. \A j, k \in 1 .. n - 1 : t[j] = t[k] => j = k
  <2> SUFFICES ASSUME NEW j \in 1 .. n - 1, NEW k \in 1 .. n - 1, t[j] = t[k] PROVE j = k
    OBVIOUS
  <2> DEFINE u == IF j < m THEN j ELSE j + 1
             v == IF k < m THEN k ELSE k + 1
  <2>1. u \in 1 .. n /\ v \in 1 .. n /\ s[u] = s[v]
    BY <1>3
  <2>2. u = v
    BY <2>1 DEF IsPath
  <2> QED BY <1>1, <2>2
<1>5. Along(t, n - 1) = Along(s, n) \ {s[m]}
  <2>1. ASSUME NEW k \in 1 .. n - 1 PROVE t[k] \in Along(s, n) \ {s[m]}
    BY <1>3 DEF Along, IsPath
  <2>2. ASSUME NEW k \in 1 .. n, s[k] # s[m] PROVE s[k] \in Along(t, n - 1)
    <3>1. CASE k < m
      <4>1. k \in 1 .. n - 1 /\ t[k] = s[k]
        BY <1>1, <1>2, <3>1
      <4> QED BY <4>1 DEF Along
    <3>2. CASE k > m
      <4>1. k - 1 \in 1 .. n - 1 /\ t[k - 1] = s[k]
        BY <1>1, <1>2, <3>2
      <4> QED BY <4>1 DEF Along
    <3> QED BY <1>1, <2>2, <3>1, <3>2
  <2> QED BY <2>1, <2>2 DEF Along
<1> QED BY <1>1, <1>2, <1>4, <1>5 DEF IsPath, t

LEMMA RemovedThreads ==
  ASSUME NEW s, NEW n, IsPath(s, n), NEW m \in 1 .. n,
         NEW prv, NEW nxt, NEW head, NEW tail, Threads(s, n, prv, nxt, head, tail),
         NEW prev, prev = At(s, n, m - 1), NEW next, next = At(s, n, m + 1),
         NEW prv2, NEW nxt2,
         \A j \in ResSlots \ {s[m]} : /\ prv2[j] = IF j = next THEN prev ELSE prv[j]
                                      /\ nxt2[j] = IF j = prev THEN next ELSE nxt[j]
  PROVE  Threads(Removed(s, n, m), n - 1, prv2, nxt2,
                 IF prev = NIL THEN next ELSE head, IF next = NIL THEN prev ELSE tail)
<1> DEFINE t == Removed(s, n, m)
<1>1. n \in Nat /\ n - 1 \in Nat /\ m \in Nat /\ m <= n
      /\ \A k \in 1 .. n : s[k] \in ResSlots /\ s[k] # NIL
  BY LedgerConstants DEF IsPath
<1>2. \A k \in 1 .. n - 1 : t[k] = IF k < m THEN s[k] ELSE s[k + 1]
  BY <1>1 DEF Removed
<1> HIDE DEF t
<1>3. (prev = NIL <=> m = 1) /\ (next = NIL <=> m = n)
  BY <1>1 DEF At
<1>4. At(t, n - 1, 1) = IF prev = NIL THEN next ELSE head
  BY <1>1, <1>2, <1>3 DEF At, Threads
<1>5. At(t, n - 1, n - 1) = IF next = NIL THEN prev ELSE tail
  BY <1>1, <1>2, <1>3 DEF At, Threads
<1>6. ASSUME NEW k \in 1 .. n - 1
      PROVE  prv2[t[k]] = At(t, n - 1, k - 1) /\ nxt2[t[k]] = At(t, n - 1, k + 1)
  <2>1. CASE k < m
    <3>1. t[k] = s[k] /\ k \in 1 .. n /\ k \in Nat /\ k # m
      BY <1>1, <1>2, <2>1
    <3>2. s[k] \in ResSlots \ {s[m]} /\ s[k] # next
      BY <1>1, <2>1, <3>1 DEF At, IsPath
    <3>3. s[k] = prev <=> k = m - 1
      BY <1>1, <2>1, <3>1 DEF At, IsPath
    <3>4. prv2[s[k]] = At(s, n, k - 1)
      BY <3>1, <3>2 DEF Threads
    <3>5. At(s, n, k - 1) = At(t, n - 1, k - 1)
      BY <1>1, <1>2, <2>1, <3>1 DEF At
    <3>6. CASE k = m - 1
      BY <1>1, <1>2, <3>1, <3>2, <3>3, <3>4, <3>5, <3>6 DEF At
    <3>7. CASE k < m - 1
      <4>1. nxt2[s[k]] = At(s, n, k + 1)
        BY <3>1, <3>2, <3>3, <3>7 DEF Threads
      <4>2. At(s, n, k + 1) = At(t, n - 1, k + 1)
        BY <1>1, <1>2, <3>1, <3>7 DEF At
      <4> QED BY <3>1, <3>4, <3>5, <4>1, <4>2
    <3> QED BY <1>1, <2>1, <3>1, <3>6, <3>7
  <2>2. CASE k >= m
    <3>1. t[k] = s[k + 1] /\ k + 1 \in 1 .. n /\ k \in Nat /\ k + 1 # m
      BY <1>1, <1>2, <2>2
    <3>2. s[k + 1] \in ResSlots \ {s[m]} /\ s[k + 1] # prev
      BY <1>1, <2>2, <3>1 DEF At, IsPath
    <3>3. s[k + 1] = next <=> k = m
      BY <1>1, <2>2, <3>1 DEF At, IsPath
    <3>4. nxt2[s[k + 1]] = At(s, n, (k + 1) + 1)
      BY <3>1, <3>2 DEF Threads
    <3>5. At(s, n, (k + 1) + 1) = At(t, n - 1, k + 1)
      BY <1>1, <1>2, <2>2, <3>1 DEF At
    <3>6. CASE k = m
      BY <1>1, <1>2, <3>1, <3>2, <3>3, <3>4, <3>5, <3>6 DEF At
    <3>7. CASE k > m
      <4>1. prv2[s[k + 1]] = At(s, n, (k + 1) - 1)
        BY <3>1, <3>2, <3>3, <3>7 DEF Threads
      <4>2. At(s, n, (k + 1) - 1) = At(t, n - 1, k - 1)
        BY <1>1, <1>2, <3>1, <3>7 DEF At
      <4> QED BY <3>1, <3>4, <3>5, <4>1, <4>2
    <3> QED BY <1>1, <2>2, <3>1, <3>6, <3>7
  <2> QED BY <1>1, <2>1, <2>2
<1> QED BY <1>4, <1>5, <1>6 DEF Threads, t

\* Whoever agrees along the path leads along it too.
LEMMA SameThreads ==
  ASSUME NEW s, NEW n, NEW prv, NEW nxt, NEW head, NEW tail, Threads(s, n, prv, nxt, head, tail),
         NEW prv2, NEW nxt2, \A j \in Along(s, n) : prv2[j] = prv[j] /\ nxt2[j] = nxt[j]
  PROVE  Threads(s, n, prv2, nxt2, head, tail)
BY DEF Threads, Along

\* A path has as many slots as it is long.
LEMMA PathLength ==
  ASSUME NEW s, NEW n, IsPath(s, n)
  PROVE  /\ IsFiniteSet(Along(s, n)) /\ Cardinality(Along(s, n)) = n
         /\ s \in SetToSeqs(Along(s, n)) /\ Len(s) = n /\ (s = <<>> <=> n = 0)
         /\ n <= Cardinality(ResSlots)
<1>1. n \in Nat /\ s \in [1 .. n -> Along(s, n)]
  BY DEF IsPath, Along
<1>2. s \in Bijection(1 .. n, Along(s, n))
  BY <1>1 DEF IsPath, Along, Bijection, Injection, Surjection, IsInjective
<1>3. IsFiniteSet(1 .. n) /\ Cardinality(1 .. n) = n
  BY <1>1, FS_Interval
<1>4. IsFiniteSet(Along(s, n)) /\ Cardinality(Along(s, n)) = n
  <2>1. ExistsBijection(1 .. n, Along(s, n))
    BY <1>2 DEF ExistsBijection
  <2> QED BY <1>3, <2>1, FS_Bijection
<1>5. s \in SetToSeqs(Along(s, n))
  BY <1>1, <1>4 DEF SetToSeqs, IsPath
<1>6. s \in Seq(Along(s, n)) /\ Len(s) = n
  BY <1>1, FunctionIsSeq
<1>7. s = <<>> <=> n = 0
  BY <1>6
<1>8. Along(s, n) \subseteq ResSlots
  BY DEF IsPath, Along
<1>9. n <= Cardinality(ResSlots)
  BY <1>4, <1>8, FS_Subset, LedgerConstants
<1> QED BY <1>4, <1>5, <1>6, <1>7, <1>9

-----------------------------------------------------------------------------
(* Links                                                                   *)

Ledgers == [accounts : [Accounts -> Account],
            reservations : [ResSlots -> Reservation \cup {Vacant}],
            requests : [RequestSlots -> RequestRecord \cup {Vacant}],
            quotes : [QuoteSlots -> QuoteRecord \cup {Vacant}]]

Taken(L) == {i \in ResSlots : L.reservations[i] # Vacant}
Prev(L) == [i \in ResSlots |-> L.reservations[i].prev]
Next(L) == [i \in ResSlots |-> L.reservations[i].next]
HeadOf(L, a) == L.accounts[a].expiry_head
TailOf(L, a) == L.accounts[a].expiry_tail

SameClaim(c, d) ==
  /\ c.account = d.account /\ c.amount = d.amount /\ c.owner = d.owner
  /\ c.expires_at = d.expires_at /\ c.list = d.list
SameStored(e, f) == e.free = f.free /\ e.reserved = f.reserved /\ e.committed = f.committed

\* M is L with other links, and other ends for the chain of a.
Relinks(L, M, a) ==
  /\ M \in Ledgers /\ M.requests = L.requests /\ M.quotes = L.quotes
  /\ \A b \in Accounts : SameStored(M.accounts[b], L.accounts[b])
                         /\ (b # a => M.accounts[b] = L.accounts[b])
  /\ Taken(M) = Taken(L)
  /\ \A i \in Taken(L) : SameClaim(M.reservations[i], L.reservations[i])

LEMMA LinkDomains ==
  ASSUME NEW L PROVE DOMAIN Prev(L) = ResSlots /\ DOMAIN Next(L) = ResSlots
BY DEF Prev, Next

LEMMA RelinksTwice ==
  ASSUME NEW a, NEW L, NEW M, NEW N, Relinks(L, M, a), Relinks(M, N, a)
  PROVE  Relinks(L, N, a)
BY DEF Relinks, SameClaim, SameStored

LEMMA TakenTyped ==
  ASSUME NEW L \in Ledgers, NEW i \in Taken(L)
  PROVE  i \in ResSlots /\ L.reservations[i] \in Reservation
BY DEF Ledgers, Taken

\* One link of one claim changes.
LEMMA NextSet ==
  ASSUME NEW L \in Ledgers, NEW a \in Accounts, NEW i \in Taken(L), NEW x \in Link
  PROVE  LET M == [L EXCEPT !.reservations[i].next = x]
         IN  /\ Relinks(L, M, a) /\ M.accounts = L.accounts
             /\ Prev(M) = Prev(L) /\ Next(M) = [Next(L) EXCEPT ![i] = x]
<1> DEFINE M == [L EXCEPT !.reservations[i].next = x]
           c == L.reservations[i]
           d == [c EXCEPT !.next = x]
<1>1. c \in Reservation /\ i \in ResSlots
  BY TakenTyped
<1>2. /\ d \in Reservation /\ SameClaim(d, c) /\ d.prev = c.prev /\ d.next = x
  BY <1>1 DEF Reservation, SameClaim
<1>3. /\ M.accounts = L.accounts /\ M.requests = L.requests /\ M.quotes = L.quotes
      /\ M.reservations = [L.reservations EXCEPT ![i] = d]
      /\ M = [accounts |-> L.accounts, reservations |-> [L.reservations EXCEPT ![i] = d],
              requests |-> L.requests, quotes |-> L.quotes]
  BY DEF Ledgers
<1> HIDE DEF M, d
<1>4. L.reservations \in [ResSlots -> Reservation \cup {Vacant}]
  BY DEF Ledgers
<1>5. [L.reservations EXCEPT ![i] = d] \in [ResSlots -> Reservation \cup {Vacant}]
  BY <1>1, <1>2, <1>4
<1>6. M \in Ledgers
  BY <1>3, <1>5 DEF Ledgers
<1>7. \A j \in ResSlots : M.reservations[j] = IF j = i THEN d ELSE L.reservations[j]
  BY <1>3, <1>4
<1>8. d # Vacant
  BY <1>2, LedgerConstants
<1>9. Taken(M) = Taken(L)
  BY <1>7, <1>8 DEF Taken
<1>10. \A j \in Taken(L) : SameClaim(M.reservations[j], L.reservations[j])
  BY <1>2, <1>7 DEF Taken, SameClaim
<1>11. Prev(M) = Prev(L) /\ Next(M) = [Next(L) EXCEPT ![i] = x]
  BY <1>1, <1>2, <1>7 DEF Prev, Next
<1>12. Relinks(L, M, a)
  BY <1>3, <1>6, <1>9, <1>10 DEF Relinks, SameStored
<1> QED BY <1>3, <1>11, <1>12 DEF M

LEMMA PrevSet ==
  ASSUME NEW L \in Ledgers, NEW a \in Accounts, NEW i \in Taken(L), NEW x \in Link
  PROVE  LET M == [L EXCEPT !.reservations[i].prev = x]
         IN  /\ Relinks(L, M, a) /\ M.accounts = L.accounts
             /\ Next(M) = Next(L) /\ Prev(M) = [Prev(L) EXCEPT ![i] = x]
<1> DEFINE M == [L EXCEPT !.reservations[i].prev = x]
           c == L.reservations[i]
           d == [c EXCEPT !.prev = x]
<1>1. c \in Reservation /\ i \in ResSlots
  BY TakenTyped
<1>2. /\ d \in Reservation /\ SameClaim(d, c) /\ d.next = c.next /\ d.prev = x
  BY <1>1 DEF Reservation, SameClaim
<1>3. /\ M.accounts = L.accounts /\ M.requests = L.requests /\ M.quotes = L.quotes
      /\ M.reservations = [L.reservations EXCEPT ![i] = d]
      /\ M = [accounts |-> L.accounts, reservations |-> [L.reservations EXCEPT ![i] = d],
              requests |-> L.requests, quotes |-> L.quotes]
  BY DEF Ledgers
<1> HIDE DEF M, d
<1>4. L.reservations \in [ResSlots -> Reservation \cup {Vacant}]
  BY DEF Ledgers
<1>5. [L.reservations EXCEPT ![i] = d] \in [ResSlots -> Reservation \cup {Vacant}]
  BY <1>1, <1>2, <1>4
<1>6. M \in Ledgers
  BY <1>3, <1>5 DEF Ledgers
<1>7. \A j \in ResSlots : M.reservations[j] = IF j = i THEN d ELSE L.reservations[j]
  BY <1>3, <1>4
<1>8. d # Vacant
  BY <1>2, LedgerConstants
<1>9. Taken(M) = Taken(L)
  BY <1>7, <1>8 DEF Taken
<1>10. \A j \in Taken(L) : SameClaim(M.reservations[j], L.reservations[j])
  BY <1>2, <1>7 DEF Taken, SameClaim
<1>11. Next(M) = Next(L) /\ Prev(M) = [Prev(L) EXCEPT ![i] = x]
  BY <1>1, <1>2, <1>7 DEF Prev, Next
<1>12. Relinks(L, M, a)
  BY <1>3, <1>6, <1>9, <1>10 DEF Relinks, SameStored
<1> QED BY <1>3, <1>11, <1>12 DEF M

\* The ends of the chain of an account change.
LEMMA EndsSet ==
  ASSUME NEW L \in Ledgers, NEW a \in Accounts,
         NEW e \in Account, SameStored(e, L.accounts[a])
  PROVE  LET M == [L EXCEPT !.accounts[a] = e]
         IN  /\ Relinks(L, M, a)
             /\ HeadOf(M, a) = e.expiry_head /\ TailOf(M, a) = e.expiry_tail
             /\ Next(M) = Next(L) /\ Prev(M) = Prev(L)
<1> DEFINE M == [L EXCEPT !.accounts[a] = e]
<1>1. L.accounts \in [Accounts -> Account]
  BY DEF Ledgers
<1>2. /\ M.reservations = L.reservations /\ M.requests = L.requests /\ M.quotes = L.quotes
      /\ M.accounts = [L.accounts EXCEPT ![a] = e]
      /\ M = [accounts |-> [L.accounts EXCEPT ![a] = e], reservations |-> L.reservations,
              requests |-> L.requests, quotes |-> L.quotes]
  BY DEF Ledgers
<1> HIDE DEF M
<1>3. [L.accounts EXCEPT ![a] = e] \in [Accounts -> Account]
  BY <1>1
<1>4. M \in Ledgers
  BY <1>2, <1>3 DEF Ledgers
<1>5. \A b \in Accounts : M.accounts[b] = IF b = a THEN e ELSE L.accounts[b]
  BY <1>1, <1>2
<1>6. Taken(M) = Taken(L) /\ Prev(M) = Prev(L) /\ Next(M) = Next(L)
  BY <1>2 DEF Taken, Prev, Next
<1>7. Relinks(L, M, a)
  BY <1>2, <1>4, <1>5, <1>6 DEF Relinks, SameStored, SameClaim
<1> QED BY <1>5, <1>6, <1>7 DEF M, HeadOf, TailOf

LEMMA LinksTyped ==
  ASSUME NEW L \in Ledgers, NEW a \in Accounts
  PROVE  /\ HeadOf(L, a) \in Link /\ TailOf(L, a) \in Link
         /\ \A i \in Taken(L) : Prev(L)[i] \in Link /\ Next(L)[i] \in Link
<1>1. L.accounts[a] \in Account
  BY DEF Ledgers
<1>2. \A i \in Taken(L) : L.reservations[i] \in Reservation /\ i \in ResSlots
  BY TakenTyped
<1> QED BY <1>1, <1>2 DEF HeadOf, TailOf, Prev, Next, Account, Reservation

LEMMA ForwardPointed ==
  ASSUME NEW L \in Ledgers, NEW a \in Accounts, NEW from \in Taken(L) \cup {NIL}, NEW to \in Link
  PROVE  LET M == PointForward(L, a, from, to)
         IN  /\ Relinks(L, M, a)
             /\ HeadOf(M, a) = IF from = NIL THEN to ELSE HeadOf(L, a)
             /\ TailOf(M, a) = TailOf(L, a)
             /\ Prev(M) = Prev(L)
             /\ Next(M) = IF from = NIL THEN Next(L) ELSE [Next(L) EXCEPT ![from] = to]
<1>1. CASE from = NIL
  <2>1. PICK e : e = [L.accounts[a] EXCEPT !.expiry_head = to]
    OBVIOUS
  <2>2. L.accounts[a] \in Account
    BY DEF Ledgers
  <2>3. /\ e \in Account /\ SameStored(e, L.accounts[a])
        /\ e.expiry_head = to /\ e.expiry_tail = TailOf(L, a)
    BY <2>1, <2>2 DEF Account, SameStored, HeadOf, TailOf
  <2> DEFINE M == [L EXCEPT !.accounts[a] = e]
  <2>4. /\ Relinks(L, M, a) /\ HeadOf(M, a) = e.expiry_head /\ TailOf(M, a) = e.expiry_tail
        /\ Next(M) = Next(L) /\ Prev(M) = Prev(L)
    BY <2>3, EndsSet
  <2>5. PointForward(L, a, from, to) = M
    BY <1>1, <2>1 DEF PointForward
  <2> HIDE DEF M
  <2> QED BY <1>1, <2>3, <2>4, <2>5
<1>2. CASE from # NIL
  <2>1. PointForward(L, a, from, to) = [L EXCEPT !.reservations[from].next = to]
    BY <1>2 DEF PointForward
  <2> DEFINE M == [L EXCEPT !.reservations[from].next = to]
  <2>2. /\ Relinks(L, M, a) /\ M.accounts = L.accounts
        /\ Prev(M) = Prev(L) /\ Next(M) = [Next(L) EXCEPT ![from] = to]
    BY <1>2, NextSet
  <2> HIDE DEF M
  <2> QED BY <1>2, <2>1, <2>2 DEF M, HeadOf, TailOf
<1> QED BY <1>1, <1>2

LEMMA BackPointed ==
  ASSUME NEW L \in Ledgers, NEW a \in Accounts, NEW from \in Taken(L) \cup {NIL}, NEW to \in Link
  PROVE  LET M == PointBack(L, a, from, to)
         IN  /\ Relinks(L, M, a)
             /\ TailOf(M, a) = IF from = NIL THEN to ELSE TailOf(L, a)
             /\ HeadOf(M, a) = HeadOf(L, a)
             /\ Next(M) = Next(L)
             /\ Prev(M) = IF from = NIL THEN Prev(L) ELSE [Prev(L) EXCEPT ![from] = to]
<1>1. CASE from = NIL
  <2>1. PICK e : e = [L.accounts[a] EXCEPT !.expiry_tail = to]
    OBVIOUS
  <2>2. L.accounts[a] \in Account
    BY DEF Ledgers
  <2>3. /\ e \in Account /\ SameStored(e, L.accounts[a])
        /\ e.expiry_head = HeadOf(L, a) /\ e.expiry_tail = to
    BY <2>1, <2>2 DEF Account, SameStored, HeadOf, TailOf
  <2> DEFINE M == [L EXCEPT !.accounts[a] = e]
  <2>4. /\ Relinks(L, M, a) /\ HeadOf(M, a) = e.expiry_head /\ TailOf(M, a) = e.expiry_tail
        /\ Next(M) = Next(L) /\ Prev(M) = Prev(L)
    BY <2>3, EndsSet
  <2>5. PointBack(L, a, from, to) = M
    BY <1>1, <2>1 DEF PointBack
  <2> HIDE DEF M
  <2> QED BY <1>1, <2>3, <2>4, <2>5
<1>2. CASE from # NIL
  <2>1. PointBack(L, a, from, to) = [L EXCEPT !.reservations[from].prev = to]
    BY <1>2 DEF PointBack
  <2> DEFINE M == [L EXCEPT !.reservations[from].prev = to]
  <2>2. /\ Relinks(L, M, a) /\ M.accounts = L.accounts
        /\ Next(M) = Next(L) /\ Prev(M) = [Prev(L) EXCEPT ![from] = to]
    BY <1>2, PrevSet
  <2> HIDE DEF M
  <2> QED BY <1>2, <2>1, <2>2 DEF M, HeadOf, TailOf
<1> QED BY <1>1, <1>2

\* A claim is put between two neighbours, either of which may be an end.
Placed(L, M, a, i, after, next) ==
  /\ Relinks(L, M, a)
  /\ HeadOf(M, a) = IF after = NIL THEN i ELSE HeadOf(L, a)
  /\ TailOf(M, a) = IF next = NIL THEN i ELSE TailOf(L, a)
  /\ Prev(M)[i] = after /\ Next(M)[i] = next
  /\ \A j \in ResSlots \ {i} : /\ Prev(M)[j] = IF j = next THEN i ELSE Prev(L)[j]
                               /\ Next(M)[j] = IF j = after THEN i ELSE Next(L)[j]

LEMMA Spliced ==
  ASSUME NEW L \in Ledgers, NEW a \in Accounts, NEW i \in Taken(L),
         NEW after \in Taken(L) \cup {NIL}, after # i,
         NEW next, next = IF after = NIL THEN HeadOf(L, a) ELSE Next(L)[after],
         next \in Taken(L) \cup {NIL}, next # i
  PROVE  Placed(L, SpliceAfter(L, a, i, after), a, i, after, next)
<1> DEFINE L1 == [L EXCEPT !.reservations[i].prev = after]
           L2 == [L1 EXCEPT !.reservations[i].next = next]
           L3 == PointForward(L2, a, after, i)
           L4 == PointBack(L3, a, next, i)
<1>1. i \in ResSlots /\ i # NIL /\ i \in Link /\ after \in Link /\ next \in Link
      /\ (after # NIL => after \in ResSlots) /\ (next # NIL => next \in ResSlots)
  BY LedgerConstants DEF Taken, Link
<1>2. next = IF after = NIL THEN L.accounts[a].expiry_head ELSE L.reservations[after].next
  BY <1>1 DEF HeadOf, Next
<1>3. SpliceAfter(L, a, i, after) = L4
  BY <1>2 DEF SpliceAfter
<1>4. /\ Relinks(L, L1, a) /\ L1.accounts = L.accounts
      /\ Next(L1) = Next(L) /\ Prev(L1) = [Prev(L) EXCEPT ![i] = after]
  BY <1>1, PrevSet
<1> HIDE DEF L1
<1>5. L1 \in Ledgers /\ i \in Taken(L1)
  BY <1>4 DEF Relinks
<1>6. /\ Relinks(L1, L2, a) /\ L2.accounts = L1.accounts
      /\ Prev(L2) = Prev(L1) /\ Next(L2) = [Next(L1) EXCEPT ![i] = next]
  BY <1>1, <1>5, NextSet
<1> HIDE DEF L2
<1>7. L2 \in Ledgers /\ Taken(L2) = Taken(L)
  BY <1>4, <1>6 DEF Relinks
<1>8. /\ Relinks(L2, L3, a)
      /\ HeadOf(L3, a) = IF after = NIL THEN i ELSE HeadOf(L2, a)
      /\ TailOf(L3, a) = TailOf(L2, a)
      /\ Prev(L3) = Prev(L2)
      /\ Next(L3) = IF after = NIL THEN Next(L2) ELSE [Next(L2) EXCEPT ![after] = i]
  BY <1>1, <1>7, ForwardPointed
<1> HIDE DEF L3
<1>9. L3 \in Ledgers /\ Taken(L3) = Taken(L)
  BY <1>7, <1>8 DEF Relinks
<1>10. /\ Relinks(L3, L4, a)
       /\ TailOf(L4, a) = IF next = NIL THEN i ELSE TailOf(L3, a)
       /\ HeadOf(L4, a) = HeadOf(L3, a)
       /\ Next(L4) = Next(L3)
       /\ Prev(L4) = IF next = NIL THEN Prev(L3) ELSE [Prev(L3) EXCEPT ![next] = i]
  BY <1>1, <1>9, BackPointed
<1> HIDE DEF L4
<1>11. Relinks(L, L4, a)
  BY <1>4, <1>6, <1>8, <1>10, RelinksTwice
<1>12. HeadOf(L2, a) = HeadOf(L, a) /\ TailOf(L2, a) = TailOf(L, a)
  BY <1>4, <1>6 DEF HeadOf, TailOf
<1>13. Prev(L2) = [Prev(L) EXCEPT ![i] = after] /\ Next(L2) = [Next(L) EXCEPT ![i] = next]
  BY <1>4, <1>6
<1>14. /\ Prev(L4)[i] = after
       /\ \A j \in ResSlots \ {i} : Prev(L4)[j] = IF j = next THEN i ELSE Prev(L)[j]
  <2>1. /\ Prev(L2)[i] = after
        /\ \A j \in ResSlots \ {i} : Prev(L2)[j] = Prev(L)[j]
    BY <1>1, <1>13, LinkDomains
  <2>2. CASE next = NIL
    <3>1. Prev(L4) = Prev(L2)
      BY <1>8, <1>10, <2>2
    <3> QED BY <1>1, <2>1, <2>2, <3>1, LedgerConstants
  <2>3. CASE next # NIL
    <3>1. Prev(L4) = [Prev(L2) EXCEPT ![next] = i]
      BY <1>8, <1>10, <2>3
    <3>2. \A j \in ResSlots : Prev(L4)[j] = IF j = next THEN i ELSE Prev(L2)[j]
      BY <1>1, <2>3, <3>1, LinkDomains
    <3> QED BY <1>1, <2>1, <3>2
  <2> QED BY <2>2, <2>3
<1>15. /\ Next(L4)[i] = next
       /\ \A j \in ResSlots \ {i} : Next(L4)[j] = IF j = after THEN i ELSE Next(L)[j]
  <2>1. /\ Next(L2)[i] = next
        /\ \A j \in ResSlots \ {i} : Next(L2)[j] = Next(L)[j]
    BY <1>1, <1>13, LinkDomains
  <2>2. CASE after = NIL
    <3>1. Next(L4) = Next(L2)
      BY <1>8, <1>10, <2>2
    <3> QED BY <1>1, <2>1, <2>2, <3>1, LedgerConstants
  <2>3. CASE after # NIL
    <3>1. Next(L4) = [Next(L2) EXCEPT ![after] = i]
      BY <1>8, <1>10, <2>3
    <3>2. \A j \in ResSlots : Next(L4)[j] = IF j = after THEN i ELSE Next(L2)[j]
      BY <1>1, <2>3, <3>1, LinkDomains
    <3> QED BY <1>1, <2>1, <3>2
  <2> QED BY <2>2, <2>3
<1> QED BY <1>3, <1>8, <1>10, <1>11, <1>12, <1>14, <1>15 DEF Placed

\* A claim is taken from between its neighbours.
Lifted(L, M, a, i, prev, next) ==
  /\ Relinks(L, M, a)
  /\ HeadOf(M, a) = IF prev = NIL THEN next ELSE HeadOf(L, a)
  /\ TailOf(M, a) = IF next = NIL THEN prev ELSE TailOf(L, a)
  /\ \A j \in ResSlots \ {i} : /\ Prev(M)[j] = IF j = next THEN prev ELSE Prev(L)[j]
                               /\ Next(M)[j] = IF j = prev THEN next ELSE Next(L)[j]

LEMMA Unlinked ==
  ASSUME NEW L \in Ledgers, NEW a \in Accounts, NEW i \in Taken(L),
         NEW prev, prev = Prev(L)[i], prev \in Taken(L) \cup {NIL}, prev # i,
         NEW next, next = Next(L)[i], next \in Taken(L) \cup {NIL}, next # i
  PROVE  Lifted(L, UnlinkFromChain(L, a, i), a, i, prev, next)
<1> DEFINE L1 == PointForward(L, a, prev, next)
           L2 == PointBack(L1, a, next, prev)
           L3 == [L2 EXCEPT !.reservations[i].prev = NIL]
           L4 == [L3 EXCEPT !.reservations[i].next = NIL]
<1>1. i \in ResSlots /\ i # NIL /\ i \in Link /\ prev \in Link /\ next \in Link /\ NIL \in Link
      /\ (prev # NIL => prev \in ResSlots) /\ (next # NIL => next \in ResSlots)
  BY LedgerConstants DEF Taken, Link
<1>2. prev = L.reservations[i].prev /\ next = L.reservations[i].next
  BY <1>1 DEF Prev, Next
<1>3. UnlinkFromChain(L, a, i) = L4
  BY <1>2 DEF UnlinkFromChain
<1>4. /\ Relinks(L, L1, a)
      /\ HeadOf(L1, a) = IF prev = NIL THEN next ELSE HeadOf(L, a)
      /\ TailOf(L1, a) = TailOf(L, a)
      /\ Prev(L1) = Prev(L)
      /\ Next(L1) = IF prev = NIL THEN Next(L) ELSE [Next(L) EXCEPT ![prev] = next]
  BY <1>1, ForwardPointed
<1> HIDE DEF L1
<1>5. L1 \in Ledgers /\ Taken(L1) = Taken(L)
  BY <1>4 DEF Relinks
<1>6. /\ Relinks(L1, L2, a)
      /\ TailOf(L2, a) = IF next = NIL THEN prev ELSE TailOf(L1, a)
      /\ HeadOf(L2, a) = HeadOf(L1, a)
      /\ Next(L2) = Next(L1)
      /\ Prev(L2) = IF next = NIL THEN Prev(L1) ELSE [Prev(L1) EXCEPT ![next] = prev]
  BY <1>1, <1>5, BackPointed
<1> HIDE DEF L2
<1>7. L2 \in Ledgers /\ Taken(L2) = Taken(L)
  BY <1>5, <1>6 DEF Relinks
<1>8. /\ Relinks(L2, L3, a) /\ L3.accounts = L2.accounts
      /\ Next(L3) = Next(L2) /\ Prev(L3) = [Prev(L2) EXCEPT ![i] = NIL]
  BY <1>1, <1>7, PrevSet
<1> HIDE DEF L3
<1>9. L3 \in Ledgers /\ Taken(L3) = Taken(L)
  BY <1>7, <1>8 DEF Relinks
<1>10. /\ Relinks(L3, L4, a) /\ L4.accounts = L3.accounts
       /\ Prev(L4) = Prev(L3) /\ Next(L4) = [Next(L3) EXCEPT ![i] = NIL]
  BY <1>1, <1>9, NextSet
<1> HIDE DEF L4
<1>11. Relinks(L, L4, a)
  BY <1>4, <1>6, <1>8, <1>10, RelinksTwice
<1>12. HeadOf(L4, a) = HeadOf(L2, a) /\ TailOf(L4, a) = TailOf(L2, a)
  BY <1>8, <1>10 DEF HeadOf, TailOf
<1>13. \A j \in ResSlots \ {i} : Prev(L4)[j] = IF j = next THEN prev ELSE Prev(L)[j]
  <2>1. \A j \in ResSlots : Prev(L2)[j] = IF j = next THEN prev ELSE Prev(L)[j]
    <3>1. CASE next = NIL
      <4>1. Prev(L2) = Prev(L)
        BY <1>4, <1>6, <3>1
      <4> QED BY <3>1, <4>1, LedgerConstants
    <3>2. CASE next # NIL
      <4>1. Prev(L2) = [Prev(L) EXCEPT ![next] = prev]
        BY <1>4, <1>6, <3>2
      <4> QED BY <1>1, <3>2, <4>1, LinkDomains
    <3> QED BY <3>1, <3>2
  <2>2. \A j \in ResSlots \ {i} : Prev(L3)[j] = Prev(L2)[j]
    BY <1>1, <1>8, LinkDomains
  <2> QED BY <1>10, <2>1, <2>2
<1>14. \A j \in ResSlots \ {i} : Next(L4)[j] = IF j = prev THEN next ELSE Next(L)[j]
  <2>1. \A j \in ResSlots : Next(L2)[j] = IF j = prev THEN next ELSE Next(L)[j]
    <3>1. CASE prev = NIL
      <4>1. Next(L2) = Next(L)
        BY <1>4, <1>6, <3>1
      <4> QED BY <3>1, <4>1, LedgerConstants
    <3>2. CASE prev # NIL
      <4>1. Next(L2) = [Next(L) EXCEPT ![prev] = next]
        BY <1>4, <1>6, <3>2
      <4> QED BY <1>1, <3>2, <4>1, LinkDomains
    <3> QED BY <3>1, <3>2
  <2>2. \A j \in ResSlots \ {i} : Next(L4)[j] = Next(L3)[j]
    BY <1>1, <1>10, LinkDomains
  <2> QED BY <1>8, <2>1, <2>2
<1> QED BY <1>3, <1>4, <1>6, <1>11, <1>12, <1>13, <1>14 DEF Lifted

-----------------------------------------------------------------------------
(* Owners                                                                  *)

OpenIn(L, o) == IF o \in QuoteSlots THEN L.quotes[o] # Vacant ELSE L.requests[o] # Vacant
ClaimIn(L, o) == IF o \in QuoteSlots THEN L.quotes[o].claim ELSE L.requests[o].claim
ListHead(L, r) == L.requests[r].committed_head
SameOwners(L, M, S) ==
  /\ \A o \in Owners : OpenIn(M, o) <=> OpenIn(L, o)
  /\ \A o \in S : OpenIn(L, o) => ClaimIn(M, o) = ClaimIn(L, o)
SameRequests(L, M) ==
  /\ \A q \in QuoteSlots : L.quotes[q] # Vacant => M.quotes[q].request = L.quotes[q].request
  /\ \A r \in RequestSlots : L.requests[r] # Vacant => ListHead(M, r) = ListHead(L, r)

\* An owner is told of its claim, and nothing else changes.
LEMMA OwnerTold ==
  ASSUME NEW L \in Ledgers, NEW o \in Owners, OpenIn(L, o), NEW x \in Link
  PROVE  LET M == SetOwnerClaim(L, o, x)
         IN  /\ M \in Ledgers
             /\ M.accounts = L.accounts /\ M.reservations = L.reservations
             /\ SameOwners(L, M, Owners \ {o}) /\ ClaimIn(M, o) = x
             /\ SameRequests(L, M)
<1>1. CASE o \in QuoteSlots
  <2> DEFINE M == [L EXCEPT !.quotes[o].claim = x]
             d == [L.quotes[o] EXCEPT !.claim = x]
  <2>1. L.quotes \in [QuoteSlots -> QuoteRecord \cup {Vacant}] /\ L.quotes[o] \in QuoteRecord
        /\ o \notin RequestSlots
    BY <1>1, LedgerConstants DEF Ledgers, OpenIn
  <2>2. d \in QuoteRecord /\ d.claim = x /\ d.request = L.quotes[o].request
    BY <2>1 DEF QuoteRecord
  <2>3. d # Vacant
    BY <2>2, LedgerConstants
  <2>4. /\ M.accounts = L.accounts /\ M.reservations = L.reservations /\ M.requests = L.requests
        /\ M.quotes = [L.quotes EXCEPT ![o] = d]
        /\ M = [accounts |-> L.accounts, reservations |-> L.reservations,
                requests |-> L.requests, quotes |-> [L.quotes EXCEPT ![o] = d]]
    BY DEF Ledgers
  <2>5. SetOwnerClaim(L, o, x) = M
    BY <1>1 DEF SetOwnerClaim
  <2> HIDE DEF M, d
  <2>6. [L.quotes EXCEPT ![o] = d] \in [QuoteSlots -> QuoteRecord \cup {Vacant}]
    BY <2>1, <2>2
  <2>7. M \in Ledgers
    BY <2>4, <2>6 DEF Ledgers
  <2>8. \A q \in QuoteSlots : M.quotes[q] = IF q = o THEN d ELSE L.quotes[q]
    BY <2>1, <2>4
  <2>9. SameOwners(L, M, Owners \ {o}) /\ ClaimIn(M, o) = x
    BY <1>1, <2>1, <2>2, <2>3, <2>4, <2>8 DEF SameOwners, OpenIn, ClaimIn
  <2>10. SameRequests(L, M)
    BY <2>2, <2>4, <2>8 DEF SameRequests, ListHead
  <2> QED BY <2>4, <2>5, <2>7, <2>9, <2>10
<1>2. CASE o \notin QuoteSlots
  <2> DEFINE M == [L EXCEPT !.requests[o].claim = x]
             d == [L.requests[o] EXCEPT !.claim = x]
  <2>1. L.requests \in [RequestSlots -> RequestRecord \cup {Vacant}]
        /\ o \in RequestSlots /\ L.requests[o] \in RequestRecord
    BY <1>2 DEF Ledgers, OpenIn, Owners
  <2>2. d \in RequestRecord /\ d.claim = x /\ d.committed_head = L.requests[o].committed_head
    BY <2>1 DEF RequestRecord
  <2>3. d # Vacant
    BY <2>2, LedgerConstants
  <2>4. /\ M.accounts = L.accounts /\ M.reservations = L.reservations /\ M.quotes = L.quotes
        /\ M.requests = [L.requests EXCEPT ![o] = d]
        /\ M = [accounts |-> L.accounts, reservations |-> L.reservations,
                requests |-> [L.requests EXCEPT ![o] = d], quotes |-> L.quotes]
    BY DEF Ledgers
  <2>5. SetOwnerClaim(L, o, x) = M
    BY <1>2 DEF SetOwnerClaim
  <2> HIDE DEF M, d
  <2>6. [L.requests EXCEPT ![o] = d] \in [RequestSlots -> RequestRecord \cup {Vacant}]
    BY <2>1, <2>2
  <2>7. M \in Ledgers
    BY <2>4, <2>6 DEF Ledgers
  <2>8. \A q \in RequestSlots : M.requests[q] = IF q = o THEN d ELSE L.requests[q]
    BY <2>1, <2>4
  <2>9. SameOwners(L, M, Owners \ {o}) /\ ClaimIn(M, o) = x
    BY <1>2, <2>1, <2>2, <2>3, <2>4, <2>8 DEF SameOwners, OpenIn, ClaimIn, Owners
  <2>10. SameRequests(L, M)
    BY <2>2, <2>4, <2>8 DEF SameRequests, ListHead
  <2> QED BY <2>4, <2>5, <2>7, <2>9, <2>10
<1> QED BY <1>1, <1>2

-----------------------------------------------------------------------------
(* What the links must say                                                 *)

Chained(L, a) ==
  {i \in Taken(L) : L.reservations[i].list = Vacant /\ L.reservations[i].account = a}
Listed(L, r) == {i \in Taken(L) : L.reservations[i].list = r}
HeldBy(L, a) ==
  {i \in Taken(L) : L.reservations[i].list # Vacant /\ L.reservations[i].account = a}

InOrder(L, s, n) ==
  \A j, k \in 1 .. n : j < k =>
    L.reservations[s[j]].expires_at <= L.reservations[s[k]].expires_at

\* The chain of an account, and the list of a request, link exactly the slots of C.
ChainLinks(L, a, C) ==
  \E n, s : /\ IsPath(s, n) /\ Along(s, n) = C
            /\ Threads(s, n, Prev(L), Next(L), HeadOf(L, a), TailOf(L, a))
            /\ InOrder(L, s, n)
ListLinks(L, r, C) ==
  \E n, s : /\ IsPath(s, n) /\ Along(s, n) = C
            /\ Threads(s, n, Prev(L), Next(L), ListHead(L, r), At(s, n, n))

\* A reserved claim expires, a committed one is on a list.
StatesIn(L) ==
  \A i \in Taken(L) : L.reservations[i].list = Vacant <=> L.reservations[i].expires_at # Vacant

\* All claims but those of `off` are linked where they belong.
ChainsIn(L, off) == \A a \in Accounts : ChainLinks(L, a, Chained(L, a) \ off)
ListsIn(L, off) ==
  \A r \in RequestSlots : L.requests[r] # Vacant => ListLinks(L, r, Listed(L, r) \ off)
LinksIn(L, off) == L \in Ledgers /\ StatesIn(L) /\ ChainsIn(L, off) /\ ListsIn(L, off)

LEMMA ChainFrame ==
  ASSUME NEW L, NEW M, NEW a, NEW C, ChainLinks(L, a, C),
         HeadOf(M, a) = HeadOf(L, a), TailOf(M, a) = TailOf(L, a),
         \A i \in C : /\ Prev(M)[i] = Prev(L)[i] /\ Next(M)[i] = Next(L)[i]
                      /\ M.reservations[i].expires_at = L.reservations[i].expires_at
  PROVE  ChainLinks(M, a, C)
<1>1. PICK n, s : /\ IsPath(s, n) /\ Along(s, n) = C
                  /\ Threads(s, n, Prev(L), Next(L), HeadOf(L, a), TailOf(L, a))
                  /\ InOrder(L, s, n)
  BY DEF ChainLinks
<1>2. Threads(s, n, Prev(M), Next(M), HeadOf(M, a), TailOf(M, a))
  BY <1>1, SameThreads
<1>3. InOrder(M, s, n)
  BY <1>1 DEF InOrder, Along
<1> QED BY <1>1, <1>2, <1>3 DEF ChainLinks

LEMMA ListFrame ==
  ASSUME NEW L, NEW M, NEW r, NEW C, ListLinks(L, r, C), ListHead(M, r) = ListHead(L, r),
         \A i \in C : Prev(M)[i] = Prev(L)[i] /\ Next(M)[i] = Next(L)[i]
  PROVE  ListLinks(M, r, C)
<1>1. PICK n, s : /\ IsPath(s, n) /\ Along(s, n) = C
                  /\ Threads(s, n, Prev(L), Next(L), ListHead(L, r), At(s, n, n))
  BY DEF ListLinks
<1>2. Threads(s, n, Prev(M), Next(M), ListHead(M, r), At(s, n, n))
  BY <1>1, SameThreads
<1> QED BY <1>1, <1>2 DEF ListLinks

\* What relinking one chain leaves as it was.
LEMMA RelinksKeeps ==
  ASSUME NEW L \in Ledgers, NEW M, NEW a \in Accounts, Relinks(L, M, a), StatesIn(L)
  PROVE  /\ M \in Ledgers /\ Taken(M) = Taken(L) /\ StatesIn(M)
         /\ \A b \in Accounts : Chained(M, b) = Chained(L, b) /\ HeldBy(M, b) = HeldBy(L, b)
         /\ \A r : Listed(M, r) = Listed(L, r)
         /\ \A b \in Accounts \ {a} : HeadOf(M, b) = HeadOf(L, b) /\ TailOf(M, b) = TailOf(L, b)
         /\ \A r \in RequestSlots : M.requests[r] = L.requests[r] /\ ListHead(M, r) = ListHead(L, r)
<1>1. Taken(M) = Taken(L) /\ \A i \in Taken(L) : SameClaim(M.reservations[i], L.reservations[i])
  BY DEF Relinks
<1>2. \A b \in Accounts : Chained(M, b) = Chained(L, b) /\ HeldBy(M, b) = HeldBy(L, b)
  BY <1>1 DEF Chained, HeldBy, SameClaim
<1>3. \A r : Listed(M, r) = Listed(L, r)
  BY <1>1 DEF Listed, SameClaim
<1>4. StatesIn(M)
  BY <1>1 DEF StatesIn, SameClaim
<1> QED BY <1>1, <1>2, <1>3, <1>4 DEF Relinks, HeadOf, TailOf, ListHead

\* Chains and lists share no claim.
LEMMA Apart ==
  ASSUME NEW L \in Ledgers, NEW a \in Accounts
  PROVE  /\ \A b \in Accounts : b # a => Chained(L, a) \cap Chained(L, b) = {}
         /\ \A r \in RequestSlots : Chained(L, a) \cap Listed(L, r) = {}
BY LedgerConstants DEF Chained, Listed

\* Relinking within one chain leaves all other chains and all lists linked.
LEMMA OthersLinked ==
  ASSUME NEW L, NEW M, NEW a \in Accounts, NEW off, NEW off2, LinksIn(L, off),
         Relinks(L, M, a), off \subseteq Chained(L, a), off2 \subseteq Chained(L, a),
         \A j \in Taken(L) \ Chained(L, a) : Prev(M)[j] = Prev(L)[j] /\ Next(M)[j] = Next(L)[j],
         ChainLinks(M, a, Chained(M, a) \ off2)
  PROVE  LinksIn(M, off2)
<1>1. L \in Ledgers /\ StatesIn(L)
  BY DEF LinksIn
<1>2. /\ M \in Ledgers /\ Taken(M) = Taken(L) /\ StatesIn(M)
      /\ \A b \in Accounts : Chained(M, b) = Chained(L, b)
      /\ \A r : Listed(M, r) = Listed(L, r)
      /\ \A b \in Accounts \ {a} : HeadOf(M, b) = HeadOf(L, b) /\ TailOf(M, b) = TailOf(L, b)
      /\ \A r \in RequestSlots : M.requests[r] = L.requests[r] /\ ListHead(M, r) = ListHead(L, r)
  BY <1>1, RelinksKeeps
<1>3. \A i \in Taken(L) : M.reservations[i].expires_at = L.reservations[i].expires_at
  BY DEF Relinks, SameClaim
<1>4. ASSUME NEW b \in Accounts, b # a PROVE ChainLinks(M, b, Chained(M, b) \ off2)
  <2>1. Chained(L, a) \cap Chained(L, b) = {}
    BY <1>1, <1>4, Apart
  <2>2. Chained(L, b) \ off = Chained(L, b) /\ Chained(M, b) \ off2 = Chained(L, b)
    BY <1>2, <2>1
  <2>3. ChainLinks(L, b, Chained(L, b))
    BY <2>2 DEF LinksIn, ChainsIn
  <2>4. \A j \in Chained(L, b) : j \in Taken(L) \ Chained(L, a)
    BY <2>1 DEF Chained
  <2>5. \A j \in Chained(L, b) : /\ Prev(M)[j] = Prev(L)[j] /\ Next(M)[j] = Next(L)[j]
                                 /\ M.reservations[j].expires_at = L.reservations[j].expires_at
    BY <1>3, <2>4
  <2>6. HeadOf(M, b) = HeadOf(L, b) /\ TailOf(M, b) = TailOf(L, b)
    BY <1>2, <1>4
  <2> QED BY <2>2, <2>3, <2>5, <2>6, ChainFrame
<1>5. ASSUME NEW r \in RequestSlots, M.requests[r] # Vacant
      PROVE  ListLinks(M, r, Listed(M, r) \ off2)
  <2>1. Chained(L, a) \cap Listed(L, r) = {}
    BY <1>1, Apart
  <2>2. Listed(L, r) \ off = Listed(L, r) /\ Listed(M, r) \ off2 = Listed(L, r)
    BY <1>2, <2>1
  <2>3. ListLinks(L, r, Listed(L, r))
    BY <1>2, <1>5, <2>2 DEF LinksIn, ListsIn
  <2>4. \A j \in Listed(L, r) : j \in Taken(L) \ Chained(L, a)
    BY <2>1 DEF Listed
  <2> QED BY <1>2, <2>2, <2>3, <2>4, ListFrame
<1>6. ChainsIn(M, off2)
  BY <1>4 DEF ChainsIn
<1>7. ListsIn(M, off2)
  BY <1>5 DEF ListsIn
<1> QED BY <1>2, <1>6, <1>7 DEF LinksIn

\* Taking a claim from its chain.
LEMMA UnlinkLinks ==
  ASSUME NEW L, LinksIn(L, {}), NEW a \in Accounts, NEW i \in Chained(L, a)
  PROVE  LET M == UnlinkFromChain(L, a, i) IN Relinks(L, M, a) /\ LinksIn(M, {i})
<1> DEFINE M == UnlinkFromChain(L, a, i)
           C == Chained(L, a)
<1>1. L \in Ledgers /\ StatesIn(L) /\ C \subseteq Taken(L) /\ C \ {} = C
  BY DEF LinksIn, Chained
<1>2. PICK n, s : /\ IsPath(s, n) /\ Along(s, n) = C
                  /\ Threads(s, n, Prev(L), Next(L), HeadOf(L, a), TailOf(L, a))
                  /\ InOrder(L, s, n)
  BY <1>1 DEF LinksIn, ChainsIn, ChainLinks
<1>3. PICK m \in 1 .. n : s[m] = i
  BY <1>2 DEF Along
<1> DEFINE prev == At(s, n, m - 1)
           next == At(s, n, m + 1)
<1>4. prev = Prev(L)[i] /\ next = Next(L)[i]
  BY <1>2, <1>3 DEF Threads
<1>5. \A k : At(s, n, k) \in C \cup {NIL}
  BY <1>2 DEF At, Along
<1>6. i # NIL
  BY <1>1, LedgerConstants DEF Taken
<1>7. prev # i /\ next # i
  <2>1. n \in Nat /\ m \in Nat
    BY <1>2, <1>3 DEF IsPath
  <2>2. \A k \in 1 .. n : s[k] = i => k = m
    BY <1>2, <1>3 DEF IsPath
  <2> QED BY <1>6, <2>1, <2>2 DEF At
<1>8. Lifted(L, M, a, i, prev, next)
  BY <1>1, <1>4, <1>5, <1>7, Unlinked
<1> HIDE DEF M, prev, next
<1>9. /\ IsPath(Removed(s, n, m), n - 1)
      /\ Along(Removed(s, n, m), n - 1) = C \ {i}
  BY <1>2, <1>3, RemovedPath
<1>10. /\ \A j \in ResSlots \ {s[m]} :
            /\ Prev(M)[j] = IF j = next THEN prev ELSE Prev(L)[j]
            /\ Next(M)[j] = IF j = prev THEN next ELSE Next(L)[j]
       /\ HeadOf(M, a) = IF prev = NIL THEN next ELSE HeadOf(L, a)
       /\ TailOf(M, a) = IF next = NIL THEN prev ELSE TailOf(L, a)
  BY <1>3, <1>8 DEF Lifted
<1>11. Threads(Removed(s, n, m), n - 1, Prev(M), Next(M), HeadOf(M, a), TailOf(M, a))
  <2>1. prev = At(s, n, m - 1) /\ next = At(s, n, m + 1)
    BY DEF prev, next
  <2>2. Threads(Removed(s, n, m), n - 1, Prev(M), Next(M),
                 IF prev = NIL THEN next ELSE HeadOf(L, a), IF next = NIL THEN prev ELSE TailOf(L, a))
    BY <1>2, <1>10, <2>1, RemovedThreads
  <2> QED BY <1>10, <2>2
<1>12. Relinks(L, M, a)
  BY <1>8 DEF Lifted
<1>13. InOrder(M, Removed(s, n, m), n - 1)
  <2>1. n \in Nat /\ m \in Nat
    BY <1>2, <1>3 DEF IsPath
  <2>2. \A k \in 1 .. n : s[k] \in Taken(L)
    BY <1>1, <1>2 DEF Along
  <2>3. \A k \in 1 .. n : M.reservations[s[k]].expires_at = L.reservations[s[k]].expires_at
    BY <1>12, <2>2 DEF Relinks, SameClaim
  <2>4. \A k \in 1 .. n - 1 : LET u == IF k < m THEN k ELSE k + 1
                              IN  u \in 1 .. n /\ Removed(s, n, m)[k] = s[u]
    BY <2>1 DEF Removed
  <2>5. ASSUME NEW j \in 1 .. n - 1, NEW k \in 1 .. n - 1, j < k
        PROVE  M.reservations[Removed(s, n, m)[j]].expires_at
                 <= M.reservations[Removed(s, n, m)[k]].expires_at
    <3> DEFINE u == IF j < m THEN j ELSE j + 1
               v == IF k < m THEN k ELSE k + 1
    <3>1. /\ u \in 1 .. n /\ Removed(s, n, m)[j] = s[u]
          /\ v \in 1 .. n /\ Removed(s, n, m)[k] = s[v]
      BY <2>4
    <3>2. u < v
      BY <2>1, <2>5
    <3> HIDE DEF u, v
    <3>3. L.reservations[s[u]].expires_at <= L.reservations[s[v]].expires_at
      BY <1>2, <3>1, <3>2 DEF InOrder
    <3> QED BY <2>3, <3>1, <3>3
  <2> QED BY <2>5 DEF InOrder
<1>14. /\ Chained(M, a) = C
  BY <1>1, <1>12, RelinksKeeps
<1>15. ChainLinks(M, a, Chained(M, a) \ {i})
  BY <1>9, <1>11, <1>13, <1>14 DEF ChainLinks
<1>16. \A j \in Taken(L) \ C : Prev(M)[j] = Prev(L)[j] /\ Next(M)[j] = Next(L)[j]
  <2>1. ASSUME NEW j \in Taken(L) \ C PROVE j \in ResSlots \ {s[m]} /\ j # prev /\ j # next
    BY <1>3, <1>5, <2>1, LedgerConstants DEF Taken, prev, next
  <2> QED BY <1>10, <2>1
<1>17. LinksIn(M, {i})
  BY <1>12, <1>15, <1>16, OthersLinked
<1> QED BY <1>12, <1>17 DEF M

-----------------------------------------------------------------------------
(* Finding a claim's place                                                 *)

\* The walk from the tail ends at the last claim that does not expire later, if any.
LEMMA WalkFinds ==
  ASSUME NEW L, NEW a, NEW t \in Nat, NEW n, NEW s, IsPath(s, n),
         Threads(s, n, Prev(L), Next(L), HeadOf(L, a), TailOf(L, a)), InOrder(L, s, n),
         \A k \in 1 .. n : L.reservations[s[k]].expires_at \in Nat
  PROVE  \E m \in 0 .. n :
           /\ InsertAfter(L, a, t) = At(s, n, m)
           /\ \A k \in 1 .. n : k <= m <=> L.reservations[s[k]].expires_at <= t
<1> DEFINE N == Cardinality(ResSlots)
           X == Along(s, n) \cup {NIL}
           Back(x) == IF x = NIL THEN NIL
                      ELSE IF L.reservations[x].expires_at <= t THEN x ELSE L.reservations[x].prev
           G == [y \in (1 .. N) \X X |-> Back(y[2])]
           Solves(w) == w = [k \in 0 .. N |->
                               IF k = 0 THEN L.accounts[a].expiry_tail
                               ELSE LET c == w[k - 1]
                                    IN  IF c = NIL THEN NIL
                                        ELSE IF L.reservations[c].expires_at <= t THEN c
                                        ELSE L.reservations[c].prev]
<1>1. N \in Nat /\ n \in Nat /\ n <= N
  BY PathLength, FS_CardinalityType, LedgerConstants DEF IsPath
<1>2. \A k : At(s, n, k) \in X
  BY DEF At, Along
<1>3. \A k \in 1 .. n : s[k] \in ResSlots /\ s[k] # NIL
                         /\ L.reservations[s[k]].prev = At(s, n, k - 1)
  <2> TAKE k \in 1 .. n
  <2>1. s[k] \in ResSlots
    BY DEF IsPath
  <2>2. Prev(L)[s[k]] = At(s, n, k - 1)
    BY DEF Threads
  <2> QED BY <2>1, <2>2, LedgerConstants DEF Prev
<1>4. L.accounts[a].expiry_tail = At(s, n, n)
  BY DEF Threads, TailOf
<1>5. \A x \in X : Back(x) \in X
  BY <1>2, <1>3 DEF Along
<1>6. G \in [(1 .. N) \X X -> X]
  BY <1>5
<1>7. \A k \in 1 .. N : \A x \in X : G[<<k, x>>] = Back(x)
  OBVIOUS
<1> HIDE DEF X, G
<1>8. \E w : Solves(w)
  <2>1. PICK w \in [0 .. N -> X] : Iterates(w, N, At(s, n, n), G)
    BY <1>1, <1>2, <1>6, IterationExists
  <2>2. \A k \in 0 .. N : w[k] = IF k = 0 THEN L.accounts[a].expiry_tail ELSE Back(w[k - 1])
    <3> TAKE k \in 0 .. N
    <3>1. CASE k = 0
      BY <1>4, <2>1, <3>1 DEF Iterates
    <3>2. CASE k # 0
      <4>1. k \in 1 .. N /\ w[k - 1] \in X
        BY <1>1, <3>2
      <4>2. w[k] = G[<<k, w[k - 1]>>]
        BY <2>1, <4>1 DEF Iterates
      <4>3. w[k] = Back(w[k - 1])
        BY <1>7, <4>1, <4>2
      <4> QED BY <3>2, <4>3
    <3> QED BY <3>1, <3>2
  <2> QED BY <2>2
<1>9. PICK w : InsertAfter(L, a, t) = w[N] /\ Solves(w)
  <2>1. InsertAfter(L, a, t) = (CHOOSE w : Solves(w))[N]
    BY DEF InsertAfter
  <2> HIDE DEF Solves
  <2> QED BY <1>8, <2>1
<1>10. w[0] = At(s, n, n) /\ \A k \in 1 .. N : w[k] = Back(w[k - 1])
  <2>1. w = [k \in 0 .. N |->
               IF k = 0 THEN L.accounts[a].expiry_tail
               ELSE LET c == w[k - 1]
                    IN  IF c = NIL THEN NIL
                        ELSE IF L.reservations[c].expires_at <= t THEN c
                        ELSE L.reservations[c].prev]
    BY <1>9
  <2>2. 0 \in 0 .. N /\ \A k \in 1 .. N : k \in 0 .. N /\ k # 0
    BY <1>1
  <2>3. \A k \in 0 .. N : w[k] = IF k = 0 THEN L.accounts[a].expiry_tail ELSE Back(w[k - 1])
    BY <2>1
  <2> QED BY <1>4, <2>2, <2>3
<1> HIDE DEF Solves, N
<1> DEFINE Dead(k) == L.reservations[s[k]].expires_at <= t
           Stops(j, u) ==
             /\ w[u] = At(s, n, j)
             /\ \A k \in 1 .. n : j < k => ~Dead(k)
             /\ j = n - u \/ j = 0 \/ Dead(j)
           P == {u \in Nat : u <= N => \E j \in 0 .. n : Stops(j, u)}
<1>11. 0 \in P
  <2>1. Stops(n, 0) /\ n \in 0 .. n
    BY <1>1, <1>10
  <2> QED BY <2>1
<1>12. ASSUME NEW u \in Nat, u \in P PROVE u + 1 \in P
  <2> SUFFICES ASSUME u + 1 <= N PROVE \E j \in 0 .. n : Stops(j, u + 1)
    OBVIOUS
  <2>1. u + 1 \in 1 .. N /\ (u + 1) - 1 = u /\ u <= N
    BY <1>1
  <2>2. PICK j \in 0 .. n : Stops(j, u)
    BY <1>12, <2>1
  <2>3. w[u + 1] = Back(At(s, n, j))
    BY <1>10, <2>1, <2>2
  <2>4. CASE j = 0
    <3>1. At(s, n, j) = NIL
      BY <2>4 DEF At
    <3>2. Stops(0, u + 1)
      BY <2>2, <2>3, <2>4, <3>1
    <3> QED BY <1>1, <3>2
  <2>5. CASE j # 0 /\ Dead(j)
    <3>1. At(s, n, j) = s[j] /\ s[j] # NIL
      BY <1>1, <1>3, <2>5 DEF At
    <3>2. w[u + 1] = At(s, n, j)
      BY <2>3, <2>5, <3>1
    <3>3. Stops(j, u + 1)
      BY <2>2, <2>5, <3>2
    <3> QED BY <3>3
  <2>6. CASE j # 0 /\ ~Dead(j)
    <3>1. j \in 1 .. n /\ j - 1 \in 0 .. n /\ j \in Nat
      BY <1>1, <2>6
    <3>2. At(s, n, j) = s[j] /\ s[j] # NIL /\ L.reservations[s[j]].prev = At(s, n, j - 1)
      BY <1>3, <3>1 DEF At
    <3>3. w[u + 1] = At(s, n, j - 1)
      BY <2>3, <2>6, <3>2
    <3>4. ASSUME NEW k \in 1 .. n, j - 1 < k PROVE ~Dead(k)
      <4>1. k = j \/ j < k
        BY <3>1, <3>4
      <4> QED BY <2>2, <2>6, <4>1
    <3>5. j - 1 = n - (u + 1)
      BY <1>1, <2>2, <2>6, <3>1
    <3>6. Stops(j - 1, u + 1)
      BY <3>3, <3>4, <3>5
    <3> QED BY <3>1, <3>6
  <2> QED BY <2>4, <2>5, <2>6
<1>13. N \in P
  <2> HIDE DEF P
  <2> QED BY <1>1, <1>11, <1>12, NaturalInduction
<1>14. PICK m \in 0 .. n : Stops(m, N)
  BY <1>1, <1>13
<1>15. m = 0 \/ Dead(m)
  BY <1>1, <1>14
<1>16. ASSUME NEW k \in 1 .. n PROVE k <= m <=> Dead(k)
  <2>1. CASE m < k
    BY <1>1, <1>14, <2>1
  <2>2. CASE k <= m
    <3>1. m \in 1 .. n /\ Dead(m) /\ m \in Nat /\ k \in Nat
      BY <1>1, <1>15, <2>2
    <3>2. k = m \/ L.reservations[s[k]].expires_at <= L.reservations[s[m]].expires_at
      BY <2>2, <3>1 DEF InOrder
    <3>3. L.reservations[s[k]].expires_at \in Nat /\ L.reservations[s[m]].expires_at \in Nat
      BY <3>1
    <3> QED BY <2>2, <3>1, <3>2, <3>3
  <2> QED BY <1>1, <2>1, <2>2
<1> QED BY <1>9, <1>14, <1>16

\* Putting a claim where the walk ends.
LEMMA SpliceLinks ==
  ASSUME NEW L, NEW a \in Accounts, NEW i \in Chained(L, a), LinksIn(L, {i}),
         NEW t, t = L.reservations[i].expires_at
  PROVE  LET M == SpliceAfter(L, a, i, InsertAfter(L, a, t))
         IN  Relinks(L, M, a) /\ LinksIn(M, {})
<1> DEFINE after == InsertAfter(L, a, t)
           M == SpliceAfter(L, a, i, after)
           C == Chained(L, a)
           Due(j) == L.reservations[j].expires_at
<1>1. L \in Ledgers /\ StatesIn(L) /\ C \subseteq Taken(L) /\ i \in ResSlots /\ i # NIL
  BY LedgerConstants DEF LinksIn, Chained, Taken
<1>2. \A j \in C : Due(j) \in Nat
  <2> TAKE j \in C
  <2>1. L.reservations[j] \in Reservation /\ L.reservations[j].list = Vacant
    BY <1>1, TakenTyped DEF Chained
  <2>2. Due(j) \in Times \cup {Vacant} /\ Due(j) # Vacant
    BY <1>1, <2>1 DEF StatesIn, Reservation
  <2> QED BY <2>2, LedgerConstants
<1>3. PICK n, s : /\ IsPath(s, n) /\ Along(s, n) = C \ {i}
                  /\ Threads(s, n, Prev(L), Next(L), HeadOf(L, a), TailOf(L, a))
                  /\ InOrder(L, s, n)
  BY DEF LinksIn, ChainsIn, ChainLinks
<1>4. \A k \in 1 .. n : s[k] \in C \ {i} /\ Due(s[k]) \in Nat
  BY <1>2, <1>3 DEF Along
<1>5. PICK m \in 0 .. n : /\ after = At(s, n, m)
                          /\ \A k \in 1 .. n : k <= m <=> Due(s[k]) <= t
  BY <1>2, <1>3, <1>4, WalkFinds
<1> HIDE DEF after
<1> DEFINE next == At(s, n, m + 1)
<1>6. n \in Nat /\ m \in Nat /\ m <= n
  BY <1>3, <1>5 DEF IsPath
<1>7. next = IF after = NIL THEN HeadOf(L, a) ELSE Next(L)[after]
  <2>1. CASE m = 0
    BY <1>3, <1>5, <2>1 DEF At, Threads
  <2>2. CASE m # 0
    <3>1. m \in 1 .. n /\ after = s[m]
      BY <1>5, <1>6, <2>2 DEF At
    <3>2. after # NIL
      BY <1>3, <3>1, LedgerConstants DEF IsPath
    <3> QED BY <1>3, <3>1, <3>2 DEF Threads
  <2> QED BY <2>1, <2>2
<1>8. \A k : At(s, n, k) \in (C \ {i}) \cup {NIL}
  BY <1>4 DEF At
<1>9. /\ after \in Taken(L) \cup {NIL} /\ after # i
      /\ next \in Taken(L) \cup {NIL} /\ next # i
      /\ after \in C \cup {NIL} /\ next \in C \cup {NIL}
  BY <1>1, <1>5, <1>8
<1>10. next = At(s, n, m + 1)
  OBVIOUS
<1> HIDE DEF next
<1>11. Placed(L, M, a, i, after, next)
  BY <1>1, <1>7, <1>9, Spliced
<1> HIDE DEF M
<1>12. Relinks(L, M, a)
  BY <1>11 DEF Placed
<1> DEFINE u == Inserted(s, n, m, i)
<1>13. i \notin Along(s, n)
  BY <1>3
<1>14. IsPath(u, n + 1) /\ Along(u, n + 1) = C
  <2>1. IsPath(u, n + 1) /\ Along(u, n + 1) = Along(s, n) \cup {i}
    BY <1>1, <1>3, <1>13, InsertedPath
  <2> QED BY <1>3, <2>1
<1>15. /\ Prev(M)[i] = after /\ Next(M)[i] = next
       /\ \A j \in ResSlots \ {i} :
            /\ Prev(M)[j] = IF j = next THEN i ELSE Prev(L)[j]
            /\ Next(M)[j] = IF j = after THEN i ELSE Next(L)[j]
       /\ HeadOf(M, a) = IF after = NIL THEN i ELSE HeadOf(L, a)
       /\ TailOf(M, a) = IF next = NIL THEN i ELSE TailOf(L, a)
  BY <1>11 DEF Placed
<1>16. Threads(u, n + 1, Prev(M), Next(M), HeadOf(M, a), TailOf(M, a))
  <2>1. Threads(u, n + 1, Prev(M), Next(M),
                IF after = NIL THEN i ELSE HeadOf(L, a), IF next = NIL THEN i ELSE TailOf(L, a))
    BY <1>1, <1>3, <1>5, <1>10, <1>13, <1>15, InsertedThreads
  <2> QED BY <1>15, <2>1
<1>17. InOrder(M, u, n + 1)
  <2>1. \A k \in 1 .. n + 1 : u[k] = IF k <= m THEN s[k] ELSE IF k = m + 1 THEN i ELSE s[k - 1]
    BY <1>6 DEF Inserted
  <2> HIDE DEF u
  <2>2. \A j \in C : M.reservations[j].expires_at = Due(j)
    BY <1>1, <1>12 DEF Relinks, SameClaim
  <2>3. t \in Nat /\ Due(i) = t
    BY <1>2
  <2>4. \A j, k \in 1 .. n : j < k => Due(s[j]) <= Due(s[k])
    BY <1>3 DEF InOrder
  <2> HIDE DEF Due
  <2>5. ASSUME NEW j \in 1 .. n + 1, NEW k \in 1 .. n + 1, j < k PROVE Due(u[j]) <= Due(u[k])
    <3>1. CASE k <= m
      <4>1. j \in 1 .. n /\ k \in 1 .. n /\ u[j] = s[j] /\ u[k] = s[k]
        BY <1>6, <2>1, <2>5, <3>1
      <4> QED BY <2>4, <2>5, <4>1
    <3>2. CASE k = m + 1
      <4>1. j \in 1 .. n /\ j <= m /\ u[j] = s[j] /\ u[k] = i
        BY <1>6, <2>1, <2>5, <3>2
      <4> QED BY <1>5, <2>3, <4>1
    <3>3. CASE k > m + 1 /\ j <= m
      <4>1. j \in 1 .. n /\ k - 1 \in 1 .. n /\ j < k - 1 /\ u[j] = s[j] /\ u[k] = s[k - 1]
        BY <1>6, <2>1, <2>5, <3>3
      <4> QED BY <2>4, <4>1
    <3>4. CASE k > m + 1 /\ j = m + 1
      <4>1. k - 1 \in 1 .. n /\ ~(k - 1 <= m) /\ u[j] = i /\ u[k] = s[k - 1]
        BY <1>6, <2>1, <2>5, <3>4
      <4>2. ~(Due(s[k - 1]) <= t) /\ Due(s[k - 1]) \in Nat
        BY <1>4, <1>5, <4>1
      <4> QED BY <2>3, <4>1, <4>2
    <3>5. CASE k > m + 1 /\ j > m + 1
      <4>1. j - 1 \in 1 .. n /\ k - 1 \in 1 .. n /\ j - 1 < k - 1
            /\ u[j] = s[j - 1] /\ u[k] = s[k - 1]
        BY <1>6, <2>1, <2>5, <3>5
      <4> QED BY <2>4, <4>1
    <3> QED BY <1>6, <3>1, <3>2, <3>3, <3>4, <3>5
  <2>6. \A k \in 1 .. n + 1 : u[k] \in C
    BY <1>14 DEF Along
  <2> QED BY <2>2, <2>5, <2>6 DEF InOrder
<1> HIDE DEF u
<1>18. Chained(M, a) = C
  BY <1>1, <1>12, RelinksKeeps
<1>19. ChainLinks(M, a, Chained(M, a) \ {})
  BY <1>14, <1>16, <1>17, <1>18 DEF ChainLinks
<1>20. \A j \in Taken(L) \ C : Prev(M)[j] = Prev(L)[j] /\ Next(M)[j] = Next(L)[j]
  <2>1. ASSUME NEW j \in Taken(L) \ C PROVE j \in ResSlots \ {i} /\ j # after /\ j # next
    BY <1>9, <2>1, LedgerConstants DEF Taken
  <2> QED BY <1>15, <2>1
<1>21. LinksIn(M, {})
  BY <1>12, <1>19, <1>20, OthersLinked
<1> QED BY <1>12, <1>21 DEF M, after

-----------------------------------------------------------------------------
(* One table entry changes                                                 *)

LEMMA ClaimSet ==
  ASSUME NEW L \in Ledgers, NEW i \in ResSlots, NEW c \in Reservation \cup {Vacant}
  PROVE  LET M == [L EXCEPT !.reservations[i] = c]
         IN  /\ M \in Ledgers
             /\ M.accounts = L.accounts /\ M.requests = L.requests /\ M.quotes = L.quotes
             /\ \A j \in ResSlots : M.reservations[j] = IF j = i THEN c ELSE L.reservations[j]
<1> DEFINE M == [L EXCEPT !.reservations[i] = c]
           f == [L.reservations EXCEPT ![i] = c]
<1>1. L.reservations \in [ResSlots -> Reservation \cup {Vacant}]
  BY DEF Ledgers
<1>2. /\ M.accounts = L.accounts /\ M.requests = L.requests /\ M.quotes = L.quotes
      /\ M.reservations = f
      /\ M = [accounts |-> L.accounts, reservations |-> f,
              requests |-> L.requests, quotes |-> L.quotes]
  BY DEF Ledgers
<1>3. f \in [ResSlots -> Reservation \cup {Vacant}]
      /\ \A j \in ResSlots : f[j] = IF j = i THEN c ELSE L.reservations[j]
  BY <1>1
<1> HIDE DEF M, f
<1>4. M \in Ledgers
  BY <1>2, <1>3 DEF Ledgers
<1> QED BY <1>2, <1>3, <1>4 DEF M

LEMMA AccountSet ==
  ASSUME NEW L \in Ledgers, NEW a \in Accounts, NEW e \in Account
  PROVE  LET M == [L EXCEPT !.accounts[a] = e]
         IN  /\ M \in Ledgers
             /\ M.reservations = L.reservations /\ M.requests = L.requests /\ M.quotes = L.quotes
             /\ \A b \in Accounts : M.accounts[b] = IF b = a THEN e ELSE L.accounts[b]
<1> DEFINE M == [L EXCEPT !.accounts[a] = e]
           f == [L.accounts EXCEPT ![a] = e]
<1>1. L.accounts \in [Accounts -> Account]
  BY DEF Ledgers
<1>2. /\ M.reservations = L.reservations /\ M.requests = L.requests /\ M.quotes = L.quotes
      /\ M.accounts = f
      /\ M = [accounts |-> f, reservations |-> L.reservations,
              requests |-> L.requests, quotes |-> L.quotes]
  BY DEF Ledgers
<1>3. f \in [Accounts -> Account] /\ \A b \in Accounts : f[b] = IF b = a THEN e ELSE L.accounts[b]
  BY <1>1
<1> HIDE DEF M, f
<1>4. M \in Ledgers
  BY <1>2, <1>3 DEF Ledgers
<1> QED BY <1>2, <1>3, <1>4 DEF M

LEMMA RequestSet ==
  ASSUME NEW L \in Ledgers, NEW r \in RequestSlots, NEW d \in RequestRecord \cup {Vacant}
  PROVE  LET M == [L EXCEPT !.requests[r] = d]
         IN  /\ M \in Ledgers
             /\ M.accounts = L.accounts /\ M.reservations = L.reservations /\ M.quotes = L.quotes
             /\ \A p \in RequestSlots : M.requests[p] = IF p = r THEN d ELSE L.requests[p]
<1> DEFINE M == [L EXCEPT !.requests[r] = d]
           f == [L.requests EXCEPT ![r] = d]
<1>1. L.requests \in [RequestSlots -> RequestRecord \cup {Vacant}]
  BY DEF Ledgers
<1>2. /\ M.accounts = L.accounts /\ M.reservations = L.reservations /\ M.quotes = L.quotes
      /\ M.requests = f
      /\ M = [accounts |-> L.accounts, reservations |-> L.reservations,
              requests |-> f, quotes |-> L.quotes]
  BY DEF Ledgers
<1>3. f \in [RequestSlots -> RequestRecord \cup {Vacant}]
      /\ \A p \in RequestSlots : f[p] = IF p = r THEN d ELSE L.requests[p]
  BY <1>1
<1> HIDE DEF M, f
<1>4. M \in Ledgers
  BY <1>2, <1>3 DEF Ledgers
<1> QED BY <1>2, <1>3, <1>4 DEF M

LEMMA QuoteSet ==
  ASSUME NEW L \in Ledgers, NEW q \in QuoteSlots, NEW d \in QuoteRecord \cup {Vacant}
  PROVE  LET M == [L EXCEPT !.quotes[q] = d]
         IN  /\ M \in Ledgers
             /\ M.accounts = L.accounts /\ M.reservations = L.reservations /\ M.requests = L.requests
             /\ \A p \in QuoteSlots : M.quotes[p] = IF p = q THEN d ELSE L.quotes[p]
<1> DEFINE M == [L EXCEPT !.quotes[q] = d]
           f == [L.quotes EXCEPT ![q] = d]
<1>1. L.quotes \in [QuoteSlots -> QuoteRecord \cup {Vacant}]
  BY DEF Ledgers
<1>2. /\ M.accounts = L.accounts /\ M.reservations = L.reservations /\ M.requests = L.requests
      /\ M.quotes = f
      /\ M = [accounts |-> L.accounts, reservations |-> L.reservations,
              requests |-> L.requests, quotes |-> f]
  BY DEF Ledgers
<1>3. f \in [QuoteSlots -> QuoteRecord \cup {Vacant}]
      /\ \A p \in QuoteSlots : f[p] = IF p = q THEN d ELSE L.quotes[p]
  BY <1>1
<1> HIDE DEF M, f
<1>4. M \in Ledgers
  BY <1>2, <1>3 DEF Ledgers
<1> QED BY <1>2, <1>3, <1>4 DEF M

-----------------------------------------------------------------------------
(* Claims that come and go                                                 *)

\* A list of nothing.
LEMMA EmptyList ==
  ASSUME NEW L, NEW r, ListHead(L, r) = NIL
  PROVE  ListLinks(L, r, {})
<1> DEFINE s == [k \in 1 .. 0 |-> NIL]
<1>1. IsPath(s, 0) /\ Along(s, 0) = {}
  BY DEF IsPath, Along
<1>2. Threads(s, 0, Prev(L), Next(L), ListHead(L, r), At(s, 0, 0))
  BY DEF Threads, At
<1> QED BY <1>1, <1>2 DEF ListLinks

LEMMA EmptyChain ==
  ASSUME NEW L, NEW a, HeadOf(L, a) = NIL, TailOf(L, a) = NIL
  PROVE  ChainLinks(L, a, {})
<1> DEFINE s == [k \in 1 .. 0 |-> NIL]
<1>1. IsPath(s, 0) /\ Along(s, 0) = {}
  BY DEF IsPath, Along
<1>2. Threads(s, 0, Prev(L), Next(L), HeadOf(L, a), TailOf(L, a)) /\ InOrder(L, s, 0)
  BY DEF Threads, At, InOrder
<1> QED BY <1>1, <1>2 DEF ChainLinks

\* An empty list has no head.
LEMMA NoHeadNoList ==
  ASSUME NEW L, NEW r, NEW C, ListLinks(L, r, C), ListHead(L, r) = NIL
  PROVE  C = {}
<1>1. PICK n, s : /\ IsPath(s, n) /\ Along(s, n) = C
                  /\ Threads(s, n, Prev(L), Next(L), ListHead(L, r), At(s, n, n))
  BY DEF ListLinks
<1>2. n = 0
  BY <1>1, LedgerConstants DEF Threads, At, IsPath
<1> QED BY <1>1, <1>2 DEF Along

\* Changes that touch neither claims nor links.
LEMMA SameLinks ==
  ASSUME NEW L, NEW off, LinksIn(L, off), NEW M \in Ledgers, M.reservations = L.reservations,
         \A a \in Accounts : HeadOf(M, a) = HeadOf(L, a) /\ TailOf(M, a) = TailOf(L, a),
         \A r \in RequestSlots : M.requests[r] # Vacant =>
           \/ L.requests[r] # Vacant /\ ListHead(M, r) = ListHead(L, r)
           \/ ListHead(M, r) = NIL /\ Listed(L, r) = {}
  PROVE  /\ LinksIn(M, off) /\ Taken(M) = Taken(L)
         /\ \A a : Chained(M, a) = Chained(L, a) /\ HeldBy(M, a) = HeldBy(L, a)
         /\ \A r : Listed(M, r) = Listed(L, r)
<1>1. /\ Taken(M) = Taken(L) /\ Prev(M) = Prev(L) /\ Next(M) = Next(L)
      /\ \A a : Chained(M, a) = Chained(L, a) /\ HeldBy(M, a) = HeldBy(L, a)
      /\ \A r : Listed(M, r) = Listed(L, r)
  BY DEF Taken, Prev, Next, Chained, HeldBy, Listed
<1>2. StatesIn(M)
  BY <1>1 DEF LinksIn, StatesIn
<1>3. ASSUME NEW a \in Accounts PROVE ChainLinks(M, a, Chained(M, a) \ off)
  <2>1. ChainLinks(L, a, Chained(L, a) \ off)
    BY DEF LinksIn, ChainsIn
  <2> QED BY <1>1, <2>1, ChainFrame
<1>4. ASSUME NEW r \in RequestSlots, M.requests[r] # Vacant
      PROVE  ListLinks(M, r, Listed(M, r) \ off)
  <2>1. CASE L.requests[r] # Vacant /\ ListHead(M, r) = ListHead(L, r)
    <3>1. ListLinks(L, r, Listed(L, r) \ off)
      BY <2>1 DEF LinksIn, ListsIn
    <3> QED BY <1>1, <2>1, <3>1, ListFrame
  <2>2. CASE ListHead(M, r) = NIL /\ Listed(L, r) = {}
    <3>1. Listed(M, r) \ off = {}
      BY <1>1, <2>2
    <3> QED BY <2>2, <3>1, EmptyList
  <2> QED BY <1>4, <2>1, <2>2
<1> QED BY <1>1, <1>2, <1>3, <1>4 DEF LinksIn, ChainsIn, ListsIn

\* A claim stored, not yet linked.
LEMMA StoreLinks ==
  ASSUME NEW L, LinksIn(L, {}), NEW i \in ResSlots \ Taken(L),
         NEW c \in Reservation, c.list = Vacant, c.expires_at # Vacant
  PROVE  LinksIn([L EXCEPT !.reservations[i] = c], {i})
<1> DEFINE M == [L EXCEPT !.reservations[i] = c]
<1>1. L \in Ledgers /\ c # Vacant
  BY LedgerConstants DEF LinksIn
<1>2. /\ M \in Ledgers
      /\ M.accounts = L.accounts /\ M.requests = L.requests /\ M.quotes = L.quotes
      /\ \A j \in ResSlots : M.reservations[j] = IF j = i THEN c ELSE L.reservations[j]
  BY <1>1, ClaimSet
<1> HIDE DEF M
<1>3. Taken(M) = Taken(L) \cup {i}
  BY <1>1, <1>2 DEF Taken
<1>4. \A j \in Taken(L) : /\ j \in ResSlots /\ j # i /\ M.reservations[j] = L.reservations[j]
                          /\ Prev(M)[j] = Prev(L)[j] /\ Next(M)[j] = Next(L)[j]
  BY <1>2 DEF Taken, Prev, Next
<1>5. StatesIn(M)
  BY <1>2, <1>3, <1>4 DEF StatesIn, LinksIn
<1>6. ASSUME NEW a \in Accounts PROVE ChainLinks(M, a, Chained(M, a) \ {i})
  <2>1. Chained(M, a) \ {i} = Chained(L, a) \ {}
    BY <1>2, <1>3, <1>4 DEF Chained
  <2>2. ChainLinks(L, a, Chained(L, a) \ {})
    BY DEF LinksIn, ChainsIn
  <2>3. \A j \in Chained(L, a) \ {} : j \in Taken(L)
    BY DEF Chained
  <2>4. HeadOf(M, a) = HeadOf(L, a) /\ TailOf(M, a) = TailOf(L, a)
    BY <1>2 DEF HeadOf, TailOf
  <2> QED BY <1>4, <2>1, <2>2, <2>3, <2>4, ChainFrame
<1>7. ASSUME NEW r \in RequestSlots, M.requests[r] # Vacant
      PROVE  ListLinks(M, r, Listed(M, r) \ {i})
  <2>1. Listed(M, r) \ {i} = Listed(L, r) \ {}
    BY <1>2, <1>3, <1>4 DEF Listed
  <2>2. ListLinks(L, r, Listed(L, r) \ {})
    BY <1>2, <1>7 DEF LinksIn, ListsIn
  <2>3. \A j \in Listed(L, r) \ {} : j \in Taken(L)
    BY DEF Listed
  <2>4. ListHead(M, r) = ListHead(L, r)
    BY <1>2 DEF ListHead
  <2> QED BY <1>4, <2>1, <2>2, <2>3, <2>4, ListFrame
<1>8. LinksIn(M, {i})
  BY <1>2, <1>5, <1>6, <1>7 DEF LinksIn, ChainsIn, ListsIn
<1> QED BY <1>8 DEF M

\* An unlinked claim freed.
LEMMA VacateLinks ==
  ASSUME NEW L, NEW i \in ResSlots, LinksIn(L, {i})
  PROVE  LinksIn([L EXCEPT !.reservations[i] = Vacant], {})
<1> DEFINE M == [L EXCEPT !.reservations[i] = Vacant]
<1>1. L \in Ledgers
  BY DEF LinksIn
<1>2. /\ M \in Ledgers
      /\ M.accounts = L.accounts /\ M.requests = L.requests /\ M.quotes = L.quotes
      /\ \A j \in ResSlots : M.reservations[j] = IF j = i THEN Vacant ELSE L.reservations[j]
  BY <1>1, ClaimSet
<1> HIDE DEF M
<1>3. Taken(M) = Taken(L) \ {i}
  BY <1>2 DEF Taken
<1>4. \A j \in Taken(M) : /\ j \in ResSlots /\ j # i /\ M.reservations[j] = L.reservations[j]
                          /\ Prev(M)[j] = Prev(L)[j] /\ Next(M)[j] = Next(L)[j]
  BY <1>2, <1>3 DEF Taken, Prev, Next
<1>5. StatesIn(M)
  BY <1>3, <1>4 DEF StatesIn, LinksIn
<1>6. ASSUME NEW a \in Accounts PROVE ChainLinks(M, a, Chained(M, a) \ {})
  <2>1. Chained(M, a) \ {} = Chained(L, a) \ {i} /\ Chained(L, a) \ {i} \subseteq Taken(M)
    BY <1>3, <1>4 DEF Chained
  <2>2. ChainLinks(L, a, Chained(L, a) \ {i})
    BY DEF LinksIn, ChainsIn
  <2>3. HeadOf(M, a) = HeadOf(L, a) /\ TailOf(M, a) = TailOf(L, a)
    BY <1>2 DEF HeadOf, TailOf
  <2> QED BY <1>4, <2>1, <2>2, <2>3, ChainFrame
<1>7. ASSUME NEW r \in RequestSlots, M.requests[r] # Vacant
      PROVE  ListLinks(M, r, Listed(M, r) \ {})
  <2>1. Listed(M, r) \ {} = Listed(L, r) \ {i} /\ Listed(L, r) \ {i} \subseteq Taken(M)
    BY <1>3, <1>4 DEF Listed
  <2>2. ListLinks(L, r, Listed(L, r) \ {i})
    BY <1>2, <1>7 DEF LinksIn, ListsIn
  <2>3. ListHead(M, r) = ListHead(L, r)
    BY <1>2 DEF ListHead
  <2> QED BY <1>4, <2>1, <2>2, <2>3, ListFrame
<1>8. LinksIn(M, {})
  BY <1>2, <1>5, <1>6, <1>7 DEF LinksIn, ChainsIn, ListsIn
<1> QED BY <1>8 DEF M

\* An unlinked claim put at the head of a request's list, where it no longer expires.
Lists(L, M, r, i) ==
  /\ M.accounts = L.accounts /\ M.quotes = L.quotes /\ Taken(M) = Taken(L)
  /\ \A j \in Taken(L) \ {i} : SameClaim(M.reservations[j], L.reservations[j])
  /\ M.reservations[i].account = L.reservations[i].account
  /\ M.reservations[i].amount = L.reservations[i].amount
  /\ M.reservations[i].owner = L.reservations[i].owner
  /\ M.reservations[i].list = r /\ M.reservations[i].expires_at = Vacant
  /\ \A p \in RequestSlots : (M.requests[p] = Vacant <=> L.requests[p] = Vacant)
  /\ \A p \in RequestSlots : L.requests[p] # Vacant => M.requests[p].claim = L.requests[p].claim

LEMMA ListedLinks ==
  ASSUME NEW L, NEW a \in Accounts, NEW i \in Chained(L, a), LinksIn(L, {i}),
         NEW r \in RequestSlots, L.requests[r] # Vacant
  PROVE  LET M == LinkIntoCommittedList(L, r, i) IN Lists(L, M, r, i) /\ LinksIn(M, {})
<1> DEFINE head == ListHead(L, r)
           c == L.reservations[i]
           d == [c EXCEPT !.list = r, !.expires_at = Vacant, !.prev = NIL, !.next = head]
           e == [L.requests[r] EXCEPT !.committed_head = i]
           L1 == [L EXCEPT !.reservations[i] = d]
           L2 == [L1 EXCEPT !.requests[r] = e]
           M == IF head = NIL THEN L2 ELSE [L2 EXCEPT !.reservations[head].prev = i]
<1>1. /\ L \in Ledgers /\ StatesIn(L) /\ i \in Taken(L) /\ i \in ResSlots /\ c \in Reservation
      /\ L.requests[r] \in RequestRecord /\ c.list = Vacant /\ c.account = a
  <2>1. L \in Ledgers /\ StatesIn(L) /\ i \in Taken(L) /\ c.list = Vacant /\ c.account = a
    BY DEF LinksIn, Chained
  <2> QED BY <2>1, TakenTyped DEF Ledgers
<1>2. LinkIntoCommittedList(L, r, i) = M
  <2> DEFINE linked == [L EXCEPT !.reservations[i] =
                          [@ EXCEPT !.list = r, !.expires_at = Vacant, !.prev = NIL, !.next = head],
                        !.requests[r].committed_head = i]
  <2>1. linked = L2
    BY <1>1 DEF Ledgers
  <2>2. LinkIntoCommittedList(L, r, i)
          = IF head = NIL THEN linked ELSE [linked EXCEPT !.reservations[head].prev = i]
    BY DEF LinkIntoCommittedList, ListHead
  <2> HIDE DEF linked, L2
  <2> QED BY <2>1, <2>2
<1>3. head \in Link /\ i \in Link /\ NIL \in Link
  BY <1>1 DEF ListHead, RequestRecord, Link
<1>4. /\ d \in Reservation /\ d.account = c.account /\ d.amount = c.amount /\ d.owner = c.owner
      /\ d.list = r /\ d.expires_at = Vacant /\ d.prev = NIL /\ d.next = head
  BY <1>1, <1>3 DEF Reservation
<1>5. /\ e \in RequestRecord /\ e.committed_head = i /\ e.claim = L.requests[r].claim
  BY <1>1, <1>3 DEF RequestRecord
<1>6. d # Vacant /\ e # Vacant
  BY <1>4, <1>5, LedgerConstants
<1> HIDE DEF d, e
<1>7. /\ L1 \in Ledgers
      /\ L1.accounts = L.accounts /\ L1.requests = L.requests /\ L1.quotes = L.quotes
      /\ \A j \in ResSlots : L1.reservations[j] = IF j = i THEN d ELSE L.reservations[j]
  BY <1>1, <1>4, ClaimSet
<1> HIDE DEF L1
<1>8. /\ L2 \in Ledgers
      /\ L2.accounts = L1.accounts /\ L2.reservations = L1.reservations /\ L2.quotes = L1.quotes
      /\ \A p \in RequestSlots : L2.requests[p] = IF p = r THEN e ELSE L1.requests[p]
  BY <1>5, <1>7, RequestSet
<1> HIDE DEF L2
<1>9. Taken(L2) = Taken(L)
  BY <1>1, <1>6, <1>7, <1>8 DEF Taken
<1>10. /\ Prev(L2)[i] = NIL /\ Next(L2)[i] = head
       /\ \A j \in ResSlots \ {i} : Prev(L2)[j] = Prev(L)[j] /\ Next(L2)[j] = Next(L)[j]
  BY <1>1, <1>4, <1>7, <1>8 DEF Prev, Next
<1>11. PICK n, s : /\ IsPath(s, n) /\ Along(s, n) = Listed(L, r) \ {i}
                   /\ Threads(s, n, Prev(L), Next(L), head, At(s, n, n))
  BY DEF LinksIn, ListsIn, ListLinks
<1>12. i \notin Listed(L, r)
  BY <1>1, LedgerConstants DEF Listed
<1>13. head = At(s, n, 1) /\ head \in Listed(L, r) \cup {NIL}
  BY <1>11 DEF Threads, At, Along
<1>14. head # NIL => head \in Taken(L) /\ head \in ResSlots /\ head # i
  BY <1>12, <1>13 DEF Listed, Taken
<1> HIDE DEF head
<1>15. /\ Relinks(L2, M, a) /\ M.accounts = L2.accounts
       /\ Next(M) = Next(L2)
       /\ \A j \in ResSlots : Prev(M)[j] = IF j = head THEN i ELSE Prev(L2)[j]
  <2>1. CASE head = NIL
    <3>1. M = L2
      BY <2>1
    <3>2. Relinks(L2, L2, a)
      BY <1>8 DEF Relinks, SameStored, SameClaim
    <3> QED BY <2>1, <3>1, <3>2, LedgerConstants
  <2>2. CASE head # NIL
    <3>1. M = [L2 EXCEPT !.reservations[head].prev = i]
      BY <2>2
    <3> HIDE DEF M
    <3>2. /\ Relinks(L2, M, a) /\ M.accounts = L2.accounts
          /\ Next(M) = Next(L2) /\ Prev(M) = [Prev(L2) EXCEPT ![head] = i]
      BY <1>3, <1>8, <1>9, <1>14, <2>2, <3>1, PrevSet
    <3> QED BY <1>14, <2>2, <3>2, LinkDomains
  <2> QED BY <2>1, <2>2
<1> HIDE DEF M
<1>16. /\ M \in Ledgers /\ Taken(M) = Taken(L) /\ M.requests = L2.requests /\ M.quotes = L2.quotes
       /\ \A j \in Taken(L) : SameClaim(M.reservations[j], L2.reservations[j])
  BY <1>9, <1>15 DEF Relinks
<1>17. \A j \in Taken(L) \ {i} : SameClaim(M.reservations[j], L.reservations[j])
  <2> TAKE j \in Taken(L) \ {i}
  <2>1. L2.reservations[j] = L.reservations[j]
    BY <1>7, <1>8 DEF Taken
  <2> QED BY <1>16, <2>1
<1>18. /\ M.reservations[i].account = c.account /\ M.reservations[i].amount = c.amount
       /\ M.reservations[i].owner = c.owner
       /\ M.reservations[i].list = r /\ M.reservations[i].expires_at = Vacant
  <2>1. L2.reservations[i] = d
    BY <1>1, <1>7, <1>8
  <2>2. SameClaim(M.reservations[i], d)
    BY <1>1, <1>16, <2>1
  <2> QED BY <1>4, <2>2 DEF SameClaim
<1>19. Lists(L, M, r, i)
  BY <1>5, <1>6, <1>7, <1>8, <1>15, <1>16, <1>17, <1>18 DEF Lists
<1>20. \A j \in ResSlots \ {i} : /\ Prev(M)[j] = IF j = head THEN i ELSE Prev(L)[j]
                                 /\ Next(M)[j] = Next(L)[j]
  BY <1>10, <1>15
<1>21. Prev(M)[i] = NIL /\ Next(M)[i] = head
  BY <1>1, <1>10, <1>14, <1>15, LedgerConstants
<1>22. StatesIn(M)
  BY <1>1, <1>16, <1>17, <1>18, LedgerConstants DEF StatesIn, SameClaim
<1>23. /\ \A b \in Accounts : Chained(M, b) = Chained(L, b) \ {i}
       /\ Listed(M, r) = Listed(L, r) \cup {i}
       /\ \A p \in RequestSlots \ {r} : Listed(M, p) = Listed(L, p) \ {i}
  BY <1>1, <1>16, <1>17, <1>18, LedgerConstants DEF Chained, Listed, SameClaim
<1>24. ASSUME NEW b \in Accounts PROVE ChainLinks(M, b, Chained(M, b) \ {})
  <2>1. ChainLinks(L, b, Chained(L, b) \ {i})
    BY DEF LinksIn, ChainsIn
  <2>2. HeadOf(M, b) = HeadOf(L, b) /\ TailOf(M, b) = TailOf(L, b)
    BY <1>7, <1>8, <1>15 DEF HeadOf, TailOf
  <2>3. \A j \in Chained(L, b) \ {i} : j \in ResSlots \ {i} /\ j # head /\ j \in Taken(L)
    BY <1>1, <1>13, LedgerConstants DEF Chained, Listed, Taken
  <2>4. \A j \in Chained(L, b) \ {i} :
          /\ Prev(M)[j] = Prev(L)[j] /\ Next(M)[j] = Next(L)[j]
          /\ M.reservations[j].expires_at = L.reservations[j].expires_at
    BY <1>17, <1>20, <2>3 DEF SameClaim
  <2>5. Chained(M, b) \ {} = Chained(L, b) \ {i}
    BY <1>23
  <2> QED BY <2>1, <2>2, <2>4, <2>5, ChainFrame
<1>25. ASSUME NEW p \in RequestSlots, M.requests[p] # Vacant, p # r
       PROVE  ListLinks(M, p, Listed(M, p) \ {})
  <2>1. ListLinks(L, p, Listed(L, p) \ {i})
    BY <1>7, <1>8, <1>16, <1>25 DEF LinksIn, ListsIn
  <2>2. ListHead(M, p) = ListHead(L, p)
    BY <1>7, <1>8, <1>16, <1>25 DEF ListHead
  <2>3. \A j \in Listed(L, p) \ {i} : j \in ResSlots \ {i} /\ j # head
    BY <1>13, <1>25, LedgerConstants DEF Listed, Taken
  <2>4. Listed(M, p) \ {} = Listed(L, p) \ {i}
    BY <1>23, <1>25
  <2> QED BY <1>20, <2>1, <2>2, <2>3, <2>4, ListFrame
<1>26. ListLinks(M, r, Listed(M, r) \ {})
  <2> DEFINE u == Inserted(s, n, 0, i)
             last == IF head = NIL THEN i ELSE At(s, n, n)
  <2>1. 0 \in 0 .. n /\ i \notin Along(s, n) /\ NIL = At(s, n, 0) /\ head = At(s, n, 0 + 1)
    BY <1>11, <1>12, <1>13 DEF IsPath, At
  <2>2. IsPath(u, n + 1) /\ Along(u, n + 1) = Along(s, n) \cup {i}
    BY <1>1, <1>11, <2>1, InsertedPath
  <2>3. Along(u, n + 1) = Listed(M, r) \ {}
    BY <1>11, <1>12, <1>23, <2>2
  <2>4. \A j \in ResSlots \ {i} : /\ Prev(M)[j] = IF j = head THEN i ELSE Prev(L)[j]
                                  /\ Next(M)[j] = IF j = NIL THEN i ELSE Next(L)[j]
    BY <1>20, LedgerConstants
  <2>5. Threads(u, n + 1, Prev(M), Next(M), IF NIL = NIL THEN i ELSE head, last)
    BY <1>1, <1>11, <1>21, <2>1, <2>4, InsertedThreads
  <2>6. Threads(u, n + 1, Prev(M), Next(M), i, At(u, n + 1, n + 1))
    <3> HIDE DEF u, last
    <3> QED BY <2>5 DEF Threads
  <2>7. ListHead(M, r) = i
    BY <1>5, <1>8, <1>16 DEF ListHead
  <2> HIDE DEF u
  <2> QED BY <2>2, <2>3, <2>6, <2>7 DEF ListLinks
<1>27. LinksIn(M, {})
  BY <1>16, <1>22, <1>24, <1>25, <1>26 DEF LinksIn, ChainsIn, ListsIn
<1> QED BY <1>2, <1>19, <1>27

-----------------------------------------------------------------------------
(* Totals and owners                                                       *)

Total(L, S) == SumFunction([i \in S |-> L.reservations[i].amount])

LEMMA TotalSame ==
  ASSUME NEW L, NEW M, NEW S,
         \A i \in S : M.reservations[i].amount = L.reservations[i].amount
  PROVE  Total(M, S) = Total(L, S)
<1>1. [i \in S |-> M.reservations[i].amount] = [i \in S |-> L.reservations[i].amount]
  OBVIOUS
<1> QED BY <1>1 DEF Total

LEMMA TotalParts ==
  ASSUME NEW L \in Ledgers, NEW S \in SUBSET Taken(L)
  PROVE  /\ Total(L, {}) = 0 /\ Total(L, S) \in Nat
         /\ \A i \in S : /\ L.reservations[i].amount \in Nat
                         /\ Total(L, S) = L.reservations[i].amount + Total(L, S \ {i})
<1> DEFINE f == [j \in S |-> L.reservations[j].amount]
<1>1. IsFiniteSet(S)
  BY FS_Subset, LedgerConstants DEF Taken
<1>2. \A j \in S : f[j] \in Nat
  BY TakenTyped DEF Reservation
<1>3. /\ SumFunctionOnSet(f, {}) = 0 /\ SumFunctionOnSet(f, S) \in Nat
      /\ \A i \in S : SumFunctionOnSet(f, S) = f[i] + SumFunctionOnSet(f, S \ {i})
  <2> HIDE DEF f
  <2> QED BY <1>1, <1>2, SumOne
<1>4. \A R \in SUBSET S : Total(L, R) = SumFunctionOnSet(f, R)
  <2> TAKE R \in SUBSET S
  <2> DEFINE g == [j \in R |-> L.reservations[j].amount]
  <2>1. IsFiniteSet(R) /\ \A j \in R : f[j] \in Nat /\ g[j] = f[j]
    BY <1>1, <1>2, FS_Subset
  <2>2. DOMAIN g = R /\ Total(L, R) = SumFunctionOnSet(g, DOMAIN g)
    BY DEF Total, SumFunction
  <2> HIDE DEF f, g
  <2>3. SumFunctionOnSet(g, R) = SumFunctionOnSet(f, R)
    BY <2>1, SumSame
  <2> QED BY <2>2, <2>3
<1>5. \A i \in S : f[i] = L.reservations[i].amount
  OBVIOUS
<1> HIDE DEF f
<1> QED BY <1>2, <1>3, <1>4, <1>5

\* Every claim is held by its owner, and every owner holds a claim of its own.
OwnersIn(L) ==
  /\ \A i \in Taken(L) : /\ OpenIn(L, L.reservations[i].owner)
                         /\ ClaimIn(L, L.reservations[i].owner) = i
  /\ \A o \in Owners : OpenIn(L, o) /\ ClaimIn(L, o) # NIL =>
       ClaimIn(L, o) \in Taken(L) /\ L.reservations[ClaimIn(L, o)].owner = o

TotalsIn(L) ==
  \A a \in Accounts : /\ L.accounts[a].reserved = Total(L, Chained(L, a))
                      /\ L.accounts[a].committed = Total(L, HeldBy(L, a))

ClosedIn(L) == \A r \in RequestSlots : L.requests[r] = Vacant => Listed(L, r) = {}

Booked(L) == OwnersIn(L) /\ TotalsIn(L) /\ ClosedIn(L)
Sound(L) == LinksIn(L, {}) /\ Booked(L)

\* What is stored of the accounts, up to the ends of their chains.
Stores(L, M, a, reserved, committed) ==
  \A b \in Accounts : /\ M.accounts[b].free = L.accounts[b].free
                      /\ M.accounts[b].reserved
                           = IF b = a THEN reserved ELSE L.accounts[b].reserved
                      /\ M.accounts[b].committed
                           = IF b = a THEN committed ELSE L.accounts[b].committed

\* M is L with one more reserved claim, or without the claims of D.
Gains(L, M, i) ==
  /\ i \in ResSlots \ Taken(L) /\ Taken(M) = Taken(L) \cup {i}
  /\ M.reservations[i].list = Vacant
  /\ \A j \in Taken(L) : SameClaim(M.reservations[j], L.reservations[j])
Loses(L, M, D) ==
  /\ D \subseteq Taken(L) /\ Taken(M) = Taken(L) \ D
  /\ \A j \in Taken(M) : SameClaim(M.reservations[j], L.reservations[j])

LEMMA RequestOpen ==
  ASSUME NEW L, NEW M, NEW S, SameOwners(L, M, S), NEW r \in RequestSlots
  PROVE  M.requests[r] = Vacant <=> L.requests[r] = Vacant
<1>1. r \notin QuoteSlots /\ r \in Owners
  BY LedgerConstants DEF Owners
<1> QED BY <1>1 DEF SameOwners, OpenIn

LEMMA BookedGains ==
  ASSUME NEW L \in Ledgers, Booked(L), NEW M \in Ledgers, NEW i, Gains(L, M, i),
         NEW a \in Accounts, NEW n \in Nat, NEW o \in Owners,
         M.reservations[i].account = a, M.reservations[i].amount = n,
         M.reservations[i].owner = o,
         Stores(L, M, a, L.accounts[a].reserved + n, L.accounts[a].committed),
         OpenIn(L, o), ClaimIn(L, o) = NIL, SameOwners(L, M, Owners \ {o}), ClaimIn(M, o) = i
  PROVE  Booked(M)
<1>1. /\ i \in ResSlots /\ i \notin Taken(L) /\ i # NIL /\ Taken(M) = Taken(L) \cup {i}
      /\ NIL \notin Taken(L)
  BY LedgerConstants DEF Gains, Taken
<1>2. \A j \in Taken(L) : /\ SameClaim(M.reservations[j], L.reservations[j])
                          /\ L.reservations[j].owner \in Owners
  BY TakenTyped DEF Gains, Reservation
<1>3. OwnersIn(M)
  <2>1. ASSUME NEW j \in Taken(M)
        PROVE  OpenIn(M, M.reservations[j].owner) /\ ClaimIn(M, M.reservations[j].owner) = j
    <3>1. CASE j = i
      BY <3>1 DEF SameOwners
    <3>2. CASE j # i
      <4>1. j \in Taken(L) /\ M.reservations[j].owner = L.reservations[j].owner
        BY <1>1, <1>2, <3>2 DEF SameClaim
      <4>2. /\ OpenIn(L, L.reservations[j].owner) /\ ClaimIn(L, L.reservations[j].owner) = j
            /\ L.reservations[j].owner \in Owners
        BY <1>2, <4>1 DEF Booked, OwnersIn
      <4>3. L.reservations[j].owner # o
        BY <1>1, <4>1, <4>2
      <4> QED BY <4>1, <4>2, <4>3 DEF SameOwners
    <3> QED BY <3>1, <3>2
  <2>2. ASSUME NEW p \in Owners, OpenIn(M, p), ClaimIn(M, p) # NIL
        PROVE  ClaimIn(M, p) \in Taken(M) /\ M.reservations[ClaimIn(M, p)].owner = p
    <3>1. CASE p = o
      BY <1>1, <3>1
    <3>2. CASE p # o
      <4>1. OpenIn(L, p) /\ ClaimIn(M, p) = ClaimIn(L, p)
        BY <2>2, <3>2 DEF SameOwners
      <4>2. ClaimIn(L, p) \in Taken(L) /\ L.reservations[ClaimIn(L, p)].owner = p
        BY <2>2, <4>1 DEF Booked, OwnersIn
      <4> QED BY <1>1, <1>2, <4>1, <4>2 DEF SameClaim
    <3> QED BY <3>1, <3>2
  <2> QED BY <2>1, <2>2 DEF OwnersIn
<1>4. ASSUME NEW b \in Accounts
      PROVE  /\ M.accounts[b].reserved = Total(M, Chained(M, b))
             /\ M.accounts[b].committed = Total(M, HeldBy(M, b))
  <2>1. HeldBy(M, b) = HeldBy(L, b)
    BY <1>1, <1>2 DEF HeldBy, SameClaim, Gains
  <2>2. Chained(M, b) = IF b = a THEN Chained(L, b) \cup {i} ELSE Chained(L, b)
    BY <1>1, <1>2 DEF Chained, SameClaim, Gains
  <2>3. Total(M, HeldBy(L, b)) = Total(L, HeldBy(L, b))
        /\ Total(M, Chained(L, b)) = Total(L, Chained(L, b))
    <3>1. /\ \A j \in HeldBy(L, b) : M.reservations[j].amount = L.reservations[j].amount
          /\ \A j \in Chained(L, b) : M.reservations[j].amount = L.reservations[j].amount
      BY <1>2 DEF HeldBy, Chained, SameClaim
    <3> QED BY <3>1, TotalSame
  <2>4. /\ L.accounts[b].reserved = Total(L, Chained(L, b))
        /\ L.accounts[b].committed = Total(L, HeldBy(L, b))
    BY DEF Booked, TotalsIn
  <2>5. CASE b = a
    <3>1. Chained(M, b) \in SUBSET Taken(M) /\ i \in Chained(M, b)
          /\ Chained(M, b) \ {i} = Chained(L, b)
      BY <1>1, <2>2, <2>5 DEF Chained
    <3>2. Total(M, Chained(M, b)) = n + Total(M, Chained(L, b))
      BY <3>1, TotalParts
    <3>3. Total(L, Chained(L, b)) \in Nat
      BY TotalParts DEF Chained
    <3> QED BY <2>1, <2>3, <2>4, <2>5, <3>2, <3>3 DEF Stores
  <2>6. CASE b # a
    BY <2>1, <2>2, <2>3, <2>4, <2>6 DEF Stores
  <2> QED BY <2>5, <2>6
<1>5. ASSUME NEW r \in RequestSlots, M.requests[r] = Vacant PROVE Listed(M, r) = {}
  <2>1. Listed(L, r) = {}
    BY <1>5, RequestOpen DEF Booked, ClosedIn
  <2> QED BY <1>1, <1>2, <2>1, LedgerConstants DEF Listed, SameClaim, Gains
<1> QED BY <1>3, <1>4, <1>5 DEF Booked, TotalsIn, ClosedIn

LEMMA BookedLoses ==
  ASSUME NEW L \in Ledgers, Booked(L), NEW M \in Ledgers,
         NEW i \in Taken(L), Loses(L, M, {i}), NEW c, c = L.reservations[i],
         IF c.list = Vacant
         THEN Stores(L, M, c.account, Minus(L.accounts[c.account].reserved, c.amount),
                     L.accounts[c.account].committed)
         ELSE Stores(L, M, c.account, L.accounts[c.account].reserved,
                     Minus(L.accounts[c.account].committed, c.amount)),
         SameOwners(L, M, Owners \ {c.owner}), ClaimIn(M, c.owner) = NIL
  PROVE  Booked(M)
<1>1. /\ i \in ResSlots /\ c \in Reservation /\ Taken(M) = Taken(L) \ {i}
      /\ NIL \notin Taken(L)
  BY TakenTyped, LedgerConstants DEF Loses, Taken
<1>2. \A j \in Taken(M) : /\ SameClaim(M.reservations[j], L.reservations[j])
                          /\ L.reservations[j].owner \in Owners /\ j \in Taken(L) /\ j # i
  BY <1>1, TakenTyped DEF Loses, Reservation
<1>3. OwnersIn(M)
  <2>1. ASSUME NEW j \in Taken(M)
        PROVE  OpenIn(M, M.reservations[j].owner) /\ ClaimIn(M, M.reservations[j].owner) = j
    <3>1. M.reservations[j].owner = L.reservations[j].owner
      BY <1>2 DEF SameClaim
    <3>2. /\ OpenIn(L, L.reservations[j].owner) /\ ClaimIn(L, L.reservations[j].owner) = j
          /\ ClaimIn(L, c.owner) = i /\ L.reservations[j].owner \in Owners
      BY <1>2 DEF Booked, OwnersIn
    <3>3. L.reservations[j].owner # c.owner
      BY <1>2, <3>2
    <3> QED BY <3>1, <3>2, <3>3 DEF SameOwners
  <2>2. ASSUME NEW p \in Owners, OpenIn(M, p), ClaimIn(M, p) # NIL
        PROVE  ClaimIn(M, p) \in Taken(M) /\ M.reservations[ClaimIn(M, p)].owner = p
    <3>1. p # c.owner
      BY <2>2
    <3>2. OpenIn(L, p) /\ ClaimIn(M, p) = ClaimIn(L, p)
      BY <2>2, <3>1 DEF SameOwners
    <3>3. ClaimIn(L, p) \in Taken(L) /\ L.reservations[ClaimIn(L, p)].owner = p
      BY <2>2, <3>2 DEF Booked, OwnersIn
    <3>4. ClaimIn(L, p) \in Taken(M)
      BY <1>1, <3>1, <3>3
    <3> QED BY <1>2, <3>2, <3>3, <3>4 DEF SameClaim
  <2> QED BY <2>1, <2>2 DEF OwnersIn
<1>4. ASSUME NEW b \in Accounts
      PROVE  /\ M.accounts[b].reserved = Total(M, Chained(M, b))
             /\ M.accounts[b].committed = Total(M, HeldBy(M, b))
  <2>1. HeldBy(M, b) = HeldBy(L, b) \ {i} /\ Chained(M, b) = Chained(L, b) \ {i}
    BY <1>1, <1>2 DEF HeldBy, Chained, SameClaim
  <2>2. /\ \A j \in HeldBy(M, b) : M.reservations[j].amount = L.reservations[j].amount
        /\ \A j \in Chained(M, b) : M.reservations[j].amount = L.reservations[j].amount
    BY <1>2 DEF HeldBy, Chained, SameClaim
  <2>3. /\ Total(M, HeldBy(M, b)) = Total(L, HeldBy(L, b) \ {i})
        /\ Total(M, Chained(M, b)) = Total(L, Chained(L, b) \ {i})
    BY <2>1, <2>2, TotalSame
  <2>4. /\ L.accounts[b].reserved = Total(L, Chained(L, b))
        /\ L.accounts[b].committed = Total(L, HeldBy(L, b))
    BY DEF Booked, TotalsIn
  <2>5. /\ HeldBy(L, b) \in SUBSET Taken(L) /\ Chained(L, b) \in SUBSET Taken(L)
        /\ HeldBy(L, b) \ {i} \in SUBSET Taken(L) /\ Chained(L, b) \ {i} \in SUBSET Taken(L)
    BY DEF HeldBy, Chained
  <2>6. /\ Total(L, HeldBy(L, b) \ {i}) \in Nat /\ Total(L, Chained(L, b) \ {i}) \in Nat
        /\ c.amount \in Nat
    BY <1>1, <2>5, TotalParts DEF Reservation
  <2>7. CASE c.account = b /\ c.list = Vacant
    <3>1. i \in Chained(L, b) /\ i \notin HeldBy(L, b)
      BY <2>7 DEF Chained, HeldBy
    <3>2. Total(L, Chained(L, b)) = c.amount + Total(L, Chained(L, b) \ {i})
      BY <2>5, <3>1, TotalParts
    <3>3. HeldBy(L, b) \ {i} = HeldBy(L, b)
      BY <3>1
    <3>4. /\ M.accounts[b].reserved = Minus(L.accounts[b].reserved, c.amount)
          /\ M.accounts[b].committed = L.accounts[b].committed
      BY <2>7 DEF Stores
    <3>5. M.accounts[b].reserved = Total(L, Chained(L, b) \ {i})
      BY <2>4, <2>6, <3>2, <3>4 DEF Minus
    <3> QED BY <2>3, <2>4, <3>3, <3>4, <3>5
  <2>8. CASE c.account = b /\ c.list # Vacant
    <3>1. i \in HeldBy(L, b) /\ i \notin Chained(L, b)
      BY <2>8 DEF Chained, HeldBy
    <3>2. Total(L, HeldBy(L, b)) = c.amount + Total(L, HeldBy(L, b) \ {i})
      BY <2>5, <3>1, TotalParts
    <3>3. Chained(L, b) \ {i} = Chained(L, b)
      BY <3>1
    <3>4. /\ M.accounts[b].committed = Minus(L.accounts[b].committed, c.amount)
          /\ M.accounts[b].reserved = L.accounts[b].reserved
      BY <2>8 DEF Stores
    <3> QED BY <2>3, <2>4, <2>6, <3>2, <3>3, <3>4 DEF Minus
  <2>9. CASE c.account # b
    <3>1. HeldBy(L, b) \ {i} = HeldBy(L, b) /\ Chained(L, b) \ {i} = Chained(L, b)
      BY <2>9 DEF Chained, HeldBy
    <3>2. M.accounts[b].reserved = L.accounts[b].reserved
          /\ M.accounts[b].committed = L.accounts[b].committed
      BY <2>9 DEF Stores
    <3> QED BY <2>3, <2>4, <3>1, <3>2
  <2> QED BY <2>7, <2>8, <2>9
<1>5. ASSUME NEW r \in RequestSlots, M.requests[r] = Vacant PROVE Listed(M, r) = {}
  <2>1. Listed(L, r) = {}
    BY <1>5, RequestOpen DEF Booked, ClosedIn
  <2> QED BY <1>2, <2>1 DEF Listed, SameClaim
<1> QED BY <1>3, <1>4, <1>5 DEF Booked, TotalsIn, ClosedIn

\* A reserved claim becomes a committed one of the amount kept.
Commits(L, M, i, r, keep) ==
  /\ Taken(M) = Taken(L)
  /\ \A j \in Taken(L) \ {i} : SameClaim(M.reservations[j], L.reservations[j])
  /\ M.reservations[i].account = L.reservations[i].account
  /\ M.reservations[i].owner = L.reservations[i].owner
  /\ M.reservations[i].amount = keep
  /\ M.reservations[i].list = r /\ M.reservations[i].expires_at = Vacant

LEMMA BookedCommits ==
  ASSUME NEW L \in Ledgers, Booked(L), NEW M \in Ledgers, NEW a \in Accounts,
         NEW i \in Chained(L, a), NEW r \in RequestSlots, L.requests[r] # Vacant,
         NEW keep \in Nat, Commits(L, M, i, r, keep),
         Stores(L, M, a, Minus(L.accounts[a].reserved, L.reservations[i].amount),
                L.accounts[a].committed + keep),
         SameOwners(L, M, Owners)
  PROVE  Booked(M)
<1>1. /\ i \in Taken(L) /\ L.reservations[i].list = Vacant /\ L.reservations[i].account = a
      /\ L.reservations[i] \in Reservation /\ Taken(M) = Taken(L) /\ NIL \notin Taken(L)
  BY TakenTyped, LedgerConstants DEF Chained, Commits, Taken
<1>2. \A j \in Taken(L) : /\ M.reservations[j].owner = L.reservations[j].owner
                          /\ M.reservations[j].account = L.reservations[j].account
                          /\ L.reservations[j].owner \in Owners
  BY TakenTyped DEF Commits, SameClaim, Reservation
<1>3. \A j \in Taken(L) : j # i => /\ M.reservations[j].list = L.reservations[j].list
                                   /\ M.reservations[j].amount = L.reservations[j].amount
  BY DEF Commits, SameClaim
<1>4. M.reservations[i].list = r /\ r # Vacant /\ M.reservations[i].amount = keep
  BY LedgerConstants DEF Commits
<1>5. OwnersIn(M)
  <2>1. ASSUME NEW j \in Taken(M)
        PROVE  OpenIn(M, M.reservations[j].owner) /\ ClaimIn(M, M.reservations[j].owner) = j
    BY <1>1, <1>2 DEF Booked, OwnersIn, SameOwners
  <2>2. ASSUME NEW p \in Owners, OpenIn(M, p), ClaimIn(M, p) # NIL
        PROVE  ClaimIn(M, p) \in Taken(M) /\ M.reservations[ClaimIn(M, p)].owner = p
    <3>1. OpenIn(L, p) /\ ClaimIn(M, p) = ClaimIn(L, p)
      BY <2>2 DEF SameOwners
    <3>2. ClaimIn(L, p) \in Taken(L) /\ L.reservations[ClaimIn(L, p)].owner = p
      BY <2>2, <3>1 DEF Booked, OwnersIn
    <3> QED BY <1>1, <1>2, <3>1, <3>2
  <2> QED BY <2>1, <2>2 DEF OwnersIn
<1>6. ASSUME NEW b \in Accounts
      PROVE  /\ M.accounts[b].reserved = Total(M, Chained(M, b))
             /\ M.accounts[b].committed = Total(M, HeldBy(M, b))
  <2>1. /\ L.accounts[b].reserved = Total(L, Chained(L, b))
        /\ L.accounts[b].committed = Total(L, HeldBy(L, b))
    BY DEF Booked, TotalsIn
  <2>2. /\ Chained(M, b) = Chained(L, b) \ {i}
        /\ HeldBy(M, b) = IF b = a THEN HeldBy(L, b) \cup {i} ELSE HeldBy(L, b)
        /\ i \notin HeldBy(L, b)
    BY <1>1, <1>2, <1>3, <1>4 DEF Chained, HeldBy
  <2>3. /\ \A j \in Chained(L, b) \ {i} : M.reservations[j].amount = L.reservations[j].amount
        /\ \A j \in HeldBy(L, b) : M.reservations[j].amount = L.reservations[j].amount
    BY <1>3, <2>2 DEF Chained, HeldBy
  <2>4. /\ Total(M, Chained(M, b)) = Total(L, Chained(L, b) \ {i})
        /\ Total(M, HeldBy(L, b)) = Total(L, HeldBy(L, b))
    BY <2>2, <2>3, TotalSame
  <2>5. CASE b = a
    <3>1. /\ Chained(L, b) \in SUBSET Taken(L) /\ i \in Chained(L, b)
          /\ Chained(L, b) \ {i} \in SUBSET Taken(L) /\ HeldBy(L, b) \in SUBSET Taken(L)
          /\ HeldBy(M, b) \in SUBSET Taken(M) /\ i \in HeldBy(M, b)
          /\ HeldBy(M, b) \ {i} = HeldBy(L, b)
      BY <2>2, <2>5 DEF Chained, HeldBy
    <3>2. /\ Total(L, Chained(L, b)) = L.reservations[i].amount + Total(L, Chained(L, b) \ {i})
          /\ L.reservations[i].amount \in Nat /\ Total(L, Chained(L, b) \ {i}) \in Nat
          /\ Total(L, HeldBy(L, b)) \in Nat
      BY <3>1, TotalParts
    <3>3. Total(M, HeldBy(M, b)) = keep + Total(M, HeldBy(L, b))
      BY <1>4, <3>1, TotalParts
    <3>4. /\ M.accounts[b].reserved = Minus(L.accounts[b].reserved, L.reservations[i].amount)
          /\ M.accounts[b].committed = L.accounts[b].committed + keep
      BY <2>5 DEF Stores
    <3>5. M.accounts[b].reserved = Total(L, Chained(L, b) \ {i})
      BY <2>1, <3>2, <3>4 DEF Minus
    <3>6. M.accounts[b].committed = Total(M, HeldBy(M, b))
      BY <2>1, <2>4, <3>2, <3>3, <3>4
    <3> QED BY <2>4, <3>5, <3>6
  <2>6. CASE b # a
    <3>1. Chained(L, b) \ {i} = Chained(L, b)
      BY <1>1, <2>6 DEF Chained
    <3>2. /\ M.accounts[b].reserved = L.accounts[b].reserved
          /\ M.accounts[b].committed = L.accounts[b].committed
      BY <2>6 DEF Stores
    <3> QED BY <2>1, <2>2, <2>4, <2>6, <3>1, <3>2
  <2> QED BY <2>5, <2>6
<1>7. ASSUME NEW p \in RequestSlots, M.requests[p] = Vacant PROVE Listed(M, p) = {}
  <2>1. L.requests[p] = Vacant
    BY <1>7, RequestOpen
  <2>2. Listed(L, p) = {} /\ p # r
    BY <2>1 DEF Booked, ClosedIn
  <2> QED BY <1>1, <1>3, <1>4, <2>2 DEF Listed
<1> QED BY <1>5, <1>6, <1>7 DEF Booked, TotalsIn, ClosedIn

-----------------------------------------------------------------------------
(* The operations                                                          *)

\* The stored totals of an account change, and the ends of its chain do not.
LEMMA AccountStored ==
  ASSUME NEW L \in Ledgers, NEW a \in Accounts, NEW reserved \in Nat, NEW committed \in Nat,
         NEW e, e.free = L.accounts[a].free, e.reserved = reserved, e.committed = committed,
         e.expiry_head = HeadOf(L, a), e.expiry_tail = TailOf(L, a), e \in Account
  PROVE  LET M == [L EXCEPT !.accounts[a] = e]
         IN  /\ M \in Ledgers
             /\ M.reservations = L.reservations /\ M.requests = L.requests /\ M.quotes = L.quotes
             /\ Stores(L, M, a, reserved, committed)
             /\ \A b \in Accounts : HeadOf(M, b) = HeadOf(L, b) /\ TailOf(M, b) = TailOf(L, b)
<1> DEFINE M == [L EXCEPT !.accounts[a] = e]
<1>1. /\ M \in Ledgers
      /\ M.reservations = L.reservations /\ M.requests = L.requests /\ M.quotes = L.quotes
      /\ \A b \in Accounts : M.accounts[b] = IF b = a THEN e ELSE L.accounts[b]
  BY AccountSet
<1> HIDE DEF M
<1>2. Stores(L, M, a, reserved, committed)
  BY <1>1 DEF Stores
<1>3. \A b \in Accounts : HeadOf(M, b) = HeadOf(L, b) /\ TailOf(M, b) = TailOf(L, b)
  BY <1>1 DEF HeadOf, TailOf
<1> QED BY <1>1, <1>2, <1>3 DEF M

\* Telling an owner disturbs no link.
LEMMA ToldLinks ==
  ASSUME NEW L, NEW off, LinksIn(L, off), NEW o \in Owners, OpenIn(L, o), NEW x \in Link
  PROVE  LET M == SetOwnerClaim(L, o, x)
         IN  /\ LinksIn(M, off) /\ Taken(M) = Taken(L)
             /\ M.accounts = L.accounts /\ M.reservations = L.reservations
             /\ SameOwners(L, M, Owners \ {o}) /\ ClaimIn(M, o) = x
             /\ SameRequests(L, M)
<1> DEFINE M == SetOwnerClaim(L, o, x)
<1>1. L \in Ledgers
  BY DEF LinksIn
<1>2. /\ M \in Ledgers /\ M.accounts = L.accounts /\ M.reservations = L.reservations
      /\ SameOwners(L, M, Owners \ {o}) /\ ClaimIn(M, o) = x /\ SameRequests(L, M)
  BY <1>1, OwnerTold
<1> HIDE DEF M
<1>3. \A r \in RequestSlots : M.requests[r] # Vacant =>
        L.requests[r] # Vacant /\ ListHead(M, r) = ListHead(L, r)
  BY <1>2, RequestOpen DEF SameRequests
<1>4. \A a \in Accounts : HeadOf(M, a) = HeadOf(L, a) /\ TailOf(M, a) = TailOf(L, a)
  BY <1>2 DEF HeadOf, TailOf
<1>5. LinksIn(M, off) /\ Taken(M) = Taken(L)
  BY <1>2, <1>3, <1>4, SameLinks
<1> QED BY <1>2, <1>5 DEF M

\* A claim stored, spliced into its account's chain, counted and given to its owner.
LEMMA ClaimLinked ==
  ASSUME NEW L, Sound(L), NEW i \in ResSlots \ Taken(L), NEW a \in Accounts, NEW n \in Nat,
         NEW t \in Times, NEW o \in Owners, OpenIn(L, o), ClaimIn(L, o) = NIL
  PROVE  LET M == LinkClaim(L, i, a, n, t, o)
         IN  /\ Sound(M) /\ Gains(L, M, i)
             /\ M.reservations[i].account = a /\ M.reservations[i].amount = n
             /\ M.reservations[i].owner = o /\ M.reservations[i].expires_at = t
             /\ \A b \in Accounts : M.accounts[b].free = L.accounts[b].free
<1> DEFINE c == [account |-> a, amount |-> n, owner |-> o, expires_at |-> t,
                 list |-> Vacant, prev |-> NIL, next |-> NIL]
           S1 == [L EXCEPT !.reservations[i] = c]
           S2 == SpliceAfter(S1, a, i, InsertAfter(S1, a, t))
           e == [S2.accounts[a] EXCEPT !.reserved = @ + n]
           S3 == [S2 EXCEPT !.accounts[a] = e]
           M == SetOwnerClaim(S3, o, i)
<1>1. L \in Ledgers /\ LinksIn(L, {}) /\ Booked(L)
  BY DEF Sound, LinksIn
<1>2. /\ c \in Reservation /\ c.list = Vacant /\ c.expires_at = t /\ t # Vacant /\ c # Vacant
      /\ c.account = a /\ c.amount = n /\ c.owner = o /\ i \in Link
  BY LedgerConstants DEF Reservation, Link
<1>3. LinkClaim(L, i, a, n, t, o) = M
  <2>1. LinkClaim(L, i, a, n, t, o)
          = SetOwnerClaim([S2 EXCEPT !.accounts[a].reserved = @ + n], o, i)
    BY DEF LinkClaim
  <2>2. [S2 EXCEPT !.accounts[a].reserved = @ + n] = S3
    <3> HIDE DEF S2
    <3> QED OBVIOUS
  <2> QED BY <2>1, <2>2
<1> HIDE DEF c
<1>4. /\ S1 \in Ledgers
      /\ S1.accounts = L.accounts /\ S1.requests = L.requests /\ S1.quotes = L.quotes
      /\ \A j \in ResSlots : S1.reservations[j] = IF j = i THEN c ELSE L.reservations[j]
  BY <1>1, <1>2, ClaimSet
<1>5. LinksIn(S1, {i})
  BY <1>1, <1>2, StoreLinks
<1> HIDE DEF S1
<1>6. Taken(S1) = Taken(L) \cup {i} /\ i \in Chained(S1, a) /\ S1.reservations[i].expires_at = t
  BY <1>2, <1>4 DEF Taken, Chained
<1>7. Relinks(S1, S2, a) /\ LinksIn(S2, {})
  BY <1>5, <1>6, SpliceLinks
<1> HIDE DEF S2
<1>8. /\ S2 \in Ledgers /\ S2.requests = L.requests /\ S2.quotes = L.quotes
      /\ Taken(S2) = Taken(L) \cup {i}
      /\ \A b \in Accounts : SameStored(S2.accounts[b], L.accounts[b])
      /\ \A j \in Taken(S2) : SameClaim(S2.reservations[j], S1.reservations[j])
  BY <1>4, <1>6, <1>7 DEF Relinks
<1>9. /\ S2.accounts[a] \in Account /\ S2.accounts[a].reserved = L.accounts[a].reserved
      /\ S2.accounts[a].committed = L.accounts[a].committed
      /\ L.accounts[a].reserved \in Nat /\ L.accounts[a].committed \in Nat
      /\ L.accounts[a].reserved + n \in Nat
  BY <1>1, <1>8 DEF Ledgers, SameStored, Account
<1>10. /\ e \in Account /\ e.free = S2.accounts[a].free
       /\ e.reserved = L.accounts[a].reserved + n /\ e.committed = L.accounts[a].committed
       /\ e.expiry_head = HeadOf(S2, a) /\ e.expiry_tail = TailOf(S2, a)
  BY <1>9 DEF Account, HeadOf, TailOf
<1> HIDE DEF e
<1>11. /\ S3 \in Ledgers
       /\ S3.reservations = S2.reservations /\ S3.requests = S2.requests /\ S3.quotes = S2.quotes
       /\ Stores(S2, S3, a, L.accounts[a].reserved + n, L.accounts[a].committed)
       /\ \A b \in Accounts : HeadOf(S3, b) = HeadOf(S2, b) /\ TailOf(S3, b) = TailOf(S2, b)
  <2> DEFINE raised == L.accounts[a].reserved + n
             held == L.accounts[a].committed
  <2>1. raised \in Nat /\ held \in Nat /\ e.reserved = raised /\ e.committed = held
    BY <1>9, <1>10
  <2> HIDE DEF raised, held
  <2>2. /\ S3 \in Ledgers
        /\ S3.reservations = S2.reservations /\ S3.requests = S2.requests /\ S3.quotes = S2.quotes
        /\ Stores(S2, S3, a, raised, held)
        /\ \A b \in Accounts : HeadOf(S3, b) = HeadOf(S2, b) /\ TailOf(S3, b) = TailOf(S2, b)
    BY <1>8, <1>10, <2>1, AccountStored
  <2> QED BY <2>2 DEF raised, held
<1> HIDE DEF S3
<1>12. \A r \in RequestSlots : ListHead(S3, r) = ListHead(S2, r)
  BY <1>11 DEF ListHead
<1>13. LinksIn(S3, {}) /\ Taken(S3) = Taken(S2)
  BY <1>7, <1>11, <1>12, SameLinks
<1>14. OpenIn(S3, o)
  BY <1>8, <1>11 DEF OpenIn
<1>15. /\ LinksIn(M, {}) /\ Taken(M) = Taken(S3)
       /\ M.accounts = S3.accounts /\ M.reservations = S3.reservations
       /\ SameOwners(S3, M, Owners \ {o}) /\ ClaimIn(M, o) = i
  BY <1>2, <1>13, <1>14, ToldLinks
<1> HIDE DEF M
<1>16. SameOwners(L, M, Owners \ {o})
  BY <1>8, <1>11, <1>15 DEF SameOwners, OpenIn, ClaimIn
<1>17. Stores(L, M, a, L.accounts[a].reserved + n, L.accounts[a].committed)
  BY <1>8, <1>11, <1>15 DEF Stores, SameStored
<1>18. /\ M.reservations[i].account = a /\ M.reservations[i].amount = n
       /\ M.reservations[i].owner = o /\ M.reservations[i].expires_at = t
       /\ M.reservations[i].list = Vacant
  BY <1>2, <1>4, <1>8, <1>11, <1>15 DEF SameClaim
<1>19. Taken(M) = Taken(L) \cup {i}
  BY <1>8, <1>13, <1>15
<1>20. ASSUME NEW j \in Taken(L) PROVE SameClaim(M.reservations[j], L.reservations[j])
  <2>1. S1.reservations[j] = L.reservations[j] /\ j \in Taken(S2)
    BY <1>4, <1>8 DEF Taken
  <2> QED BY <1>8, <1>11, <1>15, <2>1
<1>21. Gains(L, M, i)
  BY <1>18, <1>19, <1>20 DEF Gains
<1>22. M \in Ledgers
  BY <1>15 DEF LinksIn
<1>23. Booked(M)
  BY <1>1, <1>15, <1>16, <1>17, <1>18, <1>21, <1>22, BookedGains
<1> QED BY <1>3, <1>15, <1>17, <1>18, <1>21, <1>23 DEF Sound, Stores

\* A reserved claim off its chain, its total and its owner, and its slot vacant.
LEMMA ReservedDropped ==
  ASSUME NEW L, Sound(L), NEW a \in Accounts, NEW i \in Chained(L, a)
  PROVE  LET M == DropReserved(L, i)
         IN  /\ Sound(M) /\ Loses(L, M, {i})
             /\ \A b \in Accounts : M.accounts[b].free = L.accounts[b].free
<1> DEFINE c == L.reservations[i]
           U1 == UnlinkFromChain(L, a, i)
           U2 == SetOwnerClaim(U1, c.owner, NIL)
           e == [U2.accounts[a] EXCEPT !.reserved = Minus(@, c.amount)]
           U3 == [U2 EXCEPT !.accounts[a] = e]
           M == [U3 EXCEPT !.reservations[i] = Vacant]
<1>1. L \in Ledgers /\ LinksIn(L, {}) /\ Booked(L)
  BY DEF Sound, LinksIn
<1>2. /\ i \in Taken(L) /\ i \in ResSlots /\ c \in Reservation
      /\ c.list = Vacant /\ c.account = a /\ c.owner \in Owners /\ c.amount \in Nat /\ NIL \in Link
  BY <1>1, TakenTyped DEF Chained, Reservation, Link
<1>3. DropReserved(L, i) = M
  <2>1. DropReserved(L, i) = [U2 EXCEPT !.accounts[a].reserved = Minus(@, c.amount),
                                        !.reservations[i] = Vacant]
    BY <1>2 DEF DropReserved
  <2>2. [U2 EXCEPT !.accounts[a].reserved = Minus(@, c.amount), !.reservations[i] = Vacant] = M
    <3> HIDE DEF U2
    <3> QED OBVIOUS
  <2> QED BY <2>1, <2>2
<1> HIDE DEF c
<1>4. Relinks(L, U1, a) /\ LinksIn(U1, {i})
  BY <1>1, UnlinkLinks
<1> HIDE DEF U1
<1>5. /\ U1 \in Ledgers /\ U1.requests = L.requests /\ U1.quotes = L.quotes
      /\ Taken(U1) = Taken(L)
      /\ \A b \in Accounts : SameStored(U1.accounts[b], L.accounts[b])
      /\ \A j \in Taken(L) : SameClaim(U1.reservations[j], L.reservations[j])
  BY <1>4 DEF Relinks
<1>6. OpenIn(L, c.owner) /\ OpenIn(U1, c.owner)
  BY <1>1, <1>2, <1>5 DEF Booked, OwnersIn, OpenIn, c
<1>7. /\ LinksIn(U2, {i}) /\ Taken(U2) = Taken(U1)
      /\ U2.accounts = U1.accounts /\ U2.reservations = U1.reservations
      /\ SameOwners(U1, U2, Owners \ {c.owner}) /\ ClaimIn(U2, c.owner) = NIL
  BY <1>2, <1>4, <1>6, ToldLinks
<1> HIDE DEF U2
<1>8. /\ U2 \in Ledgers
      /\ U2.accounts[a] \in Account /\ U2.accounts[a].reserved = L.accounts[a].reserved
      /\ U2.accounts[a].committed = L.accounts[a].committed
      /\ L.accounts[a].reserved \in Nat /\ L.accounts[a].committed \in Nat
      /\ Minus(L.accounts[a].reserved, c.amount) \in Nat
  <2>1. U2 \in Ledgers
    BY <1>7 DEF LinksIn
  <2>2. U2.accounts[a] \in Account /\ U2.accounts[a].reserved = L.accounts[a].reserved
        /\ U2.accounts[a].committed = L.accounts[a].committed
    BY <1>5, <1>7, <2>1 DEF Ledgers, SameStored
  <2>3. L.accounts[a].reserved \in Nat /\ L.accounts[a].committed \in Nat
    BY <1>1 DEF Ledgers, Account
  <2> QED BY <1>2, <2>1, <2>2, <2>3 DEF Minus
<1>9. /\ e \in Account /\ e.free = U2.accounts[a].free
      /\ e.reserved = Minus(L.accounts[a].reserved, c.amount)
      /\ e.committed = L.accounts[a].committed
      /\ e.expiry_head = HeadOf(U2, a) /\ e.expiry_tail = TailOf(U2, a)
  BY <1>8 DEF Account, HeadOf, TailOf
<1> HIDE DEF e
<1>10. /\ U3 \in Ledgers
       /\ U3.reservations = U2.reservations /\ U3.requests = U2.requests /\ U3.quotes = U2.quotes
       /\ Stores(U2, U3, a, Minus(L.accounts[a].reserved, c.amount), L.accounts[a].committed)
       /\ \A b \in Accounts : HeadOf(U3, b) = HeadOf(U2, b) /\ TailOf(U3, b) = TailOf(U2, b)
  BY <1>8, <1>9, AccountStored
<1> HIDE DEF U3
<1>11. \A r \in RequestSlots : ListHead(U3, r) = ListHead(U2, r)
  BY <1>10 DEF ListHead
<1>12. LinksIn(U3, {i}) /\ Taken(U3) = Taken(U2)
  BY <1>7, <1>10, <1>11, SameLinks
<1>13. /\ M \in Ledgers
       /\ M.accounts = U3.accounts /\ M.requests = U3.requests /\ M.quotes = U3.quotes
       /\ \A j \in ResSlots : M.reservations[j] = IF j = i THEN Vacant ELSE U3.reservations[j]
  BY <1>2, <1>10, ClaimSet
<1>14. LinksIn(M, {})
  BY <1>2, <1>12, VacateLinks
<1> HIDE DEF M
<1>15. Taken(M) = Taken(L) \ {i}
  <2>1. Taken(M) = Taken(U3) \ {i}
    BY <1>13 DEF Taken
  <2> QED BY <1>5, <1>7, <1>12, <2>1
<1>16. ASSUME NEW j \in Taken(M) PROVE SameClaim(M.reservations[j], L.reservations[j])
  <2>1. j \in Taken(L) /\ j # i /\ j \in ResSlots
    BY <1>15 DEF Taken
  <2> QED BY <1>5, <1>7, <1>10, <1>13, <2>1
<1>17. Loses(L, M, {i})
  BY <1>2, <1>15, <1>16 DEF Loses
<1>18. Stores(L, M, a, Minus(L.accounts[a].reserved, c.amount), L.accounts[a].committed)
  BY <1>5, <1>7, <1>10, <1>13 DEF Stores, SameStored
<1>19. SameOwners(L, M, Owners \ {c.owner}) /\ ClaimIn(M, c.owner) = NIL
  BY <1>5, <1>7, <1>10, <1>13 DEF SameOwners, OpenIn, ClaimIn
<1>20. Booked(M)
  BY <1>1, <1>2, <1>13, <1>17, <1>18, <1>19, BookedLoses DEF c
<1> QED BY <1>3, <1>14, <1>17, <1>18, <1>20 DEF Sound, Stores

\* A claim off its chain keeps what it is of when its amount changes.
LEMMA ShrunkLinks ==
  ASSUME NEW L, NEW i \in Taken(L), LinksIn(L, {i}), NEW d \in Reservation,
         d.list = Vacant, L.reservations[i].list = Vacant,
         d.expires_at = L.reservations[i].expires_at
  PROVE  LinksIn([L EXCEPT !.reservations[i] = d], {i})
<1> DEFINE V == [L EXCEPT !.reservations[i] = Vacant]
           M == [V EXCEPT !.reservations[i] = d]
<1>1. L \in Ledgers /\ i \in ResSlots
  BY DEF LinksIn, Taken
<1>2. d.expires_at # Vacant
  BY DEF LinksIn, StatesIn
<1>3. \A j \in ResSlots : V.reservations[j] = IF j = i THEN Vacant ELSE L.reservations[j]
  <2>1. Vacant \in Reservation \cup {Vacant}
    OBVIOUS
  <2> HIDE DEF M
  <2> QED BY ONLY <1>1, <2>1, ClaimSet DEF V
<1>4. LinksIn(V, {})
  BY <1>1, VacateLinks
<1>5. M = [L EXCEPT !.reservations[i] = d]
  BY <1>1 DEF Ledgers
<1> HIDE DEF V
<1>6. i \in ResSlots \ Taken(V)
  BY <1>1, <1>3 DEF Taken
<1>7. LinksIn(M, {i})
  BY <1>2, <1>4, <1>6, StoreLinks
<1> HIDE DEF M
<1> QED BY <1>5, <1>7

\* A claim off its chain, shrunk to what is kept, on a request's list, and counted there.
LEMMA ClaimCommitted ==
  ASSUME NEW L, Sound(L), NEW a \in Accounts, NEW i \in Chained(L, a),
         NEW r \in RequestSlots, L.requests[r] # Vacant, NEW keep \in Nat
  PROVE  LET M == Committed(L, i, r, keep)
         IN  /\ Sound(M) /\ Commits(L, M, i, r, keep)
             /\ \A b \in Accounts : M.accounts[b].free = L.accounts[b].free
<1> DEFINE c == L.reservations[i]
           K1 == UnlinkFromChain(L, a, i)
           d == [K1.reservations[i] EXCEPT !.amount = keep]
           K2 == [K1 EXCEPT !.reservations[i] = d]
           K3 == LinkIntoCommittedList(K2, r, i)
           e == [K3.accounts[a] EXCEPT !.reserved = Minus(@, c.amount), !.committed = @ + keep]
           M == [K3 EXCEPT !.accounts[a] = e]
<1>1. L \in Ledgers /\ LinksIn(L, {}) /\ Booked(L)
  BY DEF Sound, LinksIn
<1>2. /\ i \in Taken(L) /\ i \in ResSlots /\ c \in Reservation
      /\ c.list = Vacant /\ c.account = a /\ c.owner \in Owners /\ c.amount \in Nat
  BY <1>1, TakenTyped DEF Chained, Reservation
<1>3. Committed(L, i, r, keep) = M
  <2>1. [K1 EXCEPT !.reservations[i].amount = keep] = K2
    <3> HIDE DEF K1
    <3> QED OBVIOUS
  <2>2. Committed(L, i, r, keep)
          = [LinkIntoCommittedList([K1 EXCEPT !.reservations[i].amount = keep], r, i)
               EXCEPT !.accounts[a].reserved = Minus(@, c.amount),
                      !.accounts[a].committed = @ + keep]
    BY <1>2 DEF Committed
  <2> HIDE DEF K1, K2
  <2>3. Committed(L, i, r, keep)
          = [K3 EXCEPT !.accounts[a].reserved = Minus(@, c.amount),
                       !.accounts[a].committed = @ + keep]
    BY <2>1, <2>2
  <2> HIDE DEF K3
  <2>4. M = [K3 EXCEPT !.accounts[a].reserved = Minus(@, c.amount),
                       !.accounts[a].committed = @ + keep]
    OBVIOUS
  <2> QED BY <2>3, <2>4
<1> HIDE DEF c
<1>4. Relinks(L, K1, a) /\ LinksIn(K1, {i})
  BY <1>1, UnlinkLinks
<1> HIDE DEF K1
<1>5. /\ K1 \in Ledgers /\ K1.requests = L.requests /\ K1.quotes = L.quotes
      /\ Taken(K1) = Taken(L)
      /\ \A b \in Accounts : SameStored(K1.accounts[b], L.accounts[b])
      /\ \A j \in Taken(L) : SameClaim(K1.reservations[j], L.reservations[j])
  BY <1>4 DEF Relinks
<1>6. K1.reservations[i] \in Reservation /\ SameClaim(K1.reservations[i], c)
  BY <1>2, <1>5, TakenTyped DEF c
<1>7. /\ d \in Reservation /\ d.amount = keep /\ d.account = a /\ d.owner = c.owner
      /\ d.list = Vacant /\ d.expires_at = K1.reservations[i].expires_at
      /\ K1.reservations[i].list = Vacant
  BY <1>2, <1>6 DEF Reservation, SameClaim
<1> HIDE DEF d
<1>8. LinksIn(K2, {i})
  BY <1>2, <1>4, <1>5, <1>7, ShrunkLinks
<1>9. /\ K2 \in Ledgers
      /\ K2.accounts = K1.accounts /\ K2.requests = K1.requests /\ K2.quotes = K1.quotes
      /\ \A j \in ResSlots : K2.reservations[j] = IF j = i THEN d ELSE K1.reservations[j]
  BY <1>2, <1>5, <1>7, ClaimSet
<1> HIDE DEF K2
<1>10. Taken(K2) = Taken(L) /\ i \in Chained(K2, a)
  <2>1. d # Vacant
    BY <1>7, LedgerConstants
  <2> QED BY <1>2, <1>5, <1>7, <1>9, <2>1 DEF Taken, Chained
<1>11. Lists(K2, K3, r, i) /\ LinksIn(K3, {})
  BY <1>5, <1>8, <1>9, <1>10, ListedLinks
<1> HIDE DEF K3
<1>12. K3 \in Ledgers /\ K3.accounts = K1.accounts
  BY <1>9, <1>11 DEF LinksIn, Lists
<1>13. /\ K3.accounts[a] \in Account /\ K3.accounts[a].reserved = L.accounts[a].reserved
       /\ K3.accounts[a].committed = L.accounts[a].committed
       /\ L.accounts[a].reserved \in Nat /\ L.accounts[a].committed \in Nat
  BY <1>1, <1>5, <1>12 DEF Ledgers, SameStored, Account
<1> DEFINE reserved == Minus(L.accounts[a].reserved, c.amount)
           held == L.accounts[a].committed + keep
<1>14. reserved \in Nat /\ held \in Nat
  BY <1>2, <1>13 DEF Minus
<1>15. /\ e \in Account /\ e.free = K3.accounts[a].free
       /\ e.reserved = reserved /\ e.committed = held
       /\ e.expiry_head = HeadOf(K3, a) /\ e.expiry_tail = TailOf(K3, a)
  BY <1>13, <1>14 DEF Account, HeadOf, TailOf
<1> HIDE DEF e, reserved, held
<1>16. /\ M \in Ledgers
       /\ M.reservations = K3.reservations /\ M.requests = K3.requests /\ M.quotes = K3.quotes
       /\ Stores(K3, M, a, reserved, held)
       /\ \A b \in Accounts : HeadOf(M, b) = HeadOf(K3, b) /\ TailOf(M, b) = TailOf(K3, b)
  BY <1>12, <1>14, <1>15, AccountStored
<1> HIDE DEF M
<1>17. \A p \in RequestSlots : ListHead(M, p) = ListHead(K3, p)
  BY <1>16 DEF ListHead
<1>18. LinksIn(M, {}) /\ Taken(M) = Taken(K3)
  BY <1>11, <1>16, <1>17, SameLinks
<1>19. Taken(M) = Taken(L)
  BY <1>10, <1>11, <1>18 DEF Lists
<1>20. ASSUME NEW j \in Taken(L) \ {i} PROVE SameClaim(M.reservations[j], L.reservations[j])
  <2>1. K2.reservations[j] = K1.reservations[j]
    BY <1>9 DEF Taken
  <2>2. SameClaim(K3.reservations[j], K2.reservations[j])
    BY <1>10, <1>11 DEF Lists
  <2> QED BY <1>5, <1>16, <2>1, <2>2 DEF SameClaim
<1>21. K2.reservations[i] = d
  BY <1>2, <1>9
<1>22. Commits(L, M, i, r, keep)
  BY <1>2, <1>7, <1>11, <1>16, <1>19, <1>20, <1>21 DEF Commits, Lists, c
<1>23. Stores(L, M, a, reserved, held)
  BY <1>5, <1>12, <1>16 DEF Stores, SameStored
<1>24. SameOwners(L, M, Owners)
  BY <1>5, <1>9, <1>11, <1>16, LedgerConstants DEF SameOwners, OpenIn, ClaimIn, Lists, Owners
<1>25. Booked(M)
  BY <1>1, <1>16, <1>22, <1>23, <1>24, BookedCommits DEF reserved, held, c
<1> QED BY <1>3, <1>18, <1>22, <1>23, <1>25 DEF Sound, Stores

\* The same claims and totals, and owners that hold what they held.
LEMMA BookedKept ==
  ASSUME NEW L, Booked(L), NEW M, M.reservations = L.reservations,
         \A a \in Accounts : /\ M.accounts[a].reserved = L.accounts[a].reserved
                             /\ M.accounts[a].committed = L.accounts[a].committed,
         \A o \in Owners : OpenIn(L, o) /\ ClaimIn(L, o) # NIL =>
           OpenIn(M, o) /\ ClaimIn(M, o) = ClaimIn(L, o),
         \A o \in Owners : OpenIn(M, o) /\ ClaimIn(M, o) # NIL =>
           OpenIn(L, o) /\ ClaimIn(M, o) = ClaimIn(L, o),
         \A r \in RequestSlots : M.requests[r] = Vacant => Listed(L, r) = {},
         L \in Ledgers
  PROVE  Booked(M)
<1>1. /\ Taken(M) = Taken(L)
      /\ \A a : Chained(M, a) = Chained(L, a) /\ HeldBy(M, a) = HeldBy(L, a)
      /\ \A r : Listed(M, r) = Listed(L, r)
  BY DEF Taken, Chained, HeldBy, Listed
<1>2. \A i \in Taken(L) : i # NIL /\ L.reservations[i].owner \in Owners
  BY TakenTyped, LedgerConstants DEF Reservation
<1>3. OwnersIn(M)
  BY <1>1, <1>2 DEF Booked, OwnersIn
<1>4. \A S : Total(M, S) = Total(L, S)
  BY TotalSame
<1>5. TotalsIn(M)
  BY <1>1, <1>4 DEF Booked, TotalsIn
<1> QED BY <1>1, <1>3, <1>5 DEF Booked, ClosedIn

\* A committed claim out of its total and off its owner, and its slot vacant.
Forgets(L, M, i) ==
  /\ M \in Ledgers /\ Taken(M) = Taken(L) \ {i}
  /\ \A j \in Taken(M) : M.reservations[j] = L.reservations[j]
  /\ \A a \in Accounts : /\ HeadOf(M, a) = HeadOf(L, a) /\ TailOf(M, a) = TailOf(L, a)
                         /\ M.accounts[a].free = L.accounts[a].free
  /\ SameOwners(L, M, {}) /\ SameRequests(L, M)

LEMMA CommittedDropped ==
  ASSUME NEW L \in Ledgers, Booked(L), NEW i \in Taken(L), L.reservations[i].list # Vacant
  PROVE  LET M == DropCommitted(L, i) IN Booked(M) /\ Forgets(L, M, i)
<1> DEFINE c == L.reservations[i]
           a == c.account
           U == SetOwnerClaim(L, c.owner, NIL)
           e == [U.accounts[a] EXCEPT !.committed = Minus(@, c.amount)]
           V == [U EXCEPT !.accounts[a] = e]
           M == [V EXCEPT !.reservations[i] = Vacant]
<1>1. /\ i \in ResSlots /\ c \in Reservation /\ a \in Accounts /\ c.owner \in Owners
      /\ c.amount \in Nat /\ NIL \in Link /\ OpenIn(L, c.owner)
  BY TakenTyped DEF Reservation, Link, Booked, OwnersIn
<1>2. DropCommitted(L, i) = M
  <2>1. DropCommitted(L, i) = [U EXCEPT !.accounts[a].committed = Minus(@, c.amount),
                                        !.reservations[i] = Vacant]
    BY DEF DropCommitted
  <2>2. [U EXCEPT !.accounts[a].committed = Minus(@, c.amount), !.reservations[i] = Vacant] = M
    <3> HIDE DEF U
    <3> QED OBVIOUS
  <2> QED BY <2>1, <2>2
<1> HIDE DEF c, a
<1>3. /\ U \in Ledgers /\ U.accounts = L.accounts /\ U.reservations = L.reservations
      /\ SameOwners(L, U, Owners \ {c.owner}) /\ ClaimIn(U, c.owner) = NIL
      /\ SameRequests(L, U)
  BY <1>1, OwnerTold
<1> HIDE DEF U
<1> DEFINE reserved == L.accounts[a].reserved
           held == Minus(L.accounts[a].committed, c.amount)
<1>4. /\ U.accounts[a] \in Account /\ U.accounts[a] = L.accounts[a]
      /\ reserved \in Nat /\ held \in Nat
  <2>1. L.accounts[a] \in Account
    BY <1>1 DEF Ledgers
  <2>2. L.accounts[a].reserved \in Nat /\ L.accounts[a].committed \in Nat
    BY <2>1 DEF Account
  <2> QED BY <1>1, <1>3, <2>1, <2>2 DEF Minus
<1>5. /\ e \in Account /\ e.free = U.accounts[a].free
      /\ e.reserved = reserved /\ e.committed = held
      /\ e.expiry_head = HeadOf(U, a) /\ e.expiry_tail = TailOf(U, a)
  BY <1>4 DEF Account, HeadOf, TailOf
<1> HIDE DEF e, reserved, held
<1>6. /\ V \in Ledgers
      /\ V.reservations = U.reservations /\ V.requests = U.requests /\ V.quotes = U.quotes
      /\ Stores(U, V, a, reserved, held)
      /\ \A b \in Accounts : HeadOf(V, b) = HeadOf(U, b) /\ TailOf(V, b) = TailOf(U, b)
  BY <1>1, <1>3, <1>4, <1>5, AccountStored
<1> HIDE DEF V
<1>7. /\ M \in Ledgers
      /\ M.accounts = V.accounts /\ M.requests = V.requests /\ M.quotes = V.quotes
      /\ \A j \in ResSlots : M.reservations[j] = IF j = i THEN Vacant ELSE V.reservations[j]
  BY <1>1, <1>6, ClaimSet
<1> HIDE DEF M
<1>8. Taken(M) = Taken(L) \ {i} /\ \A j \in Taken(M) : M.reservations[j] = L.reservations[j]
  BY <1>3, <1>6, <1>7 DEF Taken
<1>9. \A b \in Accounts : /\ HeadOf(M, b) = HeadOf(L, b) /\ TailOf(M, b) = TailOf(L, b)
                          /\ M.accounts[b].free = L.accounts[b].free
  BY <1>3, <1>6, <1>7 DEF HeadOf, TailOf, Stores
<1>10. SameOwners(L, M, Owners \ {c.owner}) /\ ClaimIn(M, c.owner) = NIL
  BY <1>3, <1>6, <1>7 DEF SameOwners, OpenIn, ClaimIn
<1>11. SameRequests(L, M)
  BY <1>3, <1>6, <1>7 DEF SameRequests, ListHead
<1>12. Stores(L, M, a, reserved, held)
  BY <1>3, <1>6, <1>7 DEF Stores
<1>13. Loses(L, M, {i})
  BY <1>8 DEF Loses, SameClaim
<1>14. Booked(M)
  BY <1>7, <1>10, <1>12, <1>13, BookedLoses DEF reserved, held, c, a
<1>15. Forgets(L, M, i)
  BY <1>7, <1>8, <1>9, <1>10, <1>11 DEF Forgets, SameOwners
<1> QED BY <1>2, <1>14, <1>15

\* The first m claims of a list are gone.
Cleared(L, M, s, m) ==
  /\ M \in Ledgers /\ Booked(M) /\ Taken(M) = Taken(L) \ {s[k] : k \in 1 .. m}
  /\ \A j \in Taken(M) : M.reservations[j] = L.reservations[j]
  /\ \A a \in Accounts : /\ HeadOf(M, a) = HeadOf(L, a) /\ TailOf(M, a) = TailOf(L, a)
                         /\ M.accounts[a].free = L.accounts[a].free
  /\ SameOwners(L, M, {}) /\ SameRequests(L, M)

LEMMA ClearedStep ==
  ASSUME NEW L, LinksIn(L, {}), NEW r \in RequestSlots, NEW n, NEW s, IsPath(s, n),
         Along(s, n) = Listed(L, r), Threads(s, n, Prev(L), Next(L), ListHead(L, r), At(s, n, n)),
         NEW m \in 0 .. n, m < n, NEW M, Cleared(L, M, s, m)
  PROVE  LET i == At(s, n, m + 1)
         IN  /\ i # NIL /\ Cleared(L, DropCommitted(M, i), s, m + 1)
             /\ M.reservations[i].next = At(s, n, m + 2)
<1> DEFINE i == s[m + 1]
           K == DropCommitted(M, i)
<1>1. /\ n \in Nat /\ m \in Nat /\ m + 1 \in 1 .. n /\ At(s, n, m + 1) = i
      /\ i \in ResSlots /\ i # NIL /\ i \in Listed(L, r)
  BY LedgerConstants DEF IsPath, At, Along
<1>2. \A k \in 1 .. m : s[k] # i
  BY <1>1 DEF IsPath
<1>3. i \in Taken(M) /\ M.reservations[i] = L.reservations[i]
  BY <1>1, <1>2 DEF Cleared, Listed
<1>4. M.reservations[i].list # Vacant
  BY <1>1, <1>3, LedgerConstants DEF Listed
<1>5. Booked(K) /\ Forgets(M, K, i)
  BY <1>3, <1>4, CommittedDropped DEF Cleared
<1>6. Next(L)[i] = At(s, n, m + 2)
  <2>1. (m + 1) + 1 = m + 2
    BY <1>1
  <2>2. Next(L)[s[m + 1]] = At(s, n, (m + 1) + 1)
    BY <1>1 DEF Threads
  <2> QED BY <2>1, <2>2
<1>7. M.reservations[i].next = At(s, n, m + 2)
  BY <1>1, <1>3, <1>6 DEF Next
<1>8. {s[k] : k \in 1 .. m + 1} = {s[k] : k \in 1 .. m} \cup {i}
  <2>1. 1 .. m + 1 = 1 .. m \cup {m + 1}
    BY <1>1
  <2> QED BY <2>1
<1> HIDE DEF i, K
<1>9. Taken(K) = Taken(L) \ {s[k] : k \in 1 .. m + 1}
  BY <1>5, <1>8 DEF Forgets, Cleared
<1>10. \A j \in Taken(K) : j \in Taken(M) /\ K.reservations[j] = L.reservations[j]
  BY <1>5 DEF Forgets, Cleared
<1>11. SameOwners(L, K, {})
  BY <1>5 DEF Forgets, Cleared, SameOwners
<1>12. SameRequests(L, K)
  <2>1. \A q \in QuoteSlots : q \in Owners /\ (L.quotes[q] # Vacant => M.quotes[q] # Vacant)
    BY DEF Cleared, SameOwners, OpenIn, Owners
  <2>2. \A p \in RequestSlots : L.requests[p] # Vacant => M.requests[p] # Vacant
    BY RequestOpen DEF Cleared
  <2> QED BY <1>5, <2>1, <2>2 DEF Forgets, Cleared, SameRequests
<1>13. Cleared(L, K, s, m + 1)
  BY <1>5, <1>9, <1>10, <1>11, <1>12 DEF Cleared, Forgets
<1> QED BY <1>1, <1>7, <1>13 DEF K

\* Every claim of the list goes, and no other.
LEMMA DischargedClears ==
  ASSUME NEW L, Sound(L), NEW r \in RequestSlots, L.requests[r] # Vacant,
         NEW own \in ResSlots, own = L.requests[r].claim, L.reservations[own].list = r
  PROVE  LET M == Discharged(L, r)
         IN  /\ Sound(M) /\ Loses(L, M, Listed(L, r))
             /\ \A a \in Accounts : M.accounts[a].free = L.accounts[a].free
<1> DEFINE N == Cardinality(ResSlots)
           head == L.requests[r].committed_head
           After(x) == IF x.cursor = NIL THEN x
                       ELSE [left |-> DropCommitted(x.left, x.cursor),
                             cursor |-> x.left.reservations[x.cursor].next]
           Solves(w) == w = [k \in 0 .. N |->
                               IF k = 0 THEN [left |-> L, cursor |-> head]
                               ELSE LET before == w[k - 1]
                                    IN  IF before.cursor = NIL THEN before
                                        ELSE [left |-> DropCommitted(before.left, before.cursor),
                                              cursor |-> before.left.reservations[before.cursor].next]]
<1>1. L \in Ledgers /\ LinksIn(L, {}) /\ Booked(L)
  BY DEF Sound, LinksIn
<1>2. PICK n, s : /\ IsPath(s, n) /\ Along(s, n) = Listed(L, r)
                  /\ Threads(s, n, Prev(L), Next(L), ListHead(L, r), At(s, n, n))
  BY <1>1 DEF LinksIn, ListsIn, ListLinks
<1> DEFINE Fits(x, m) == Cleared(L, x.left, s, m) /\ x.cursor = At(s, n, m + 1)
           X == {x \in [left : Ledgers, cursor : Link] : \E m \in 0 .. n : Fits(x, m)}
           G == [y \in (1 .. N) \X X |-> After(y[2])]
           base == [left |-> L, cursor |-> head]
<1>3. N \in Nat /\ n \in Nat /\ n <= N
  BY <1>2, PathLength, FS_CardinalityType, LedgerConstants DEF IsPath
<1>4. \A k : At(s, n, k) \in Link
  BY <1>2 DEF At, IsPath, Link
<1>5. base \in [left : Ledgers, cursor : Link] /\ Fits(base, 0)
  <2>1. head = At(s, n, 0 + 1)
    BY <1>2 DEF Threads, ListHead
  <2>2. {s[k] : k \in 1 .. 0} = {}
    OBVIOUS
  <2>3. Cleared(L, L, s, 0)
    BY <1>1, <2>2 DEF Cleared, SameOwners, SameRequests
  <2> QED BY <1>1, <1>4, <2>1, <2>3
<1>6. ASSUME NEW x \in [left : Ledgers, cursor : Link], NEW m \in 0 .. n, Fits(x, m)
      PROVE  /\ After(x) \in [left : Ledgers, cursor : Link]
             /\ m = n => After(x) = x
             /\ m < n => Fits(After(x), m + 1)
  <2>1. CASE m = n
    <3>1. x.cursor = NIL
      BY <1>3, <1>6, <2>1 DEF At
    <3> QED BY <2>1, <3>1
  <2>2. CASE m < n
    <3>1. /\ x.cursor # NIL /\ x.cursor = At(s, n, m + 1)
          /\ Cleared(L, DropCommitted(x.left, x.cursor), s, m + 1)
          /\ x.left.reservations[x.cursor].next = At(s, n, m + 2)
      BY <1>1, <1>2, <1>6, <2>2, ClearedStep
    <3>2. After(x) = [left |-> DropCommitted(x.left, x.cursor), cursor |-> At(s, n, m + 2)]
      BY <3>1
    <3>3. (m + 1) + 1 = m + 2
      BY <1>3
    <3>4. DropCommitted(x.left, x.cursor) \in Ledgers
      BY <3>1 DEF Cleared
    <3> HIDE DEF After
    <3> QED BY <1>4, <2>2, <3>1, <3>2, <3>3, <3>4
  <2> QED BY <1>3, <2>1, <2>2
<1> HIDE DEF Fits
<1>7. base \in X /\ \A x \in X : After(x) \in X
  <2>1. base \in X
    BY <1>3, <1>5
  <2>2. ASSUME NEW x \in X PROVE After(x) \in X
    <3>1. PICK m \in 0 .. n : Fits(x, m)
      OBVIOUS
    <3>2. x \in [left : Ledgers, cursor : Link]
      OBVIOUS
    <3> HIDE DEF After
    <3>3. CASE m = n
      BY <1>6, <3>1, <3>2, <3>3
    <3>4. CASE m < n
      <4>1. m + 1 \in 0 .. n
        BY <1>3, <3>4
      <4>2. Fits(After(x), m + 1) /\ After(x) \in [left : Ledgers, cursor : Link]
        BY <1>6, <3>1, <3>2, <3>4
      <4> QED BY <4>1, <4>2
    <3> QED BY <1>3, <3>3, <3>4
  <2> QED BY <2>1, <2>2
<1>8. G \in [(1 .. N) \X X -> X] /\ \A k \in 1 .. N : \A x \in X : G[<<k, x>>] = After(x)
  <2> HIDE DEF X, After
  <2> QED BY <1>7
<1> HIDE DEF X, G, base
<1>9. \E w : Solves(w)
  <2>1. PICK w \in [0 .. N -> X] : Iterates(w, N, base, G)
    BY <1>3, <1>7, <1>8, IterationExists
  <2>2. \A k \in 0 .. N : w[k] = IF k = 0 THEN base ELSE After(w[k - 1])
    <3> TAKE k \in 0 .. N
    <3>1. CASE k = 0
      BY <2>1, <3>1 DEF Iterates
    <3>2. CASE k # 0
      <4>1. k \in 1 .. N /\ w[k - 1] \in X
        BY <1>3, <3>2
      <4>2. w[k] = G[<<k, w[k - 1]>>]
        BY <2>1, <4>1 DEF Iterates
      <4>3. w[k] = After(w[k - 1])
        <5> HIDE DEF After
        <5> QED BY <1>8, <4>1, <4>2
      <4> QED BY <3>2, <4>3
    <3> QED BY <3>1, <3>2
  <2> QED BY <2>2 DEF base
<1>10. PICK w : /\ Discharged(L, r) = [w[N].left EXCEPT
                                         !.requests[r] = [claim |-> NIL, committed_head |-> NIL]]
                /\ Solves(w)
  <2>1. Discharged(L, r) = [(CHOOSE w : Solves(w))[N].left EXCEPT
                              !.requests[r] = [claim |-> NIL, committed_head |-> NIL]]
    BY DEF Discharged
  <2> HIDE DEF Solves
  <2> QED BY <1>9, <2>1
<1>11. w[0] = base /\ \A k \in 1 .. N : w[k] = After(w[k - 1])
  <2>1. 0 \in 0 .. N /\ \A k \in 1 .. N : k \in 0 .. N /\ k # 0
    BY <1>3
  <2>2. w[0] = base
    BY <1>10, <2>1 DEF base
  <2>3. \A k \in 1 .. N : w[k] = After(w[k - 1])
    BY <1>10, <2>1
  <2> QED BY <2>2, <2>3
<1> HIDE DEF After, Solves
<1> DEFINE P == {k \in Nat : k <= N =>
                   /\ w[k] \in [left : Ledgers, cursor : Link]
                   /\ \E m \in 0 .. n : Fits(w[k], m) /\ (m = n \/ m = k)}
<1>12. \A k \in Nat : k \in P
  <2>1. 0 \in P
    BY <1>3, <1>5, <1>11 DEF base
  <2>2. ASSUME NEW k \in Nat, k \in P PROVE k + 1 \in P
    <3> SUFFICES ASSUME k + 1 <= N
                 PROVE  /\ w[k + 1] \in [left : Ledgers, cursor : Link]
                        /\ \E m \in 0 .. n : Fits(w[k + 1], m) /\ (m = n \/ m = k + 1)
      OBVIOUS
    <3>1. k <= N /\ k + 1 \in 1 .. N /\ (k + 1) - 1 = k
      BY <1>3
    <3>2. PICK m \in 0 .. n : Fits(w[k], m) /\ (m = n \/ m = k)
      BY <2>2, <3>1
    <3>3. w[k] \in [left : Ledgers, cursor : Link] /\ w[k + 1] = After(w[k])
      BY <1>11, <2>2, <3>1
    <3>4. CASE m = n
      BY <1>6, <3>2, <3>3, <3>4
    <3>5. CASE m < n
      <4>1. m + 1 \in 0 .. n /\ m = k
        BY <1>3, <3>2, <3>5
      <4>2. Fits(w[k + 1], m + 1) /\ w[k + 1] \in [left : Ledgers, cursor : Link]
        BY <1>6, <3>2, <3>3, <3>5
      <4> QED BY <4>1, <4>2
    <3> QED BY <1>3, <3>4, <3>5
  <2> HIDE DEF P
  <2> QED BY <2>1, <2>2, NaturalInduction
<1> DEFINE M == w[N].left
           d == [claim |-> NIL, committed_head |-> NIL]
           K == [M EXCEPT !.requests[r] = d]
<1>13. Cleared(L, M, s, n)
  <2>1. N \in P
    BY <1>3, <1>12
  <2>2. PICK m \in 0 .. n : Fits(w[N], m) /\ (m = n \/ m = N)
    BY <1>3, <2>1
  <2>3. m = n
    BY <1>3, <2>2
  <2> QED BY <2>2, <2>3 DEF Fits
<1> HIDE DEF P, M, d
<1>14. /\ M \in Ledgers /\ Booked(M) /\ Taken(M) = Taken(L) \ Listed(L, r)
       /\ \A j \in Taken(M) : M.reservations[j] = L.reservations[j]
       /\ \A a \in Accounts : /\ HeadOf(M, a) = HeadOf(L, a) /\ TailOf(M, a) = TailOf(L, a)
                              /\ M.accounts[a].free = L.accounts[a].free
       /\ SameOwners(L, M, {}) /\ SameRequests(L, M)
  <2>1. {s[k] : k \in 1 .. n} = Listed(L, r)
    BY <1>2 DEF Along
  <2> QED BY <1>13, <2>1 DEF Cleared
<1>15. d \in RequestRecord /\ d # Vacant /\ d.claim = NIL /\ d.committed_head = NIL
  BY LedgerConstants DEF d, RequestRecord, Link
<1>16. /\ K \in Ledgers
       /\ K.accounts = M.accounts /\ K.reservations = M.reservations /\ K.quotes = M.quotes
       /\ \A p \in RequestSlots : K.requests[p] = IF p = r THEN d ELSE M.requests[p]
  BY <1>14, <1>15, RequestSet
<1>17. K = Discharged(L, r)
  BY <1>10 DEF M, d
<1> HIDE DEF K
<1>18. \A p \in RequestSlots : M.requests[p] = Vacant <=> L.requests[p] = Vacant
  BY <1>14, RequestOpen
<1>19. OpenIn(M, r) /\ ClaimIn(M, r) = NIL
  <2>1. r \in Owners /\ r \notin QuoteSlots /\ OpenIn(L, r) /\ OpenIn(M, r) /\ ClaimIn(L, r) = own
    BY <1>18, LedgerConstants DEF Owners, OpenIn, ClaimIn
  <2>2. own \in Taken(L) /\ own \notin Taken(M)
    <3>1. own # NIL
      BY LedgerConstants
    <3> QED BY <1>1, <1>14, <2>1, <3>1 DEF Booked, OwnersIn, Listed
  <2>3. SUFFICES ASSUME ClaimIn(M, r) # NIL PROVE FALSE
    BY <2>1
  <2>4. ClaimIn(M, r) \in Taken(M) /\ M.reservations[ClaimIn(M, r)].owner = r
    BY <1>14, <2>1, <2>3 DEF Booked, OwnersIn
  <2>5. L.reservations[ClaimIn(M, r)].owner = r /\ ClaimIn(M, r) \in Taken(L)
    BY <1>14, <2>4
  <2>6. ClaimIn(M, r) = own
    BY <1>1, <2>1, <2>5 DEF Booked, OwnersIn
  <2> QED BY <2>2, <2>4, <2>6
<1>20. \A o \in Owners : /\ OpenIn(K, o) <=> OpenIn(M, o)
                         /\ ClaimIn(K, o) = ClaimIn(M, o)
  BY <1>15, <1>16, <1>19, LedgerConstants DEF OpenIn, ClaimIn, Owners
<1>21. Booked(K)
  <2>1. \A p \in RequestSlots : K.requests[p] = Vacant => Listed(M, p) = {}
    BY <1>14, <1>15, <1>16 DEF Booked, ClosedIn
  <2> QED BY <1>14, <1>16, <1>20, <2>1, BookedKept
<1>22. Taken(K) = Taken(L) \ Listed(L, r) /\ \A j \in Taken(K) : K.reservations[j] = L.reservations[j]
  BY <1>14, <1>16 DEF Taken
<1>23. StatesIn(K)
  BY <1>1, <1>22 DEF StatesIn, LinksIn
<1>24. \A j \in Taken(K) : Prev(K)[j] = Prev(L)[j] /\ Next(K)[j] = Next(L)[j]
  BY <1>22 DEF Prev, Next, Taken
<1>25. ASSUME NEW a \in Accounts PROVE ChainLinks(K, a, Chained(K, a) \ {})
  <2>1. ChainLinks(L, a, Chained(L, a) \ {})
    BY <1>1 DEF LinksIn, ChainsIn
  <2>2. Chained(K, a) = Chained(L, a) /\ Chained(K, a) \subseteq Taken(K)
    BY <1>22, LedgerConstants DEF Chained, Listed
  <2>3. HeadOf(K, a) = HeadOf(L, a) /\ TailOf(K, a) = TailOf(L, a)
    BY <1>14, <1>16 DEF HeadOf, TailOf
  <2> QED BY <1>22, <1>24, <2>1, <2>2, <2>3, ChainFrame
<1>26. ASSUME NEW p \in RequestSlots, K.requests[p] # Vacant
       PROVE  ListLinks(K, p, Listed(K, p) \ {})
  <2>1. CASE p = r
    <3>1. Listed(K, p) = {}
      BY <1>22, <2>1 DEF Listed
    <3>2. ListHead(K, p) = NIL
      BY <1>15, <1>16, <2>1 DEF ListHead
    <3> QED BY <3>1, <3>2, EmptyList
  <2>2. CASE p # r
    <3>1. ListLinks(L, p, Listed(L, p) \ {})
      BY <1>1, <1>16, <1>18, <1>26, <2>2 DEF LinksIn, ListsIn
    <3>2. Listed(K, p) = Listed(L, p) /\ Listed(K, p) \subseteq Taken(K)
      BY <1>22, <2>2 DEF Listed
    <3>3. ListHead(K, p) = ListHead(L, p)
      BY <1>14, <1>16, <1>18, <1>26, <2>2 DEF ListHead, SameRequests
    <3> QED BY <1>24, <3>1, <3>2, <3>3, ListFrame
  <2> QED BY <2>1, <2>2
<1>27. LinksIn(K, {})
  BY <1>16, <1>23, <1>25, <1>26 DEF LinksIn, ChainsIn, ListsIn
<1>28. Loses(L, K, Listed(L, r))
  BY <1>22 DEF Loses, SameClaim, Listed
<1> QED BY <1>14, <1>16, <1>17, <1>21, <1>27, <1>28 DEF Sound

\* The dead claims of an account.
DeadIn(L, a, t) == {i \in Chained(L, a) : L.reservations[i].expires_at <= t}

LEMMA ChainedTimes ==
  ASSUME NEW L, LinksIn(L, {}), NEW a, NEW i \in Chained(L, a)
  PROVE  L.reservations[i].expires_at \in Nat
<1>1. i \in Taken(L) /\ L.reservations[i] \in Reservation /\ L.reservations[i].expires_at # Vacant
  BY TakenTyped DEF LinksIn, StatesIn, Chained
<1> QED BY <1>1, LedgerConstants DEF Reservation

\* The head of a chain expires first.
LEMMA HeadFirst ==
  ASSUME NEW L, LinksIn(L, {}), NEW a \in Accounts
  PROVE  LET head == HeadOf(L, a)
         IN  IF head = NIL THEN Chained(L, a) = {}
             ELSE /\ head \in Chained(L, a)
                  /\ \A i \in Chained(L, a) :
                       L.reservations[head].expires_at <= L.reservations[i].expires_at
<1>1. PICK n, s : /\ IsPath(s, n) /\ Along(s, n) = Chained(L, a)
                  /\ Threads(s, n, Prev(L), Next(L), HeadOf(L, a), TailOf(L, a))
                  /\ InOrder(L, s, n)
  BY DEF LinksIn, ChainsIn, ChainLinks
<1>2. n \in Nat /\ \A k \in 1 .. n : s[k] \in Chained(L, a) /\ s[k] # NIL
  BY <1>1, LedgerConstants DEF IsPath, Along
<1>3. HeadOf(L, a) = At(s, n, 1)
  BY <1>1 DEF Threads
<1>4. CASE n = 0
  <2>1. HeadOf(L, a) = NIL /\ Chained(L, a) = {}
    BY <1>1, <1>3, <1>4 DEF At, Along
  <2> QED BY <2>1
<1>5. CASE n # 0
  <2>1. 1 \in 1 .. n /\ HeadOf(L, a) = s[1]
    BY <1>2, <1>3, <1>5 DEF At
  <2>2. ASSUME NEW i \in Chained(L, a)
        PROVE  L.reservations[s[1]].expires_at <= L.reservations[i].expires_at
    <3>1. PICK k \in 1 .. n : i = s[k]
      BY <1>1 DEF Along
    <3>2. CASE k = 1
      BY <3>1, <3>2, ChainedTimes
    <3>3. CASE k # 1
      <4>1. 1 < k
        BY <1>2, <3>3
      <4> QED BY <1>1, <2>1, <3>1, <4>1 DEF InOrder
    <3> QED BY <3>2, <3>3
  <2> QED BY <1>2, <2>1, <2>2
<1> QED BY <1>4, <1>5

LEMMA LosesTwice ==
  ASSUME NEW L, NEW M, NEW D, Loses(L, M, D), NEW K, NEW E, Loses(M, K, E)
  PROVE  Loses(L, K, D \cup E)
BY DEF Loses, SameClaim

\* Reclaiming from the head while it is dead drops every dead claim, and no other.
LEMMA NormalisedDrops ==
  ASSUME NEW L, Sound(L), NEW a \in Accounts, NEW t \in Times
  PROVE  LET M == Normalised(L, a, t)
         IN  /\ Sound(M) /\ Loses(L, M, DeadIn(L, a, t))
             /\ \A b \in Accounts : M.accounts[b].free = L.accounts[b].free
<1> DEFINE N == Cardinality(ResSlots)
           Goes(M) == M.accounts[a].expiry_head # NIL
                      /\ M.reservations[M.accounts[a].expiry_head].expires_at <= t
           After(M) == IF Goes(M) THEN DropReserved(M, M.accounts[a].expiry_head) ELSE M
           Solves(w) == w = [k \in 0 .. N |->
                               IF k = 0 THEN L
                               ELSE LET before == w[k - 1]
                                        head == before.accounts[a].expiry_head
                                    IN  IF head # NIL /\ before.reservations[head].expires_at <= t
                                        THEN DropReserved(before, head) ELSE before]
           Fits(M) == /\ Sound(M)
                      /\ \E D \in SUBSET DeadIn(L, a, t) : Loses(L, M, D)
                      /\ \A b \in Accounts : M.accounts[b].free = L.accounts[b].free
           X == {M \in Ledgers : Fits(M)}
           G == [y \in (1 .. N) \X X |-> After(y[2])]
<1>1. N \in Nat /\ t \in Nat
  BY FS_CardinalityType, LedgerConstants
<1>2. \A M : Sound(M) => M \in Ledgers /\ LinksIn(M, {})
  BY DEF Sound, LinksIn
<1>3. L \in X
  <2>1. Loses(L, L, {})
    BY DEF Loses, SameClaim
  <2> QED BY <1>2, <2>1
<1>4. ASSUME NEW M, Fits(M), Goes(M)
      PROVE  /\ Fits(After(M))
             /\ \E i \in Taken(M) : Taken(After(M)) = Taken(M) \ {i}
  <2> DEFINE head == M.accounts[a].expiry_head
             K == DropReserved(M, head)
  <2>1. head \in Chained(M, a) /\ After(M) = K
    BY <1>2, <1>4, HeadFirst DEF HeadOf
  <2> HIDE DEF After
  <2>2. /\ Sound(K) /\ Loses(M, K, {head})
        /\ \A b \in Accounts : K.accounts[b].free = M.accounts[b].free
    BY <1>4, <2>1, ReservedDropped
  <2>3. PICK D \in SUBSET DeadIn(L, a, t) : Loses(L, M, D)
    BY <1>4
  <2>4. head \in DeadIn(L, a, t)
    BY <1>4, <2>1, <2>3 DEF DeadIn, Chained, Loses, SameClaim
  <2> HIDE DEF K, head
  <2>5. Loses(L, K, D \cup {head})
    BY <2>2, <2>3, LosesTwice
  <2>6. D \cup {head} \in SUBSET DeadIn(L, a, t)
    BY <2>4
  <2>7. Fits(K)
    BY <1>4, <2>2, <2>5, <2>6
  <2>8. head \in Taken(M) /\ Taken(K) = Taken(M) \ {head}
    BY <2>2 DEF Loses
  <2> QED BY <2>1, <2>7, <2>8
<1> HIDE DEF Fits
<1>5. \A M \in X : After(M) \in X
  <2> TAKE M \in X
  <2>1. CASE Goes(M)
    <3>1. Fits(After(M))
      BY <1>4, <2>1
    <3>2. After(M) \in Ledgers
      BY <1>2, <3>1 DEF Fits
    <3> QED BY <3>1, <3>2
  <2>2. CASE ~Goes(M)
    BY <2>2
  <2> QED BY <2>1, <2>2
<1>6. G \in [(1 .. N) \X X -> X] /\ \A k \in 1 .. N : \A x \in X : G[<<k, x>>] = After(x)
  <2> HIDE DEF X, After
  <2> QED BY <1>5
<1> HIDE DEF X, G
<1>7. \E w : Solves(w)
  <2>1. PICK w \in [0 .. N -> X] : Iterates(w, N, L, G)
    BY <1>1, <1>3, <1>6, IterationExists
  <2>2. \A k \in 0 .. N : w[k] = IF k = 0 THEN L ELSE After(w[k - 1])
    <3> TAKE k \in 0 .. N
    <3>1. CASE k = 0
      BY <2>1, <3>1 DEF Iterates
    <3>2. CASE k # 0
      <4>1. k \in 1 .. N /\ w[k - 1] \in X
        BY <1>1, <3>2
      <4>2. w[k] = G[<<k, w[k - 1]>>]
        BY <2>1, <4>1 DEF Iterates
      <4>3. w[k] = After(w[k - 1])
        <5> HIDE DEF After
        <5> QED BY <1>6, <4>1, <4>2
      <4> QED BY <3>2, <4>3
    <3> QED BY <3>1, <3>2
  <2> QED BY <2>2
<1>8. PICK w : Normalised(L, a, t) = w[N] /\ Solves(w)
  <2>1. Normalised(L, a, t) = (CHOOSE w : Solves(w))[N]
    BY DEF Normalised
  <2> HIDE DEF Solves
  <2> QED BY <1>7, <2>1
<1>9. w[0] = L /\ \A k \in 1 .. N : w[k] = After(w[k - 1])
  <2>1. 0 \in 0 .. N /\ \A k \in 1 .. N : k \in 0 .. N /\ k # 0
    BY <1>1
  <2>2. w[0] = L
    BY <1>8, <2>1
  <2>3. \A k \in 1 .. N : w[k] = After(w[k - 1])
    BY <1>8, <2>1
  <2> QED BY <2>2, <2>3
<1> HIDE DEF Solves
<1>10. ASSUME NEW M
       PROVE  IsFiniteSet(Taken(M)) /\ Cardinality(Taken(M)) \in Nat /\ Cardinality(Taken(M)) <= N
  <2>1. Taken(M) \subseteq ResSlots
    BY DEF Taken
  <2> QED BY <2>1, FS_Subset, FS_CardinalityType, LedgerConstants
<1> DEFINE P == {k \in Nat : k <= N =>
                   Fits(w[k]) /\ (Goes(w[k]) => Cardinality(Taken(w[k])) + k <= N)}
<1>11. \A k \in Nat : k \in P
  <2>1. 0 \in P
    BY <1>1, <1>3, <1>9, <1>10 DEF X
  <2>2. ASSUME NEW k \in Nat, k \in P PROVE k + 1 \in P
    <3> SUFFICES ASSUME k + 1 <= N
                 PROVE  /\ Fits(w[k + 1])
                        /\ Goes(w[k + 1]) => Cardinality(Taken(w[k + 1])) + (k + 1) <= N
      OBVIOUS
    <3>1. k <= N /\ k + 1 \in 1 .. N /\ (k + 1) - 1 = k
      BY <1>1
    <3>2. /\ Fits(w[k]) /\ (Goes(w[k]) => Cardinality(Taken(w[k])) + k <= N)
          /\ w[k + 1] = After(w[k])
      BY <1>9, <2>2, <3>1
    <3>3. CASE Goes(w[k])
      <4>1. PICK i \in Taken(w[k]) : Taken(After(w[k])) = Taken(w[k]) \ {i}
        BY <1>4, <3>2, <3>3
      <4>2. Fits(After(w[k]))
        BY <1>4, <3>2, <3>3
      <4> HIDE DEF After, Goes
      <4>3. Cardinality(Taken(w[k + 1])) = Cardinality(Taken(w[k])) - 1
        <5>1. IsFiniteSet(Taken(w[k])) /\ Taken(w[k + 1]) = Taken(w[k]) \ {i}
          BY <1>10, <3>2, <4>1
        <5> QED BY <5>1, FS_RemoveElement
      <4>4. Cardinality(Taken(w[k])) \in Nat
        BY <1>10
      <4>5. Cardinality(Taken(w[k + 1])) + (k + 1) <= N
        BY <1>1, <3>2, <3>3, <4>3, <4>4
      <4> QED BY <3>2, <4>2, <4>5
    <3>4. CASE ~Goes(w[k])
      <4>1. w[k + 1] = w[k]
        BY <3>2, <3>4
      <4> QED BY <3>2, <3>4, <4>1
    <3> QED BY <3>3, <3>4
  <2> HIDE DEF P
  <2> QED BY <2>1, <2>2, NaturalInduction
<1> DEFINE M == w[N]
<1>12. Fits(M) /\ (Goes(M) => Cardinality(Taken(M)) + N <= N)
  <2>1. N \in P
    BY <1>1, <1>11
  <2> QED BY <1>1, <2>1
<1> HIDE DEF P, M
<1>13. ~Goes(M)
  <2> SUFFICES ASSUME Goes(M) PROVE FALSE
    OBVIOUS
  <2>1. HeadOf(M, a) \in Chained(M, a)
    BY <1>2, <1>12, HeadFirst DEF HeadOf, Fits
  <2>2. Cardinality(Taken(M)) = 0
    BY <1>1, <1>10, <1>12
  <2>3. Taken(M) = {}
    BY <1>10, <2>2, FS_EmptySet
  <2> QED BY <2>1, <2>3 DEF Chained
<1>14. DeadIn(M, a, t) = {}
  <2> SUFFICES ASSUME NEW i \in DeadIn(M, a, t) PROVE FALSE
    OBVIOUS
  <2>1. LinksIn(M, {}) /\ i \in Chained(M, a) /\ M.reservations[i].expires_at <= t
    BY <1>2, <1>12 DEF Fits, DeadIn
  <2>2. /\ HeadOf(M, a) # NIL /\ HeadOf(M, a) \in Chained(M, a)
        /\ M.reservations[HeadOf(M, a)].expires_at <= M.reservations[i].expires_at
    BY <2>1, HeadFirst
  <2>3. /\ M.reservations[HeadOf(M, a)].expires_at \in Nat /\ M.reservations[i].expires_at \in Nat
    BY <2>1, <2>2, ChainedTimes
  <2>4. M.reservations[HeadOf(M, a)].expires_at <= t
    BY <1>1, <2>1, <2>2, <2>3
  <2> QED BY <1>13, <2>2, <2>4 DEF HeadOf
<1>15. Sound(M) /\ \A b \in Accounts : M.accounts[b].free = L.accounts[b].free
  BY <1>12 DEF Fits
<1>16. PICK D \in SUBSET DeadIn(L, a, t) : Loses(L, M, D)
  BY <1>12 DEF Fits
<1>17. DeadIn(L, a, t) \subseteq D
  <2> SUFFICES ASSUME NEW i \in DeadIn(L, a, t), i \notin D PROVE FALSE
    OBVIOUS
  <2>1. i \in Taken(M) /\ SameClaim(M.reservations[i], L.reservations[i])
    BY <1>16 DEF Loses, DeadIn, Chained
  <2>2. i \in DeadIn(M, a, t)
    BY <2>1 DEF DeadIn, Chained, SameClaim
  <2> QED BY <1>14, <2>2
<1>18. D = DeadIn(L, a, t)
  BY <1>17
<1>19. Normalised(L, a, t) = M
  BY <1>8 DEF M
<1> QED BY <1>15, <1>16, <1>18, <1>19

\* Owners that hold nothing come and go.
LEMMA SoundKept ==
  ASSUME NEW L, Sound(L), NEW M \in Ledgers, M.reservations = L.reservations,
         \A a \in Accounts : /\ HeadOf(M, a) = HeadOf(L, a) /\ TailOf(M, a) = TailOf(L, a)
                             /\ M.accounts[a].reserved = L.accounts[a].reserved
                             /\ M.accounts[a].committed = L.accounts[a].committed,
         \A o \in Owners : OpenIn(L, o) /\ ClaimIn(L, o) # NIL =>
           OpenIn(M, o) /\ ClaimIn(M, o) = ClaimIn(L, o),
         \A o \in Owners : OpenIn(M, o) /\ ClaimIn(M, o) # NIL =>
           OpenIn(L, o) /\ ClaimIn(M, o) = ClaimIn(L, o),
         \A r \in RequestSlots : IF M.requests[r] = Vacant THEN Listed(L, r) = {}
           ELSE \/ L.requests[r] # Vacant /\ ListHead(M, r) = ListHead(L, r)
                \/ ListHead(M, r) = NIL /\ Listed(L, r) = {}
  PROVE  Sound(M)
<1>1. L \in Ledgers /\ LinksIn(L, {}) /\ Booked(L)
  BY DEF Sound, LinksIn
<1>2. Booked(M)
  BY <1>1, BookedKept
<1>3. LinksIn(M, {})
  BY <1>1, SameLinks
<1> QED BY <1>2, <1>3 DEF Sound

LEMMA QuoteOpened ==
  ASSUME NEW L, Sound(L), NEW q \in QuoteSlots, L.quotes[q] = Vacant, NEW r \in RequestSlots
  PROVE  LET M == [L EXCEPT !.quotes[q] = [request |-> r, claim |-> NIL]]
         IN  /\ Sound(M) /\ M.accounts = L.accounts /\ M.reservations = L.reservations
             /\ OpenIn(M, q) /\ ClaimIn(M, q) = NIL
<1> DEFINE d == [request |-> r, claim |-> NIL]
           M == [L EXCEPT !.quotes[q] = d]
<1>1. L \in Ledgers
  BY DEF Sound, LinksIn
<1>2. d \in QuoteRecord /\ d # Vacant /\ d.claim = NIL
  BY LedgerConstants DEF QuoteRecord, Link
<1> HIDE DEF d
<1>3. /\ M \in Ledgers
      /\ M.accounts = L.accounts /\ M.reservations = L.reservations /\ M.requests = L.requests
      /\ \A p \in QuoteSlots : M.quotes[p] = IF p = q THEN d ELSE L.quotes[p]
  BY <1>1, <1>2, QuoteSet
<1> HIDE DEF M
<1>4. OpenIn(M, q) /\ ClaimIn(M, q) = NIL /\ ~OpenIn(L, q)
  BY <1>2, <1>3 DEF OpenIn, ClaimIn
<1>5. \A o \in Owners : o # q => /\ OpenIn(M, o) <=> OpenIn(L, o)
                                 /\ ClaimIn(M, o) = ClaimIn(L, o)
  BY <1>3 DEF OpenIn, ClaimIn
<1>6. /\ \A a \in Accounts : HeadOf(M, a) = HeadOf(L, a) /\ TailOf(M, a) = TailOf(L, a)
      /\ \A p \in RequestSlots : ListHead(M, p) = ListHead(L, p)
      /\ \A p \in RequestSlots : M.requests[p] = Vacant => Listed(L, p) = {}
  BY <1>3 DEF HeadOf, TailOf, ListHead, Sound, Booked, ClosedIn
<1>7. Sound(M)
  BY <1>3, <1>4, <1>5, <1>6, SoundKept
<1> QED BY <1>3, <1>4, <1>7 DEF M, d

LEMMA RequestOpened ==
  ASSUME NEW L, Sound(L), NEW r \in RequestSlots, L.requests[r] = Vacant
  PROVE  LET M == [L EXCEPT !.requests[r] = [claim |-> NIL, committed_head |-> NIL]]
         IN  /\ Sound(M) /\ M.accounts = L.accounts /\ M.reservations = L.reservations
             /\ OpenIn(M, r) /\ ClaimIn(M, r) = NIL
<1> DEFINE d == [claim |-> NIL, committed_head |-> NIL]
           M == [L EXCEPT !.requests[r] = d]
<1>1. L \in Ledgers
  BY DEF Sound, LinksIn
<1>2. d \in RequestRecord /\ d # Vacant /\ d.claim = NIL /\ d.committed_head = NIL
  BY LedgerConstants DEF RequestRecord, Link
<1> HIDE DEF d
<1>3. /\ M \in Ledgers
      /\ M.accounts = L.accounts /\ M.reservations = L.reservations /\ M.quotes = L.quotes
      /\ \A p \in RequestSlots : M.requests[p] = IF p = r THEN d ELSE L.requests[p]
  BY <1>1, <1>2, RequestSet
<1> HIDE DEF M
<1>4. OpenIn(M, r) /\ ClaimIn(M, r) = NIL /\ ~OpenIn(L, r)
  BY <1>2, <1>3, LedgerConstants DEF OpenIn, ClaimIn
<1>5. \A o \in Owners : o # r => /\ OpenIn(M, o) <=> OpenIn(L, o)
                                 /\ ClaimIn(M, o) = ClaimIn(L, o)
  BY <1>3 DEF OpenIn, ClaimIn, Owners
<1>6. /\ \A a \in Accounts : HeadOf(M, a) = HeadOf(L, a) /\ TailOf(M, a) = TailOf(L, a)
      /\ \A p \in RequestSlots \ {r} : M.requests[p] = L.requests[p] /\ ListHead(M, p) = ListHead(L, p)
      /\ ListHead(M, r) = NIL /\ M.requests[r] # Vacant
      /\ \A p \in RequestSlots : L.requests[p] = Vacant => Listed(L, p) = {}
  BY <1>2, <1>3 DEF HeadOf, TailOf, ListHead, Sound, Booked, ClosedIn
<1>7. \A p \in RequestSlots :
        IF M.requests[p] = Vacant THEN Listed(L, p) = {}
        ELSE \/ L.requests[p] # Vacant /\ ListHead(M, p) = ListHead(L, p)
             \/ ListHead(M, p) = NIL /\ Listed(L, p) = {}
  BY <1>6
<1>8. Sound(M)
  BY <1>3, <1>4, <1>5, <1>6, <1>7, SoundKept
<1> QED BY <1>3, <1>4, <1>8 DEF M, d

LEMMA QuoteClosed ==
  ASSUME NEW L, Sound(L), NEW q \in QuoteSlots, L.quotes[q] # Vacant, L.quotes[q].claim = NIL
  PROVE  LET M == [L EXCEPT !.quotes[q] = Vacant]
         IN  Sound(M) /\ M.accounts = L.accounts /\ M.reservations = L.reservations
<1> DEFINE M == [L EXCEPT !.quotes[q] = Vacant]
<1>1. L \in Ledgers
  BY DEF Sound, LinksIn
<1>2. /\ M \in Ledgers
      /\ M.accounts = L.accounts /\ M.reservations = L.reservations /\ M.requests = L.requests
      /\ \A p \in QuoteSlots : M.quotes[p] = IF p = q THEN Vacant ELSE L.quotes[p]
  BY <1>1, QuoteSet
<1> HIDE DEF M
<1>3. ~OpenIn(M, q) /\ ClaimIn(L, q) = NIL
  BY <1>2 DEF OpenIn, ClaimIn
<1>4. \A o \in Owners : o # q => /\ OpenIn(M, o) <=> OpenIn(L, o)
                                 /\ ClaimIn(M, o) = ClaimIn(L, o)
  BY <1>2 DEF OpenIn, ClaimIn
<1>5. /\ \A a \in Accounts : HeadOf(M, a) = HeadOf(L, a) /\ TailOf(M, a) = TailOf(L, a)
      /\ \A p \in RequestSlots : ListHead(M, p) = ListHead(L, p)
      /\ \A p \in RequestSlots : M.requests[p] = Vacant => Listed(L, p) = {}
  BY <1>2 DEF HeadOf, TailOf, ListHead, Sound, Booked, ClosedIn
<1>6. Sound(M)
  BY <1>2, <1>3, <1>4, <1>5, SoundKept
<1> QED BY <1>2, <1>6 DEF M

LEMMA RequestClosed ==
  ASSUME NEW L, Sound(L), NEW r \in RequestSlots,
         L.requests[r] = [claim |-> NIL, committed_head |-> NIL]
  PROVE  LET M == [L EXCEPT !.requests[r] = Vacant]
         IN  Sound(M) /\ M.accounts = L.accounts /\ M.reservations = L.reservations
<1> DEFINE M == [L EXCEPT !.requests[r] = Vacant]
<1>1. L \in Ledgers /\ LinksIn(L, {})
  BY DEF Sound, LinksIn
<1>2. /\ M \in Ledgers
      /\ M.accounts = L.accounts /\ M.reservations = L.reservations /\ M.quotes = L.quotes
      /\ \A p \in RequestSlots : M.requests[p] = IF p = r THEN Vacant ELSE L.requests[p]
  BY <1>1, RequestSet
<1> HIDE DEF M
<1>3. L.requests[r] \in RequestRecord /\ L.requests[r] # Vacant
      /\ L.requests[r].claim = NIL /\ ListHead(L, r) = NIL
  BY LedgerConstants DEF RequestRecord, Link, ListHead
<1>4. ~OpenIn(M, r) /\ ClaimIn(L, r) = NIL
  BY <1>2, <1>3, LedgerConstants DEF OpenIn, ClaimIn
<1>5. \A o \in Owners : o # r => /\ OpenIn(M, o) <=> OpenIn(L, o)
                                 /\ ClaimIn(M, o) = ClaimIn(L, o)
  BY <1>2 DEF OpenIn, ClaimIn, Owners
<1>6. Listed(L, r) = {}
  <2>1. ListLinks(L, r, Listed(L, r) \ {})
    BY <1>1, <1>3 DEF LinksIn, ListsIn
  <2>2. Listed(L, r) \ {} = {}
    BY <1>3, <2>1, NoHeadNoList
  <2> QED BY <2>2
<1>7. /\ \A a \in Accounts : HeadOf(M, a) = HeadOf(L, a) /\ TailOf(M, a) = TailOf(L, a)
      /\ \A p \in RequestSlots \ {r} : M.requests[p] = L.requests[p] /\ ListHead(M, p) = ListHead(L, p)
      /\ M.requests[r] = Vacant
      /\ \A p \in RequestSlots : L.requests[p] = Vacant => Listed(L, p) = {}
  BY <1>2 DEF HeadOf, TailOf, ListHead, Sound, Booked, ClosedIn
<1>8. \A p \in RequestSlots :
        IF M.requests[p] = Vacant THEN Listed(L, p) = {}
        ELSE \/ L.requests[p] # Vacant /\ ListHead(M, p) = ListHead(L, p)
             \/ ListHead(M, p) = NIL /\ Listed(L, p) = {}
  BY <1>6, <1>7
<1>9. Sound(M)
  BY <1>2, <1>4, <1>5, <1>7, <1>8, SoundKept
<1> QED BY <1>2, <1>9 DEF M

LEMMA MirrorSet ==
  ASSUME NEW L, Sound(L), NEW a \in Accounts, NEW n \in Nat
  PROVE  LET M == [L EXCEPT !.accounts[a].free = n]
         IN  /\ Sound(M) /\ M.reservations = L.reservations
             /\ M.requests = L.requests /\ M.quotes = L.quotes
             /\ \A b \in Accounts :
                  M.accounts[b].free = IF b = a THEN n ELSE L.accounts[b].free
<1> DEFINE e == [L.accounts[a] EXCEPT !.free = n]
           M == [L EXCEPT !.accounts[a] = e]
<1>1. L \in Ledgers /\ L.accounts[a] \in Account
  BY DEF Sound, LinksIn, Ledgers
<1>2. [L EXCEPT !.accounts[a].free = n] = M
  OBVIOUS
<1>3. /\ e \in Account /\ e.free = n /\ e.reserved = L.accounts[a].reserved
      /\ e.committed = L.accounts[a].committed
      /\ e.expiry_head = HeadOf(L, a) /\ e.expiry_tail = TailOf(L, a)
  BY <1>1 DEF Account, HeadOf, TailOf
<1> HIDE DEF e
<1>4. /\ M \in Ledgers
      /\ M.reservations = L.reservations /\ M.requests = L.requests /\ M.quotes = L.quotes
      /\ \A b \in Accounts : M.accounts[b] = IF b = a THEN e ELSE L.accounts[b]
  BY <1>1, <1>3, AccountSet
<1> HIDE DEF M
<1>5. \A o : (OpenIn(M, o) <=> OpenIn(L, o)) /\ ClaimIn(M, o) = ClaimIn(L, o)
  BY <1>4 DEF OpenIn, ClaimIn
<1>6. \A b \in Accounts : /\ HeadOf(M, b) = HeadOf(L, b) /\ TailOf(M, b) = TailOf(L, b)
                          /\ M.accounts[b].reserved = L.accounts[b].reserved
                          /\ M.accounts[b].committed = L.accounts[b].committed
                          /\ M.accounts[b].free = IF b = a THEN n ELSE L.accounts[b].free
  BY <1>3, <1>4 DEF HeadOf, TailOf
<1>7. \A p \in RequestSlots : /\ ListHead(M, p) = ListHead(L, p)
                              /\ M.requests[p] = Vacant => Listed(L, p) = {}
  BY <1>4 DEF ListHead, Sound, Booked, ClosedIn
<1>8. Sound(M)
  BY <1>4, <1>5, <1>6, <1>7, SoundKept
<1> QED BY <1>2, <1>4, <1>6, <1>8

-----------------------------------------------------------------------------
(* The book of a ledger                                                    *)

AsBooked(c) == [account |-> c.account, amount |-> c.amount,
                expires_at |-> c.expires_at, list |-> c.list]
Entry(L, o) == IF ~OpenIn(L, o) \/ ClaimIn(L, o) = NIL THEN Vacant
               ELSE AsBooked(L.reservations[ClaimIn(L, o)])
BookOf(L) == [o \in Owners |-> Entry(L, o)]
FreeOf(L) == [a \in Accounts |-> L.accounts[a].free]

\* What an owner is booked for is the one claim it owns.
LEMMA EntryIs ==
  ASSUME NEW L, Sound(L)
  PROVE  /\ \A i \in Taken(L) : /\ L.reservations[i].owner \in Owners
                                /\ Entry(L, L.reservations[i].owner) = AsBooked(L.reservations[i])
                                /\ AsBooked(L.reservations[i]) # Vacant
         /\ \A o \in Owners : Entry(L, o) # Vacant =>
              \E i \in Taken(L) : L.reservations[i].owner = o
         /\ \A i, j \in Taken(L) : L.reservations[i].owner = L.reservations[j].owner => i = j
<1>1. L \in Ledgers /\ OwnersIn(L)
  BY DEF Sound, LinksIn, Booked
<1>2. ASSUME NEW i \in Taken(L)
      PROVE  /\ L.reservations[i].owner \in Owners /\ i # NIL
             /\ Entry(L, L.reservations[i].owner) = AsBooked(L.reservations[i])
             /\ AsBooked(L.reservations[i]) # Vacant
  <2>1. L.reservations[i] \in Reservation /\ i # NIL
    BY <1>1, TakenTyped, LedgerConstants
  <2>2. AsBooked(L.reservations[i]) \in BookRecord
    BY <2>1 DEF AsBooked, Reservation, BookRecord
  <2>3. OpenIn(L, L.reservations[i].owner) /\ ClaimIn(L, L.reservations[i].owner) = i
    BY <1>1 DEF OwnersIn
  <2> QED BY <2>1, <2>2, <2>3, LedgerConstants DEF Entry, Reservation
<1>3. \A o \in Owners : Entry(L, o) # Vacant => \E i \in Taken(L) : L.reservations[i].owner = o
  BY <1>1 DEF Entry, OwnersIn
<1>4. \A i, j \in Taken(L) : L.reservations[i].owner = L.reservations[j].owner => i = j
  BY <1>1 DEF OwnersIn
<1> QED BY <1>2, <1>3, <1>4

LEMMA SameBooked ==
  ASSUME NEW c, NEW d, SameClaim(c, d) PROVE AsBooked(c) = AsBooked(d)
BY DEF SameClaim, AsBooked

LEMMA BookLoses ==
  ASSUME NEW L, Sound(L), NEW M, Sound(M), NEW D, Loses(L, M, D), NEW o \in Owners
  PROVE  Entry(M, o) = IF \E i \in D : L.reservations[i].owner = o THEN Vacant ELSE Entry(L, o)
<1>1. \A i \in Taken(M) : /\ i \in Taken(L) /\ i \notin D
                          /\ M.reservations[i].owner = L.reservations[i].owner
                          /\ AsBooked(M.reservations[i]) = AsBooked(L.reservations[i])
  BY SameBooked DEF Loses, SameClaim
<1>2. CASE \E i \in D : L.reservations[i].owner = o
  <2>1. PICK i \in D : i \in Taken(L) /\ L.reservations[i].owner = o
    BY <1>2 DEF Loses
  <2>2. SUFFICES ASSUME Entry(M, o) # Vacant PROVE FALSE
    BY <1>2
  <2>3. PICK j \in Taken(M) : M.reservations[j].owner = o
    BY <2>2, EntryIs
  <2>4. j = i
    BY <1>1, <2>1, <2>3, EntryIs
  <2> QED BY <1>1, <2>4
<1>3. CASE ~\E i \in D : L.reservations[i].owner = o
  <2>1. CASE Entry(L, o) = Vacant
    <3>1. SUFFICES ASSUME Entry(M, o) # Vacant PROVE FALSE
      BY <1>3, <2>1
    <3>2. PICK j \in Taken(M) : M.reservations[j].owner = o
      BY <3>1, EntryIs
    <3>3. Entry(L, L.reservations[j].owner) = AsBooked(L.reservations[j])
          /\ AsBooked(L.reservations[j]) # Vacant
      BY <1>1, EntryIs
    <3> QED BY <1>1, <2>1, <3>2, <3>3
  <2>2. CASE Entry(L, o) # Vacant
    <3>1. PICK j \in Taken(L) : L.reservations[j].owner = o
      BY <2>2, EntryIs
    <3>2. j \in Taken(M)
      BY <1>3, <3>1 DEF Loses
    <3>3. Entry(L, o) = AsBooked(L.reservations[j])
      BY <3>1, EntryIs
    <3>4. Entry(M, M.reservations[j].owner) = AsBooked(M.reservations[j])
      BY <3>2, EntryIs
    <3> QED BY <1>1, <1>3, <3>1, <3>2, <3>3, <3>4
  <2> QED BY <2>1, <2>2
<1> QED BY <1>2, <1>3

LEMMA BookGains ==
  ASSUME NEW L, Sound(L), NEW M, Sound(M), NEW i, Gains(L, M, i), NEW o \in Owners
  PROVE  Entry(M, o) = IF o = M.reservations[i].owner THEN AsBooked(M.reservations[i])
                       ELSE Entry(L, o)
<1>1. /\ i \in Taken(M)
      /\ \A j \in Taken(L) : /\ j \in Taken(M)
                             /\ M.reservations[j].owner = L.reservations[j].owner
                             /\ AsBooked(M.reservations[j]) = AsBooked(L.reservations[j])
  BY SameBooked DEF Gains, SameClaim
<1>2. CASE o = M.reservations[i].owner
  BY <1>1, <1>2, EntryIs
<1>3. CASE o # M.reservations[i].owner
  <2>1. CASE Entry(L, o) = Vacant
    <3>1. SUFFICES ASSUME Entry(M, o) # Vacant PROVE FALSE
      BY <1>3, <2>1
    <3>2. PICK j \in Taken(M) : M.reservations[j].owner = o
      BY <3>1, EntryIs
    <3>3. j \in Taken(L)
      BY <1>3, <3>2 DEF Gains
    <3>4. Entry(L, L.reservations[j].owner) = AsBooked(L.reservations[j])
          /\ AsBooked(L.reservations[j]) # Vacant
      BY <3>3, EntryIs
    <3> QED BY <1>1, <2>1, <3>2, <3>3, <3>4
  <2>2. CASE Entry(L, o) # Vacant
    <3>1. PICK j \in Taken(L) : L.reservations[j].owner = o
      BY <2>2, EntryIs
    <3>2. Entry(L, o) = AsBooked(L.reservations[j])
      BY <3>1, EntryIs
    <3>3. Entry(M, M.reservations[j].owner) = AsBooked(M.reservations[j])
      BY <1>1, <3>1, EntryIs
    <3> QED BY <1>1, <1>3, <3>1, <3>2, <3>3
  <2> QED BY <2>1, <2>2
<1> QED BY <1>2, <1>3

LEMMA BookCommits ==
  ASSUME NEW L, Sound(L), NEW M, Sound(M), NEW i \in Taken(L), NEW r, NEW keep,
         Commits(L, M, i, r, keep), NEW o \in Owners
  PROVE  Entry(M, o) = IF o = L.reservations[i].owner
                       THEN [account |-> L.reservations[i].account, amount |-> keep,
                             expires_at |-> Vacant, list |-> r]
                       ELSE Entry(L, o)
<1>1. /\ Taken(M) = Taken(L)
      /\ \A j \in Taken(L) : M.reservations[j].owner = L.reservations[j].owner
      /\ \A j \in Taken(L) \ {i} : AsBooked(M.reservations[j]) = AsBooked(L.reservations[j])
      /\ AsBooked(M.reservations[i]) = [account |-> L.reservations[i].account, amount |-> keep,
                                        expires_at |-> Vacant, list |-> r]
  <2>1. AsBooked(M.reservations[i]) = [account |-> L.reservations[i].account, amount |-> keep,
                                       expires_at |-> Vacant, list |-> r]
    BY DEF Commits, AsBooked
  <2> QED BY <2>1, SameBooked DEF Commits, SameClaim
<1>2. CASE o = L.reservations[i].owner
  <2>1. Entry(M, M.reservations[i].owner) = AsBooked(M.reservations[i])
    BY <1>1, EntryIs
  <2> QED BY <1>1, <1>2, <2>1
<1>3. CASE o # L.reservations[i].owner
  <2>1. CASE Entry(L, o) = Vacant
    <3>1. SUFFICES ASSUME Entry(M, o) # Vacant PROVE FALSE
      BY <1>3, <2>1
    <3>2. PICK j \in Taken(M) : M.reservations[j].owner = o
      BY <3>1, EntryIs
    <3>3. Entry(L, L.reservations[j].owner) = AsBooked(L.reservations[j])
          /\ AsBooked(L.reservations[j]) # Vacant
      BY <1>1, EntryIs
    <3> QED BY <1>1, <2>1, <3>2, <3>3
  <2>2. CASE Entry(L, o) # Vacant
    <3>1. PICK j \in Taken(L) : L.reservations[j].owner = o
      BY <2>2, EntryIs
    <3>2. Entry(L, o) = AsBooked(L.reservations[j]) /\ j # i
      BY <1>3, <3>1, EntryIs
    <3>3. Entry(M, M.reservations[j].owner) = AsBooked(M.reservations[j])
      BY <1>1, EntryIs
    <3> QED BY <1>1, <1>3, <3>1, <3>2, <3>3
  <2> QED BY <2>1, <2>2
<1> QED BY <1>2, <1>3

\* Owners that hold nothing are booked for nothing, open or not.
LEMMA BookSame ==
  ASSUME NEW L, Sound(L), NEW M, Sound(M), M.reservations = L.reservations
  PROVE  \A o \in Owners : Entry(M, o) = Entry(L, o)
<1>1. Loses(L, M, {})
  BY DEF Loses, Taken, SameClaim
<1> QED BY <1>1, BookLoses

LEMMA TotalUnion ==
  ASSUME NEW L \in Ledgers, NEW S \in SUBSET Taken(L), NEW R \in SUBSET Taken(L), S \cap R = {}
  PROVE  Total(L, S \cup R) = Total(L, S) + Total(L, R)
<1> DEFINE T == S \cup R
           f == [j \in T |-> L.reservations[j].amount]
<1>1. IsFiniteSet(S) /\ IsFiniteSet(R)
  BY FS_Subset, LedgerConstants DEF Taken
<1>2. \A j \in S \cup R : f[j] \in Nat
  BY TakenTyped DEF Reservation
<1>3. ASSUME NEW U \in SUBSET T PROVE Total(L, U) = SumFunctionOnSet(f, U)
  <2> DEFINE g == [j \in U |-> L.reservations[j].amount]
  <2>1. IsFiniteSet(U) /\ \A j \in U : f[j] \in Nat /\ g[j] = f[j]
    BY <1>1, <1>2, FS_Subset, FS_Union
  <2>2. DOMAIN g = U /\ Total(L, U) = SumFunctionOnSet(g, DOMAIN g)
    BY DEF Total, SumFunction
  <2> HIDE DEF f, g
  <2>3. SumFunctionOnSet(g, U) = SumFunctionOnSet(f, U)
    BY <2>1, SumSame
  <2> QED BY <2>2, <2>3
<1> HIDE DEF f
<1>4. SumFunctionOnSet(f, S \cup R) = SumFunctionOnSet(f, S) + SumFunctionOnSet(f, R)
  BY <1>1, <1>2, SumUnion
<1> QED BY <1>3, <1>4

\* The stored totals of an account are what its owners are booked for.
LEMMA BookedTotal ==
  ASSUME NEW L, Sound(L), NEW a \in Accounts
  PROVE  LET b == BookOf(L)
             H == {o \in Owners : b[o] # Vacant /\ b[o].account = a}
         IN  SumFunction([o \in H |-> b[o].amount])
               = L.accounts[a].reserved + L.accounts[a].committed
<1> DEFINE b == BookOf(L)
           H == {o \in Owners : b[o] # Vacant /\ b[o].account = a}
<1>b. b = [o \in Owners |-> Entry(L, o)]
  BY DEF BookOf
<1> HIDE DEF b
<1> DEFINE S == Chained(L, a) \cup HeldBy(L, a)
           w == [i \in S |-> L.reservations[i].owner]
           f == [i \in S |-> L.reservations[i].amount]
           h == [o \in H |-> b[o].amount]
<1>1. L \in Ledgers /\ Booked(L)
  BY DEF Sound, LinksIn
<1>2. /\ Chained(L, a) \in SUBSET Taken(L) /\ HeldBy(L, a) \in SUBSET Taken(L)
      /\ Chained(L, a) \cap HeldBy(L, a) = {}
      /\ S = {i \in Taken(L) : L.reservations[i].account = a}
  BY DEF Chained, HeldBy
<1>3. IsFiniteSet(S)
  BY FS_Subset, LedgerConstants DEF Chained, HeldBy, Taken
<1>4. \A i \in Taken(L) : /\ L.reservations[i].amount \in Nat /\ L.reservations[i].owner \in Owners
                          /\ b[L.reservations[i].owner] = AsBooked(L.reservations[i])
                          /\ b[L.reservations[i].owner] # Vacant
                          /\ b[L.reservations[i].owner].account = L.reservations[i].account
                          /\ b[L.reservations[i].owner].amount = L.reservations[i].amount
  <2> TAKE i \in Taken(L)
  <2>1. L.reservations[i].amount \in Nat
    BY <1>1, TakenTyped DEF Reservation
  <2>2. /\ L.reservations[i].owner \in Owners
        /\ b[L.reservations[i].owner] = AsBooked(L.reservations[i])
        /\ AsBooked(L.reservations[i]) # Vacant
    BY <1>b, EntryIs
  <2>3. /\ AsBooked(L.reservations[i]).account = L.reservations[i].account
        /\ AsBooked(L.reservations[i]).amount = L.reservations[i].amount
    BY DEF AsBooked
  <2> QED BY <2>1, <2>2, <2>3
<1>5. \A i \in S : w[i] \in H
  BY <1>2, <1>4
<1>6. \A o \in H : \E i \in S : o = w[i]
  <2> TAKE o \in H
  <2>1. o \in Owners /\ b[o] # Vacant /\ b[o].account = a /\ b[o] = Entry(L, o)
    BY <1>b
  <2>2. PICK i \in Taken(L) : L.reservations[i].owner = o
    BY <2>1, EntryIs
  <2>3. L.reservations[i].account = a
    BY <1>4, <2>1, <2>2
  <2> QED BY <1>2, <2>2, <2>3
<1>7. {w[i] : i \in S} = H
  BY <1>5, <1>6
<1>8. \A i \in S : f[i] \in Nat /\ h[w[i]] = f[i]
  BY <1>2, <1>4, <1>5
<1>9. \A i, j \in S : w[i] = w[j] => i = j
  BY <1>2, EntryIs
<1>10. SumFunction(h) = SumFunctionOnSet(h, H)
  <2>1. DOMAIN h = H
    OBVIOUS
  <2> HIDE DEF h
  <2> QED BY <2>1 DEF SumFunction
<1>11. Total(L, S) = SumFunctionOnSet(f, S)
  <2>1. DOMAIN f = S
    OBVIOUS
  <2> QED BY <2>1 DEF Total, SumFunction
<1> HIDE DEF w, f, h
<1>12. SumFunctionOnSet(h, {w[i] : i \in S}) = SumFunctionOnSet(f, S)
  <2> HIDE DEF S
  <2> QED BY <1>3, <1>8, <1>9, SumRenamed
<1>13. SumFunction(h) = Total(L, S)
  BY <1>7, <1>10, <1>11, <1>12
<1>14. Total(L, S) = L.accounts[a].reserved + L.accounts[a].committed
  BY <1>1, <1>2, TotalUnion DEF Booked, TotalsIn
<1> QED BY <1>13, <1>14 DEF h, b

LEMMA Viewed ==
  /\ [o \in Owners |-> BookEntry(o)] = BookOf(ledger)
  /\ [a \in Accounts |-> ledger.accounts[a].free] = FreeOf(ledger)
  /\ [o \in Owners |-> BookEntry(o)]' = BookOf(ledger')
  /\ [a \in Accounts |-> ledger.accounts[a].free]' = FreeOf(ledger')
BY DEF BookOf, FreeOf, Entry, BookEntry, IsOpen, ClaimOf, OpenIn, ClaimIn, AsBooked

\* The book adds up as the ledger does.
LEMMA SameSum ==
  ASSUME NEW f PROVE BookView!SumFunction(f) = SumFunction(f)
BY DEF BookView!SumFunction, SumFunction, BookView!SumFunctionOnSet, SumFunctionOnSet,
   BookView!FoldFunctionOnSet, FoldFunctionOnSet, BookView!MapThenFoldSet, MapThenFoldSet

SameFree(L, M) == \A a \in Accounts : M.accounts[a].free = L.accounts[a].free

LEMMA SameFreeOf ==
  ASSUME NEW L, NEW M, SameFree(L, M) PROVE FreeOf(M) = FreeOf(L)
BY DEF SameFree, FreeOf

\* A claim admitted by the stored totals is one the book admits.
LEMMA ClaimStep ==
  ASSUME Sound(ledger), NEW o \in Owners, NEW a \in Accounts, NEW n \in Amounts, NEW t \in Times,
         Entry(ledger, o) = Vacant, Reservable(a, n), SameFree(ledger, ledger'),
         \A p \in Owners : Entry(ledger', p) =
           IF p = o THEN [account |-> a, amount |-> n, expires_at |-> t, list |-> Vacant]
           ELSE Entry(ledger, p)
  PROVE  BookView!BookNext
<1> DEFINE c == [account |-> a, amount |-> n, expires_at |-> t, list |-> Vacant]
<1>1. BookOf(ledger)[o] = Vacant
  BY DEF BookOf
<1>2. BookOf(ledger') = [BookOf(ledger) EXCEPT ![o] = c]
  BY DEF BookOf
<1>3. BookView!Claimed(a) = ledger.accounts[a].reserved + ledger.accounts[a].committed
  <2> DEFINE H == {p \in Owners : BookOf(ledger)[p] # Vacant /\ BookOf(ledger)[p].account = a}
  <2>1. BookView!HeldAgainst(a) = H
    BY Viewed DEF BookView!HeldAgainst, BookView!Owners, Owners
  <2>2. BookView!Claimed(a) = SumFunction([p \in H |-> BookOf(ledger)[p].amount])
    <3>1. BookView!Claimed(a)
            = BookView!SumFunction([p \in BookView!HeldAgainst(a) |-> BookOf(ledger)[p].amount])
      <4> DEFINE V == [p \in Owners |-> BookEntry(p)]
      <4>1. BookView!Claimed(a)
              = BookView!SumFunction([p \in BookView!HeldAgainst(a) |-> V[p].amount])
        BY DEF BookView!Claimed
      <4>2. V = BookOf(ledger)
        BY Viewed
      <4> HIDE DEF V
      <4> QED BY <4>1, <4>2
    <3> HIDE DEF H
    <3> QED BY <2>1, <3>1, SameSum
  <2>3. SumFunction([p \in H |-> BookOf(ledger)[p].amount])
          = ledger.accounts[a].reserved + ledger.accounts[a].committed
    BY BookedTotal
  <2> QED BY <2>2, <2>3
<1>4. BookView!Claimed(a) + n <= FreeOf(ledger)[a]
  BY <1>3 DEF Reservable, FreeOf
<1>5. BookView!Claim(o, a, n, t)
  BY <1>1, <1>2, <1>4, Viewed, SameFreeOf DEF BookView!Claim
<1>6. o \in BookView!Owners
  BY DEF BookView!Owners, Owners
<1> QED BY <1>5, <1>6 DEF BookView!BookNext

LEMMA DropStep ==
  ASSUME Sound(ledger), NEW i \in Taken(ledger), ledger.reservations[i].list = Vacant,
         Sound(ledger'), Loses(ledger, ledger', {i}), SameFree(ledger, ledger')
  PROVE  BookView!BookNext
<1> DEFINE o == ledger.reservations[i].owner
<1>1. o \in Owners /\ BookOf(ledger)[o] = AsBooked(ledger.reservations[i])
      /\ BookOf(ledger)[o] # Vacant
  BY EntryIs DEF BookOf
<1>2. BookOf(ledger)[o].list = Vacant
  BY <1>1 DEF AsBooked
<1>3. \A p \in Owners : Entry(ledger', p) = IF p = o THEN Vacant ELSE Entry(ledger, p)
  BY BookLoses
<1> HIDE DEF o
<1>4. BookOf(ledger') = [BookOf(ledger) EXCEPT ![o] = Vacant]
  BY <1>3 DEF BookOf
<1>5. BookView!Drop(o)
  BY <1>1, <1>2, <1>4, Viewed, SameFreeOf DEF BookView!Drop, BookView!Reserved
<1>6. o \in BookView!Owners
  BY <1>1 DEF BookView!Owners, Owners
<1> QED BY <1>5, <1>6 DEF BookView!BookNext

LEMMA CommitStep ==
  ASSUME Sound(ledger), NEW i \in Taken(ledger), ledger.reservations[i].list = Vacant,
         NEW r \in RequestSlots, NEW keep \in Amounts, keep <= ledger.reservations[i].amount,
         Sound(ledger'), Commits(ledger, ledger', i, r, keep), SameFree(ledger, ledger')
  PROVE  BookView!BookNext
<1> DEFINE o == ledger.reservations[i].owner
           c == [account |-> ledger.reservations[i].account, amount |-> keep,
                 expires_at |-> Vacant, list |-> r]
<1>1. o \in Owners /\ BookOf(ledger)[o] = AsBooked(ledger.reservations[i])
      /\ BookOf(ledger)[o] # Vacant
  BY EntryIs DEF BookOf
<1>2. /\ BookOf(ledger)[o].list = Vacant
      /\ BookOf(ledger)[o].amount = ledger.reservations[i].amount
      /\ BookOf(ledger)[o].account = ledger.reservations[i].account
  BY <1>1 DEF AsBooked
<1>3. \A p \in Owners : Entry(ledger', p) = IF p = o THEN c ELSE Entry(ledger, p)
  BY BookCommits
<1>4. c = [account |-> BookOf(ledger)[o].account, amount |-> keep, expires_at |-> Vacant, list |-> r]
  BY <1>2
<1> HIDE DEF o, c
<1>5. BookOf(ledger') = [BookOf(ledger) EXCEPT ![o] = c]
  BY <1>3 DEF BookOf
<1>6. BookView!CommitTo(o, r, keep)
  BY <1>1, <1>2, <1>4, <1>5, Viewed, SameFreeOf DEF BookView!CommitTo, BookView!Reserved
<1>7. o \in BookView!Owners
  BY <1>1 DEF BookView!Owners, Owners
<1> QED BY <1>6, <1>7 DEF BookView!BookNext

LEMMA ExpireStep ==
  ASSUME Sound(ledger), NEW a \in Accounts, NEW t \in Times,
         Sound(ledger'), Loses(ledger, ledger', DeadIn(ledger, a, t)), SameFree(ledger, ledger')
  PROVE  BookView!BookNext
<1> DEFINE b == BookOf(ledger)
           Dies(o) == b[o] # Vacant /\ b[o].account = a /\ b[o].list = Vacant /\ b[o].expires_at <= t
<1>1. ASSUME NEW o \in Owners
      PROVE  (\E i \in DeadIn(ledger, a, t) : ledger.reservations[i].owner = o) <=> Dies(o)
  <2>1. ASSUME NEW i \in DeadIn(ledger, a, t), ledger.reservations[i].owner = o PROVE Dies(o)
    <3>1. i \in Taken(ledger) /\ ledger.reservations[i].list = Vacant
          /\ ledger.reservations[i].account = a /\ ledger.reservations[i].expires_at <= t
      BY DEF DeadIn, Chained
    <3>2. b[o] = AsBooked(ledger.reservations[i]) /\ b[o] # Vacant
      BY <2>1, <3>1, EntryIs DEF BookOf
    <3> HIDE DEF b
    <3> QED BY <3>1, <3>2 DEF AsBooked
  <2>2. ASSUME Dies(o) PROVE \E i \in DeadIn(ledger, a, t) : ledger.reservations[i].owner = o
    <3>1. PICK i \in Taken(ledger) : ledger.reservations[i].owner = o
      BY <2>2, EntryIs DEF BookOf
    <3>2. b[o] = AsBooked(ledger.reservations[i])
      BY <3>1, EntryIs DEF BookOf
    <3> HIDE DEF b
    <3>3. i \in DeadIn(ledger, a, t)
      BY <2>2, <3>1, <3>2 DEF AsBooked, DeadIn, Chained
    <3> QED BY <3>1, <3>3
  <2> QED BY <2>1, <2>2
<1>2. BookOf(ledger') = [o \in Owners |-> IF Dies(o) THEN Vacant ELSE b[o]]
  <2>1. \A o \in Owners : Entry(ledger', o) =
          IF \E i \in DeadIn(ledger, a, t) : ledger.reservations[i].owner = o
          THEN Vacant ELSE Entry(ledger, o)
    BY BookLoses
  <2>2. \A o \in Owners : b[o] = Entry(ledger, o)
    BY DEF BookOf
  <2>3. BookOf(ledger') = [o \in Owners |-> Entry(ledger', o)]
    BY DEF BookOf
  <2> HIDE DEF b, Dies
  <2>4. \A o \in Owners : Entry(ledger', o) = IF Dies(o) THEN Vacant ELSE b[o]
    BY <1>1, <2>1, <2>2
  <2> QED BY <2>3, <2>4
<1> HIDE DEF b
<1>3. BookView!Owners = Owners
  BY DEF BookView!Owners, Owners
<1>4. [o \in Owners |-> BookEntry(o)]' =
        [o \in BookView!Owners |->
           IF o \in BookView!HeldAgainst(a) /\ BookView!Reserved(o)
              /\ [p \in Owners |-> BookEntry(p)][o].expires_at <= t
           THEN Vacant ELSE [p \in Owners |-> BookEntry(p)][o]]
  <2>1. [p \in Owners |-> BookEntry(p)] = b /\ [p \in Owners |-> BookEntry(p)]' = BookOf(ledger')
    BY Viewed DEF b
  <2>2. \A o \in Owners : (o \in BookView!HeldAgainst(a) /\ BookView!Reserved(o)
                           /\ b[o].expires_at <= t) <=> Dies(o)
    BY <1>3, <2>1 DEF BookView!HeldAgainst, BookView!Reserved
  <2> HIDE DEF Dies
  <2> QED BY <1>2, <1>3, <2>1, <2>2
<1>5. BookView!Expire(a, t)
  BY <1>4, Viewed, SameFreeOf DEF BookView!Expire
<1> QED BY <1>5 DEF BookView!BookNext

LEMMA DischargeStep ==
  ASSUME Sound(ledger), NEW r \in RequestSlots,
         Sound(ledger'), Loses(ledger, ledger', Listed(ledger, r)), SameFree(ledger, ledger')
  PROVE  BookView!BookNext
<1> DEFINE b == BookOf(ledger)
           Goes(o) == b[o] # Vacant /\ b[o].list = r
<1>1. ASSUME NEW o \in Owners
      PROVE  (\E i \in Listed(ledger, r) : ledger.reservations[i].owner = o) <=> Goes(o)
  <2>1. ASSUME NEW i \in Listed(ledger, r), ledger.reservations[i].owner = o PROVE Goes(o)
    <3>1. i \in Taken(ledger) /\ ledger.reservations[i].list = r
      BY DEF Listed
    <3>2. b[o] = AsBooked(ledger.reservations[i]) /\ b[o] # Vacant
      BY <2>1, <3>1, EntryIs DEF BookOf
    <3> HIDE DEF b
    <3> QED BY <3>1, <3>2 DEF AsBooked
  <2>2. ASSUME Goes(o) PROVE \E i \in Listed(ledger, r) : ledger.reservations[i].owner = o
    <3>1. PICK i \in Taken(ledger) : ledger.reservations[i].owner = o
      BY <2>2, EntryIs DEF BookOf
    <3>2. b[o] = AsBooked(ledger.reservations[i])
      BY <3>1, EntryIs DEF BookOf
    <3> HIDE DEF b
    <3>3. i \in Listed(ledger, r)
      BY <2>2, <3>1, <3>2 DEF AsBooked, Listed
    <3> QED BY <3>1, <3>3
  <2> QED BY <2>1, <2>2
<1>2. BookOf(ledger') = [o \in Owners |-> IF Goes(o) THEN Vacant ELSE b[o]]
  <2>1. \A o \in Owners : Entry(ledger', o) =
          IF \E i \in Listed(ledger, r) : ledger.reservations[i].owner = o
          THEN Vacant ELSE Entry(ledger, o)
    BY BookLoses
  <2>2. \A o \in Owners : b[o] = Entry(ledger, o)
    BY DEF BookOf
  <2>3. BookOf(ledger') = [o \in Owners |-> Entry(ledger', o)]
    BY DEF BookOf
  <2> HIDE DEF b, Goes
  <2>4. \A o \in Owners : Entry(ledger', o) = IF Goes(o) THEN Vacant ELSE b[o]
    BY <1>1, <2>1, <2>2
  <2> QED BY <2>3, <2>4
<1>3. BookView!Owners = Owners
  BY DEF BookView!Owners, Owners
<1>4. [p \in Owners |-> BookEntry(p)] = b /\ [p \in Owners |-> BookEntry(p)]' = BookOf(ledger')
  BY Viewed
<1> HIDE DEF b
<1>5. BookView!DischargeList(r)
  BY <1>2, <1>3, <1>4, Viewed, SameFreeOf DEF BookView!DischargeList
<1> QED BY <1>5 DEF BookView!BookNext

\* A mirror update, and owners coming and going.
LEMMA MirrorStep ==
  ASSUME Sound(ledger), NEW a \in Accounts, NEW n \in Balances, Sound(ledger'),
         ledger'.reservations = ledger.reservations,
         \A b \in Accounts : ledger'.accounts[b].free
                               = IF b = a THEN n ELSE ledger.accounts[b].free
  PROVE  BookView!BookNext
<1>1. BookOf(ledger') = BookOf(ledger)
  BY BookSame DEF BookOf
<1>2. FreeOf(ledger') = [FreeOf(ledger) EXCEPT ![a] = n]
  BY DEF FreeOf
<1>3. BookView!MirrorBalance(a, n)
  BY <1>1, <1>2, Viewed DEF BookView!MirrorBalance
<1> QED BY <1>3 DEF BookView!BookNext

LEMMA IdleStep ==
  ASSUME Sound(ledger), Sound(ledger'), ledger'.reservations = ledger.reservations,
         ledger'.accounts = ledger.accounts
  PROVE  UNCHANGED BookView!bookVars
<1>1. BookOf(ledger') = BookOf(ledger)
  BY BookSame DEF BookOf
<1>2. FreeOf(ledger') = FreeOf(ledger)
  BY DEF FreeOf
<1> QED BY <1>1, <1>2, Viewed DEF BookView!bookVars

\* What LinkClaim does to a sound ledger is a claim of the book.
LEMMA LinkStep ==
  ASSUME Sound(ledger), NEW o \in Owners, NEW a \in Accounts, NEW i \in VacantSlots,
         NEW n \in Amounts, NEW t \in Times, Reservable(a, n),
         NEW L, Sound(L), L.accounts = ledger.accounts, L.reservations = ledger.reservations,
         OpenIn(L, o), ClaimIn(L, o) = NIL,
         ledger' = LinkClaim(L, i, a, n, t, o)
  PROVE  Sound(ledger') /\ BookView!BookNext
<1>1. i \in ResSlots \ Taken(L) /\ n \in Nat
  BY LedgerConstants DEF VacantSlots, Taken
<1>2. /\ Sound(ledger') /\ Gains(L, ledger', i)
      /\ ledger'.reservations[i].account = a /\ ledger'.reservations[i].amount = n
      /\ ledger'.reservations[i].owner = o /\ ledger'.reservations[i].expires_at = t
      /\ \A b \in Accounts : ledger'.accounts[b].free = L.accounts[b].free
  BY <1>1, ClaimLinked
<1>3. \A p \in Owners : Entry(L, p) = Entry(ledger, p)
  BY BookSame
<1>4. Entry(ledger, o) = Vacant
  BY <1>3 DEF Entry
<1>5. AsBooked(ledger'.reservations[i])
        = [account |-> a, amount |-> n, expires_at |-> t, list |-> Vacant]
  BY <1>2 DEF AsBooked, Gains
<1>6. \A p \in Owners : Entry(ledger', p) =
        IF p = o THEN [account |-> a, amount |-> n, expires_at |-> t, list |-> Vacant]
        ELSE Entry(ledger, p)
  BY <1>2, <1>3, <1>5, BookGains
<1>7. SameFree(ledger, ledger')
  BY <1>2 DEF SameFree
<1>8. BookView!BookNext
  BY <1>4, <1>6, <1>7, ClaimStep
<1> QED BY <1>2, <1>8

\* Every operation keeps the ledger sound, and is a step of the book or none of it.
LEMMA LedgerStep ==
  ASSUME Sound(ledger), LedgerNext
  PROVE  Sound(ledger') /\ (BookView!BookNext \/ UNCHANGED BookView!bookVars)
<1>1. ASSUME NEW a \in Accounts, NEW i \in VacantSlots, NEW n \in Amounts, NEW t \in Times,
             NEW o \in Owners, Reserve(o, i, a, n, t)
      PROVE  Sound(ledger') /\ BookView!BookNext
  <2>1. OpenIn(ledger, o) /\ ClaimIn(ledger, o) = NIL
    BY <1>1 DEF Reserve, IsOpen, ClaimOf, OpenIn, ClaimIn
  <2> QED BY <1>1, <2>1, LinkStep DEF Reserve
<1>2. ASSUME NEW a \in Accounts, NEW i \in VacantSlots, NEW n \in Amounts, NEW t \in Times,
             NEW q \in QuoteSlots, NEW r \in RequestSlots, OpenQuoteReserving(q, r, i, a, n, t)
      PROVE  Sound(ledger') /\ BookView!BookNext
  <2> DEFINE L == [ledger EXCEPT !.quotes[q] = [request |-> r, claim |-> NIL]]
  <2>1. ledger.quotes[q] = Vacant /\ Reservable(a, n) /\ ledger' = LinkClaim(L, i, a, n, t, q)
    BY <1>2 DEF OpenQuoteReserving
  <2>2. /\ Sound(L) /\ L.accounts = ledger.accounts /\ L.reservations = ledger.reservations
        /\ OpenIn(L, q) /\ ClaimIn(L, q) = NIL
    BY <2>1, QuoteOpened
  <2>3. q \in Owners
    BY DEF Owners
  <2> HIDE DEF L
  <2> QED BY <2>1, <2>2, <2>3, LinkStep
<1>3. ASSUME NEW a \in Accounts, NEW i \in VacantSlots, NEW n \in Amounts, NEW t \in Times,
             NEW r \in RequestSlots, OpenRequestReserving(r, i, a, n, t)
      PROVE  Sound(ledger') /\ BookView!BookNext
  <2> DEFINE L == [ledger EXCEPT !.requests[r] = [claim |-> NIL, committed_head |-> NIL]]
  <2>1. ledger.requests[r] = Vacant /\ Reservable(a, n) /\ ledger' = LinkClaim(L, i, a, n, t, r)
    BY <1>3 DEF OpenRequestReserving
  <2>2. /\ Sound(L) /\ L.accounts = ledger.accounts /\ L.reservations = ledger.reservations
        /\ OpenIn(L, r) /\ ClaimIn(L, r) = NIL
    BY <2>1, RequestOpened
  <2>3. r \in Owners
    BY DEF Owners
  <2> HIDE DEF L
  <2> QED BY <2>1, <2>2, <2>3, LinkStep
<1>4. ASSUME NEW i \in ResSlots, IsReserved(i)
      PROVE  /\ i \in Taken(ledger) /\ ledger.reservations[i].account \in Accounts
             /\ ledger.reservations[i].list = Vacant
             /\ i \in Chained(ledger, ledger.reservations[i].account)
  <2>1. i \in Taken(ledger) /\ ledger.reservations[i].list = Vacant
    BY <1>4 DEF IsReserved, Taken
  <2>2. ledger.reservations[i].account \in Accounts
    BY <2>1, TakenTyped DEF Sound, LinksIn, Reservation
  <2> QED BY <2>1, <2>2 DEF Chained
<1>5. ASSUME NEW i \in ResSlots, Release(i)
      PROVE  Sound(ledger') /\ BookView!BookNext
  <2>1. IsReserved(i) /\ ledger' = DropReserved(ledger, i)
    BY <1>5 DEF Release
  <2>2. Sound(ledger') /\ Loses(ledger, ledger', {i}) /\ SameFree(ledger, ledger')
    BY <1>4, <2>1, ReservedDropped DEF SameFree
  <2> QED BY <1>4, <2>1, <2>2, DropStep
<1>6. ASSUME NEW i \in ResSlots, NEW r \in RequestSlots, NEW keep \in Amounts, Commit(i, r, keep)
      PROVE  Sound(ledger') /\ BookView!BookNext
  <2>1. /\ IsReserved(i) /\ ledger.requests[r] # Vacant
        /\ keep <= ledger.reservations[i].amount /\ keep \in Nat
        /\ ledger' = Committed(ledger, i, r, keep)
    BY <1>6, LedgerConstants DEF Commit
  <2>2. Sound(ledger') /\ Commits(ledger, ledger', i, r, keep) /\ SameFree(ledger, ledger')
    BY <1>4, <2>1, ClaimCommitted DEF SameFree
  <2> QED BY <1>4, <2>1, <2>2, CommitStep
<1>7. ASSUME NEW a \in Accounts, NEW t \in Times, ReleaseExpired(a, t)
      PROVE  Sound(ledger') /\ BookView!BookNext
  <2>1. /\ Sound(ledger') /\ Loses(ledger, ledger', DeadIn(ledger, a, t))
        /\ SameFree(ledger, ledger')
    BY <1>7, NormalisedDrops DEF ReleaseExpired, SameFree
  <2> QED BY <2>1, ExpireStep
<1>8. ASSUME NEW a \in Accounts, NEW n \in Balances, ApplyMirrorUpdate(a, n)
      PROVE  Sound(ledger') /\ BookView!BookNext
  <2>1. n \in Nat /\ ledger' = [ledger EXCEPT !.accounts[a].free = n]
    BY <1>8, LedgerConstants DEF ApplyMirrorUpdate
  <2>2. /\ Sound(ledger') /\ ledger'.reservations = ledger.reservations
        /\ \A b \in Accounts : ledger'.accounts[b].free
                                 = IF b = a THEN n ELSE ledger.accounts[b].free
    BY <2>1, MirrorSet
  <2> QED BY <2>2, MirrorStep
<1>9. ASSUME NEW r \in RequestSlots, DischargeCommitted(r)
      PROVE  Sound(ledger') /\ BookView!BookNext
  <2>1. /\ ledger.requests[r] # Vacant /\ ledger' = Discharged(ledger, r)
        /\ \E i \in ResSlots : i = ledger.requests[r].claim /\ ledger.reservations[i].list = r
    BY <1>9 DEF DischargeCommitted
  <2>2. /\ Sound(ledger') /\ Loses(ledger, ledger', Listed(ledger, r))
        /\ SameFree(ledger, ledger')
    BY <2>1, DischargedClears DEF SameFree
  <2> QED BY <2>2, DischargeStep
<1>10. ASSUME NEW q \in QuoteSlots, CloseQuote(q)
       PROVE  Sound(ledger') /\ UNCHANGED BookView!bookVars
  <2>1. /\ ledger.quotes[q] # Vacant /\ ledger.quotes[q].claim = NIL
        /\ ledger' = [ledger EXCEPT !.quotes[q] = Vacant]
    BY <1>10 DEF CloseQuote
  <2>2. /\ Sound(ledger') /\ ledger'.accounts = ledger.accounts
        /\ ledger'.reservations = ledger.reservations
    BY <2>1, QuoteClosed
  <2> QED BY <2>2, IdleStep
<1>11. ASSUME NEW r \in RequestSlots, CloseRequest(r)
       PROVE  Sound(ledger') /\ UNCHANGED BookView!bookVars
  <2>1. /\ ledger.requests[r] = [claim |-> NIL, committed_head |-> NIL]
        /\ ledger' = [ledger EXCEPT !.requests[r] = Vacant]
    BY <1>11 DEF CloseRequest
  <2>2. /\ Sound(ledger') /\ ledger'.accounts = ledger.accounts
        /\ ledger'.reservations = ledger.reservations
    BY <2>1, RequestClosed
  <2> QED BY <2>2, IdleStep
<1> QED BY <1>1, <1>2, <1>3, <1>5, <1>6, <1>7, <1>8, <1>9, <1>10, <1>11 DEF LedgerNext

LEMMA SoundInit ==
  ASSUME LedgerInit PROVE Sound(ledger)
<1> DEFINE L == ledger
<1>1. /\ \A a \in Accounts : /\ HeadOf(L, a) = NIL /\ TailOf(L, a) = NIL
                             /\ L.accounts[a].reserved = 0 /\ L.accounts[a].committed = 0
      /\ \A r \in RequestSlots : L.requests[r] = Vacant
      /\ \A q \in QuoteSlots : L.quotes[q] = Vacant
      /\ \A i \in ResSlots : L.reservations[i] = Vacant
  BY DEF LedgerInit, HeadOf, TailOf
<1>2. L \in Ledgers
  BY DEF LedgerInit, Ledgers, Account, Link
<1>3. /\ Taken(L) = {} /\ \A a : Chained(L, a) = {} /\ HeldBy(L, a) = {}
      /\ \A r : Listed(L, r) = {}
  BY <1>1 DEF Taken, Chained, HeldBy, Listed
<1>4. \A o \in Owners : ~OpenIn(L, o)
  BY <1>1 DEF OpenIn, Owners
<1> HIDE DEF L
<1>5. LinksIn(L, {})
  <2>1. ASSUME NEW a \in Accounts PROVE ChainLinks(L, a, Chained(L, a) \ {})
    <3>1. Chained(L, a) \ {} = {}
      BY <1>3
    <3> QED BY <1>1, <3>1, EmptyChain
  <2> QED BY <1>1, <1>2, <1>3, <2>1 DEF LinksIn, StatesIn, ChainsIn, ListsIn
<1>6. Total(L, {}) = 0
  BY <1>2, TotalParts
<1>7. Booked(L)
  BY <1>1, <1>3, <1>4, <1>6 DEF Booked, OwnersIn, TotalsIn, ClosedIn
<1> QED BY <1>5, <1>7 DEF Sound, L

-----------------------------------------------------------------------------
(* The theorems                                                            *)

LEMMA SumIsTotal ==
  ASSUME NEW S PROVE SumOf(S) = Total(ledger, S)
BY DEF SumOf, Total

\* A path spells what it links.
LEMMA PathSpells ==
  ASSUME NEW s, NEW n, NEW head, NEW tail, IsPath(s, n),
         Threads(s, n, Prev(ledger), Next(ledger), head, tail)
  PROVE  /\ s \in SetToSeqs(Along(s, n)) /\ LinksSpell(s, head) /\ Len(s) = n
         /\ tail = IF s = <<>> THEN NIL ELSE Last(s)
<1>1. s \in SetToSeqs(Along(s, n)) /\ Len(s) = n /\ (s = <<>> <=> n = 0) /\ n \in Nat
  BY PathLength DEF IsPath
<1>2. head = (IF s = <<>> THEN NIL ELSE s[1])
  BY <1>1 DEF Threads, At
<1>3. tail = IF s = <<>> THEN NIL ELSE Last(s)
  BY <1>1 DEF Threads, At, Last
<1>4. ASSUME NEW k \in 1 .. n
      PROVE  /\ ledger.reservations[s[k]].prev = IF k = 1 THEN NIL ELSE s[k - 1]
             /\ ledger.reservations[s[k]].next = IF k = n THEN NIL ELSE s[k + 1]
  <2>1. s[k] \in ResSlots
    BY DEF IsPath
  <2>2. /\ Prev(ledger)[s[k]] = At(s, n, k - 1) /\ Next(ledger)[s[k]] = At(s, n, k + 1)
    BY DEF Threads
  <2>3. At(s, n, k - 1) = (IF k = 1 THEN NIL ELSE s[k - 1])
    BY <1>1 DEF At
  <2>4. At(s, n, k + 1) = IF k = n THEN NIL ELSE s[k + 1]
    BY <1>1 DEF At
  <2> QED BY <2>1, <2>2, <2>3, <2>4 DEF Prev, Next
<1>5. LinksSpell(s, head)
  BY <1>1, <1>2, <1>4 DEF LinksSpell
<1> QED BY <1>1, <1>3, <1>5

LEMMA ChainsAreSound ==
  ASSUME Sound(ledger) PROVE ExpiryChainsSound
<1>1. LedgerTypeOK
  <2>1. ledger \in Ledgers /\ StatesIn(ledger)
    BY DEF Sound, LinksIn
  <2> QED BY <2>1 DEF LedgerTypeOK, Ledgers, StatesIn, Taken
<1>2. ASSUME NEW a \in Accounts
      PROVE  LET entry == ledger.accounts[a]
             IN  /\ \E s \in SetToSeqs(OnChain(a)) :
                      /\ LinksSpell(s, entry.expiry_head)
                      /\ entry.expiry_tail = IF s = <<>> THEN NIL ELSE Last(s)
                      /\ \A j, k \in 1 .. Len(s) : j < k =>
                           ledger.reservations[s[j]].expires_at
                             <= ledger.reservations[s[k]].expires_at
                 /\ entry.reserved = SumOf(OnChain(a))
  <2>1. OnChain(a) = Chained(ledger, a)
    BY DEF OnChain, Slots, Chained, Taken
  <2>2. PICK n, s : /\ IsPath(s, n) /\ Along(s, n) = Chained(ledger, a)
                    /\ Threads(s, n, Prev(ledger), Next(ledger), HeadOf(ledger, a), TailOf(ledger, a))
                    /\ InOrder(ledger, s, n)
    BY DEF Sound, LinksIn, ChainsIn, ChainLinks
  <2>3. /\ s \in SetToSeqs(OnChain(a)) /\ LinksSpell(s, HeadOf(ledger, a)) /\ Len(s) = n
        /\ TailOf(ledger, a) = IF s = <<>> THEN NIL ELSE Last(s)
    BY <2>1, <2>2, PathSpells
  <2>4. ledger.accounts[a].reserved = SumOf(OnChain(a))
    BY <2>1, SumIsTotal DEF Sound, Booked, TotalsIn
  <2> QED BY <2>2, <2>3, <2>4 DEF HeadOf, TailOf, InOrder
<1> QED BY <1>1, <1>2 DEF ExpiryChainsSound

LEMMA ListsAreSound ==
  ASSUME Sound(ledger) PROVE CommittedListsSound
<1>1. OwnersAgree
  <2>1. OwnersIn(ledger)
    BY DEF Sound, Booked
  <2> QED BY <2>1 DEF OwnersAgree, OwnersIn, OpenIn, ClaimIn, IsOpen, ClaimOf, Taken
<1>2. ASSUME NEW r \in RequestSlots
      PROVE  IF ledger.requests[r] = Vacant THEN OnList(r) = {}
             ELSE \E s \in SetToSeqs(OnList(r)) : LinksSpell(s, ledger.requests[r].committed_head)
  <2>1. OnList(r) = Listed(ledger, r)
    BY DEF OnList, Slots, Listed, Taken
  <2>2. CASE ledger.requests[r] = Vacant
    BY <2>1, <2>2 DEF Sound, Booked, ClosedIn
  <2>3. CASE ledger.requests[r] # Vacant
    <3>1. PICK n, s : /\ IsPath(s, n) /\ Along(s, n) = Listed(ledger, r)
                      /\ Threads(s, n, Prev(ledger), Next(ledger), ListHead(ledger, r), At(s, n, n))
      BY <2>3 DEF Sound, LinksIn, ListsIn, ListLinks
    <3>2. s \in SetToSeqs(OnList(r)) /\ LinksSpell(s, ListHead(ledger, r))
      BY <2>1, <3>1, PathSpells
    <3> QED BY <2>3, <3>2 DEF ListHead
  <2> QED BY <2>2, <2>3
<1>3. ASSUME NEW a \in Accounts PROVE ledger.accounts[a].committed = SumOf(CommittedBy(a))
  <2>1. CommittedBy(a) = HeldBy(ledger, a)
    BY DEF CommittedBy, Slots, HeldBy, Taken
  <2> QED BY <2>1, SumIsTotal DEF Sound, Booked, TotalsIn
<1> QED BY <1>1, <1>2, <1>3 DEF CommittedListsSound

\* A sound ledger stays sound.
LEMMA LedgerSound == LedgerSpec => []Sound(ledger)
<1>1. LedgerInit => Sound(ledger)
  BY SoundInit
<1>2. Sound(ledger) /\ [LedgerNext]_ledger => Sound(ledger)'
  <2> SUFFICES ASSUME Sound(ledger), [LedgerNext]_ledger PROVE Sound(ledger')
    OBVIOUS
  <2>1. CASE LedgerNext
    BY <2>1, LedgerStep
  <2>2. CASE UNCHANGED ledger
    BY <2>2
  <2> QED BY <2>1, <2>2
<1> QED BY <1>1, <1>2, PTL DEF LedgerSpec

\* However claims are spliced, dropped, committed and reclaimed, the chain of every account
\* links its reserved claims, each once and in order of expiry, and its stored total is
\* theirs (check_expiry_chains, for any number of claims).
THEOREM ExpiryChainsStaySound == LedgerSpec => []ExpiryChainsSound
<1>1. Sound(ledger) => ExpiryChainsSound
  BY ChainsAreSound
<1> QED BY <1>1, LedgerSound, PTL

\* Owners and claims name each other, every committed claim is once on the list of a request
\* that is still open, and the stored totals are theirs (check_owners, check_committed_lists
\* and check_committed_totals).
THEOREM CommittedListsStaySound == LedgerSpec => []CommittedListsSound
<1>1. Sound(ledger) => CommittedListsSound
  BY ListsAreSound
<1> QED BY <1>1, LedgerSound, PTL

\* The ledger of ledger.rs is a book of claims: admission by stored totals is admission by
\* the claims, reclaiming from the head drops exactly the dead ones, and discharging a list
\* drops exactly the claims committed to its request.
THEOREM LedgerImplementsClaimBook == LedgerSpec => ImplementsClaimBook
<1>1. LedgerInit => BookView!BookInit
  <2> SUFFICES ASSUME LedgerInit PROVE BookView!BookInit
    OBVIOUS
  <2>1. \A o \in Owners : BookEntry(o) = Vacant
    BY DEF LedgerInit, BookEntry, IsOpen, Owners
  <2>2. \A a \in Accounts : ledger.accounts[a].free = 0
    BY DEF LedgerInit
  <2> QED BY <2>1, <2>2 DEF BookView!BookInit, BookView!Owners, Owners
<1>2. Sound(ledger) /\ [LedgerNext]_ledger => [BookView!BookNext]_(BookView!bookVars)
  <2> SUFFICES ASSUME Sound(ledger), [LedgerNext]_ledger
               PROVE  BookView!BookNext \/ UNCHANGED BookView!bookVars
    OBVIOUS
  <2>1. CASE LedgerNext
    BY <2>1, LedgerStep
  <2>2. CASE UNCHANGED ledger
    BY <2>2 DEF BookView!bookVars, BookEntry, IsOpen, ClaimOf
  <2> QED BY <2>1, <2>2
<1> QED BY <1>1, <1>2, LedgerSound, PTL DEF LedgerSpec, ImplementsClaimBook, BookView!BookSpec
=============================================================================
