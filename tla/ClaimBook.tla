----------------------------- MODULE ClaimBook ------------------------------
(***************************************************************************)
(* What the ledger of crates/core promises: a book of claims, at most one  *)
(* per owner, each held against one account until it is released, expires, *)
(* or is committed to a request and discharged with it.  Ledger implements *)
(* it with linked chains and stored totals; `claims` of Engine is such a   *)
(* book.                                                                   *)
(***************************************************************************)
EXTENDS Integers, FiniteSetsExt, Functions

CONSTANTS
  Accounts, RequestSlots, QuoteSlots,
  Amounts, Times,    \* what a claim may hold, and when it may expire
  Balances,          \* what the mirror may be set to
  Vacant

Owners == RequestSlots \cup QuoteSlots

VARIABLES
  free,   \* mirrored balance of each account
  book    \* the claim of each owner

bookVars == <<free, book>>

\* A claim on no list is reserved and expires; one on a request's list is committed.
Reserved(o) == book[o] # Vacant /\ book[o].list = Vacant
HeldAgainst(a) == {o \in Owners : book[o] # Vacant /\ book[o].account = a}
Claimed(a) == SumFunction([o \in HeldAgainst(a) |-> book[o].amount])

BookInit ==
  /\ free = [a \in Accounts |-> 0]
  /\ book = [o \in Owners |-> Vacant]

MirrorBalance(a, n) ==
  /\ free' = [free EXCEPT ![a] = n]
  /\ UNCHANGED book

\* A claim is admitted only if every claim of the account still fits its balance.
Claim(o, a, n, t) ==
  /\ book[o] = Vacant
  /\ Claimed(a) + n <= free[a]
  /\ book' = [book EXCEPT ![o] =
                [account |-> a, amount |-> n, expires_at |-> t, list |-> Vacant]]
  /\ UNCHANGED free

Drop(o) ==
  /\ Reserved(o)
  /\ book' = [book EXCEPT ![o] = Vacant]
  /\ UNCHANGED free

\* Committing keeps part of the amount, frees the rest and forgets the expiry.
CommitTo(o, r, keep) ==
  /\ Reserved(o)
  /\ keep <= book[o].amount
  /\ book' = [book EXCEPT ![o] =
                [account |-> @.account, amount |-> keep, expires_at |-> Vacant, list |-> r]]
  /\ UNCHANGED free

\* Normalising an account drops exactly its dead reserved claims.
Expire(a, t) ==
  /\ book' = [o \in Owners |->
                IF o \in HeldAgainst(a) /\ Reserved(o) /\ book[o].expires_at <= t
                THEN Vacant ELSE book[o]]
  /\ UNCHANGED free

DischargeList(r) ==
  /\ book' = [o \in Owners |->
                IF book[o] # Vacant /\ book[o].list = r THEN Vacant ELSE book[o]]
  /\ UNCHANGED free

BookNext ==
  \/ \E a \in Accounts, n \in Balances : MirrorBalance(a, n)
  \/ \E a \in Accounts, t \in Times : Expire(a, t)
  \/ \E r \in RequestSlots : DischargeList(r)
  \/ \E o \in Owners :
       \/ \E a \in Accounts, n \in Amounts, t \in Times : Claim(o, a, n, t)
       \/ \E r \in RequestSlots, keep \in Amounts : CommitTo(o, r, keep)
       \/ Drop(o)

BookSpec == BookInit /\ [][BookNext]_bookVars
=============================================================================
