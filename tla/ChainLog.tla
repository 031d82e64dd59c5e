------------------------------ MODULE ChainLog ------------------------------
(***************************************************************************)
(* The append-only log of crates/chain: the only path from custody back to *)
(* the engine.  An entry carries the block it landed in, the transaction   *)
(* that wrote it, its index there and its payload; head moves by mining    *)
(* and by a reorg.                                                         *)
(***************************************************************************)
EXTENDS Integers, Sequences, SequencesExt

VARIABLES
  entries,   \* every entry on the chain, oldest first
  head,      \* current block height
  next_tx    \* transactions minted so far

logVars == <<entries, head, next_tx>>

LogInit ==
  /\ entries = <<>>
  /\ head = 0
  /\ next_tx = 0

BalanceChanged(a, available) ==
  [kind |-> "BalanceChanged", account |-> a, available |-> available]
SettlementResolved(n, status) ==
  [kind |-> "SettlementResolved", nonce |-> n, status |-> status]

\* One append per payload, each in a transaction of its own.
Append1(payloads) ==
  /\ entries' = entries \o
       [i \in DOMAIN payloads |->
          [block |-> head, tx |-> next_tx + i - 1, index |-> 0, payload |-> payloads[i]]]
  /\ next_tx' = next_tx + Len(payloads)
  /\ UNCHANGED head

\* One transaction for all the payloads, told apart by their index in it.
AppendTransaction(payloads) ==
  /\ entries' = entries \o
       [i \in DOMAIN payloads |->
          [block |-> head, tx |-> next_tx, index |-> i - 1, payload |-> payloads[i]]]
  /\ next_tx' = next_tx + 1
  /\ UNCHANGED head

AdvanceBlock ==
  /\ head' = head + 1
  /\ UNCHANGED <<entries, next_tx>>

\* What is below the block, in its order.
Retained(es, block) ==
  FoldLeft(LAMBDA kept, e : IF e.block < block THEN Append(kept, e) ELSE kept, <<>>, es)

\* Discard every entry at or above the block and move the head just below it.
Reorg(block) ==
  /\ entries' = Retained(entries, block)
  /\ head' = IF block = 0 THEN 0 ELSE block - 1
  /\ UNCHANGED next_tx
=============================================================================
