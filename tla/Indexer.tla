------------------------------ MODULE Indexer -------------------------------
(***************************************************************************)
(* The indexer of crates/chain over a log that may reorg.  It reads the    *)
(* log in order up to its confirmation depth, drops what it has delivered  *)
(* before, and hands the rest to the engine; a restart may lose the cursor *)
(* but keeps the deduplication set.                                        *)
(*                                                                         *)
(* ReadNext is one turn of the loop in `drain`; `pump_indexer` runs it     *)
(* until it is disabled.  Reorgs are assumed to stay within the            *)
(* confirmation depth of the highest head the log has had: a deeper one    *)
(* is out of the design (log.rs, SPEC section 12).                         *)
(***************************************************************************)
EXTENDS ChainLog, FiniteSets

CONSTANTS
  Confirmations,   \* blocks to wait before an entry is believed
  Payloads,
  MaxHead,         \* bound: the highest block
  MaxEntries,      \* bound: entries ever written
  MaxReorgs, MaxRestarts   \* bounds: how often each happens

ASSUME IndexerConstants ==
  Confirmations \in Nat /\ MaxHead \in Nat /\ MaxEntries \in Nat
  /\ MaxReorgs \in Nat /\ MaxRestarts \in Nat

VARIABLES
  cursor,      \* entries read, whether or not they were delivered
  delivered,   \* the (transaction, index) of every entry delivered
  handed,      \* every entry delivered, in order of delivery
  tip,         \* the highest head so far
  reorgs, restarts

readerVars == <<cursor, delivered, handed>>
indexerVars == <<logVars, readerVars, tip, reorgs, restarts>>

IndexerInit ==
  /\ LogInit
  /\ cursor = 0
  /\ delivered = {}
  /\ handed = <<>>
  /\ tip = 0
  /\ reorgs = 0
  /\ restarts = 0

\* At or below the horizon, which does not exist while the chain is too young.
Confirmed(e) == e.block + Confirmations <= head

\* Faulty variant: the entries of a transaction are one.
KeyOfTransaction(e) == <<e.tx, 0>>

Key(e) == <<e.tx, e.index>>

\* Faulty variant: an entry seen before does not move the cursor.
CursorPastNew(e) == IF Key(e) \in delivered THEN cursor ELSE cursor + 1

CursorPast(e) == cursor + 1

\* One turn of the drain loop: an unconfirmed entry stops it, a seen one is skipped.
ReadNext ==
  /\ cursor < Len(entries)
  /\ LET e == entries[cursor + 1]
     IN  /\ Confirmed(e)
         /\ cursor' = CursorPast(e)
         /\ \/ /\ Key(e) \in delivered
               /\ UNCHANGED <<delivered, handed>>
            \/ /\ Key(e) \notin delivered
               /\ delivered' = delivered \cup {Key(e)}
               /\ handed' = Append(handed, e)
  /\ UNCHANGED <<logVars, tip, reorgs, restarts>>

\* A restart that lost its position and kept what it delivered.
Rewind ==
  /\ restarts < MaxRestarts
  /\ restarts' = restarts + 1
  /\ cursor' = 0
  /\ UNCHANGED <<logVars, delivered, handed, tip, reorgs>>

Publish(payloads) ==
  /\ Len(entries) + Len(payloads) <= MaxEntries
  /\ next_tx < MaxEntries
  /\ Append1(payloads) \/ AppendTransaction(payloads)
  /\ UNCHANGED <<readerVars, tip, reorgs, restarts>>

Mine ==
  /\ head < MaxHead
  /\ AdvanceBlock
  /\ tip' = IF head' > tip THEN head' ELSE tip
  /\ UNCHANGED <<readerVars, reorgs, restarts>>

ShallowReorg(block) ==
  /\ reorgs < MaxReorgs
  /\ block \in 1..head
  /\ block + Confirmations > tip
  /\ reorgs' = reorgs + 1
  /\ Reorg(block)
  /\ UNCHANGED <<readerVars, tip, restarts>>

IndexerNext ==
  \/ ReadNext
  \/ Rewind
  \/ \E n \in {1, 2} : \E payloads \in [1..n -> Payloads] : Publish(payloads)
  \/ Mine
  \/ \E block \in 0..MaxHead : ShallowReorg(block)

\* The chain keeps mining, and pump_indexer follows every block and every log entry.
IndexerSpec == IndexerInit /\ [][IndexerNext]_indexerVars
        /\ WF_indexerVars(ReadNext) /\ WF_indexerVars(Mine)

-----------------------------------------------------------------------------
(* Correctness *)

\* The cursor stays inside the log: no entry it passed is ever discarded.
IndexerTypeOK ==
  /\ head \in 0..MaxHead /\ tip \in head..MaxHead
  /\ next_tx \in Nat
  /\ \A i \in DOMAIN entries : entries[i].block \in 0..MaxHead /\ entries[i].tx < next_tx
  /\ cursor \in 0..Len(entries)
  /\ delivered \subseteq (Nat \X Nat)

\* What the engine was handed is the log from its start, in order: nothing skipped,
\* nothing twice, and nothing that later vanished (indexer.rs: the depth avoids reorgs
\* and the set makes a replay a no-op).
HandedIsLogPrefix ==
  /\ IndexerTypeOK
  /\ Len(handed) <= Len(entries)
  /\ handed = SubSeq(entries, 1, Len(handed))

\* Every entry that gets deep enough is handed over, through restarts and reorgs.
ConfirmedIsHanded ==
  \A i \in 1..MaxEntries :
    (Len(entries) >= i /\ Confirmed(entries[i])) ~> (Len(handed) >= i)
=============================================================================
