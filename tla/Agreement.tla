----------------------------- MODULE Agreement ------------------------------
(***************************************************************************)
(* What submitting a trade to custody promises.  A trade has one or more   *)
(* parts.  Custody decides each wanted trade once; a trade decided         *)
(* "Settled" takes effect in all of its parts at that moment, and any      *)
(* other decision in none; whoever asked learns that decision and no       *)
(* other, later or never.                                                  *)
(***************************************************************************)
EXTENDS Naturals

CONSTANTS Trades, Answers, Undecided, MaxParts

VARIABLES
  wanted,    \* trades handed over for settlement
  parts,     \* of how many parts each wanted trade is
  decision,  \* the answer of each trade, or Undecided
  known,     \* what the asker believes of it
  formed     \* how many parts took effect

agreementVars == <<wanted, parts, decision, known, formed>>

Init ==
  /\ wanted = {}
  /\ parts = [t \in Trades |-> 0]
  /\ decision = [t \in Trades |-> Undecided]
  /\ known = [t \in Trades |-> Undecided]
  /\ formed = 0

Want(t) ==
  /\ t \notin wanted
  /\ wanted' = wanted \cup {t}
  /\ \E n \in 1..MaxParts : parts' = [parts EXCEPT ![t] = n]
  /\ UNCHANGED <<decision, known, formed>>

Decide(t, answer) ==
  /\ t \in wanted
  /\ decision[t] = Undecided
  /\ decision' = [decision EXCEPT ![t] = answer]
  /\ formed' = IF answer = "Settled" THEN formed + parts[t] ELSE formed
  /\ UNCHANGED <<wanted, parts, known>>

Learn(t) ==
  /\ decision[t] # Undecided
  /\ known[t] = Undecided
  /\ known' = [known EXCEPT ![t] = decision[t]]
  /\ UNCHANGED <<wanted, parts, decision, formed>>

Next == \E t \in Trades : Want(t) \/ Learn(t) \/ \E answer \in Answers : Decide(t, answer)

Spec == Init /\ [][Next]_agreementVars
=============================================================================
