------------------------------ MODULE Gateway -------------------------------
(***************************************************************************)
(* The gateway of crates/runtime: external contracts and account keys in,  *)
(* dense indices and commands out.  It remembers every contract it has     *)
(* given an index to, and tells the core about each once, with a           *)
(* RegisterContract ahead of the first request that names it.              *)
(*                                                                         *)
(* The commands of a call are submitted in order and applied in order;     *)
(* the core is external here, reduced to the set of contracts it has been  *)
(* told of.  A contract is told from another by equality alone, so a       *)
(* description is a model value.                                           *)
(***************************************************************************)
EXTENDS Integers, SequencesExt

CONSTANTS
  ContractRefs, AccountKeys,
  MaxContracts, MaxAccounts, MaxLegs,
  Unassigned,        \* no index yet
  MaxCalls           \* bound: calls made to the gateway

ASSUME GatewayConstants ==
  /\ MaxContracts \in Nat /\ MaxAccounts \in Nat /\ MaxLegs \in Nat /\ MaxCalls \in Nat
  /\ Unassigned \notin Nat

VARIABLES
  contracts,    \* the index of each contract
  by_index,     \* the description store, shared with the publisher
  poisoned,     \* a thread panicked while it held the store's lock
  accounts,     \* the index of each account key
  outbox,       \* commands handed back and not yet applied
  registered,   \* the contracts the core knows
  unknown,      \* history: contracts for which a request was refused as unknown
  lost,         \* history: contracts given an index in a call that failed
  calls

gatewayVars == <<contracts, by_index, poisoned, accounts, outbox, registered, unknown,
                 lost, calls>>

GatewayInit ==
  /\ contracts = [c \in ContractRefs |-> Unassigned]
  /\ by_index = <<>>
  /\ poisoned = FALSE
  /\ accounts = [k \in AccountKeys |-> Unassigned]
  /\ outbox = <<>>
  /\ registered = {}
  /\ unknown = {}
  /\ lost = {}
  /\ calls = 0

Assigned(table) == {k \in DOMAIN table : table[k] # Unassigned}

\* The dense index of a key: the one it has, or the next, if the table has room.
IndexIn(table, k) == IF table[k] # Unassigned THEN table[k] ELSE Cardinality(Assigned(table))

HasRoom(table, k, limit) == table[k] # Unassigned \/ Cardinality(Assigned(table)) < limit

\* What a call carries from leg to leg.
Untouched == [contracts |-> contracts, by_index |-> by_index,
              registrations |-> <<>>, specs |-> <<>>, failed |-> FALSE]

\* Faulty variant: the next index is the next place of the description store.
ResolveByStore(call, c) ==
  IF call.failed THEN call
  ELSE IF call.contracts[c] # Unassigned
  THEN [call EXCEPT !.specs = Append(@, call.contracts[c])]
  ELSE IF ~HasRoom(call.contracts, c, MaxContracts) THEN [call EXCEPT !.failed = TRUE]
  ELSE LET index == Len(call.by_index)
       IN  IF poisoned
           THEN [call EXCEPT !.contracts[c] = index, !.failed = TRUE]
           ELSE [call EXCEPT !.contracts[c] = index, !.by_index = Append(@, c),
                             !.registrations = Append(@, index), !.specs = Append(@, index)]

\* Faulty variant: a contract is announced by the call after the one that first saw it.
ResolveSilently(call, c) ==
  IF call.failed THEN call
  ELSE IF call.contracts[c] # Unassigned
  THEN [call EXCEPT !.specs = Append(@, call.contracts[c])]
  ELSE IF ~HasRoom(call.contracts, c, MaxContracts) THEN [call EXCEPT !.failed = TRUE]
  ELSE LET index == IndexIn(call.contracts, c)
       IN  IF poisoned
           THEN [call EXCEPT !.contracts[c] = index, !.failed = TRUE]
           ELSE [call EXCEPT !.contracts[c] = index, !.by_index = Append(@, c),
                             !.specs = Append(@, index)]

\* One leg: a known contract gives its index; a new one is given the next index, entered
\* in the store, if the lock can be had, and announced.
Resolve(call, c) ==
  IF call.failed THEN call
  ELSE IF call.contracts[c] # Unassigned
  THEN [call EXCEPT !.specs = Append(@, call.contracts[c])]
  ELSE IF ~HasRoom(call.contracts, c, MaxContracts) THEN [call EXCEPT !.failed = TRUE]
  ELSE LET index == IndexIn(call.contracts, c)
       IN  IF poisoned
           THEN [call EXCEPT !.contracts[c] = index, !.failed = TRUE]
           ELSE [call EXCEPT !.contracts[c] = index, !.by_index = Append(@, c),
                             !.registrations = Append(@, index), !.specs = Append(@, index)]

RegisterCommands(call) ==
  [n \in 1 .. Len(call.registrations) |-> [name |-> "RegisterContract",
                                           names |-> {call.registrations[n]}]]

SubmitRequestCommand(call) == [name |-> "SubmitRequest", names |-> ToSet(call.specs)]

IndicesOf(f) == {f[c] : c \in DOMAIN f}

\* What a call leaves in the gateway; one that failed hands back no command at all.
Conclude(call, commands) ==
  /\ contracts' = call.contracts
  /\ by_index' = call.by_index
  /\ outbox' = IF call.failed THEN outbox ELSE outbox \o commands
  /\ lost' = IF call.failed
             THEN lost \cup (IndicesOf(call.contracts) \ IndicesOf(contracts)) ELSE lost
  /\ calls' = calls + 1
  /\ UNCHANGED <<poisoned, registered, unknown>>

\* contract: an index for one contract, with its announcement.
ResolveContract(c) ==
  /\ calls < MaxCalls
  /\ LET call == Resolve(Untouched, c) IN Conclude(call, RegisterCommands(call))
  /\ UNCHANGED accounts

\* submit_request: too many legs are refused before anything is looked up; then the
\* requester's index, then the legs in order.
SubmitRequest(k, legs) ==
  /\ calls < MaxCalls
  /\ Len(legs) <= MaxLegs
  /\ HasRoom(accounts, k, MaxAccounts)
  /\ accounts' = [accounts EXCEPT ![k] = IndexIn(accounts, k)]
  /\ LET call == FoldLeft(Resolve, Untouched, legs)
     IN  Conclude(call, Append(RegisterCommands(call), SubmitRequestCommand(call)))

PoisonRegistry ==
  /\ ~poisoned
  /\ poisoned' = TRUE
  /\ UNCHANGED <<contracts, by_index, accounts, outbox, registered, unknown, lost, calls>>

\* The core takes the next command: it registers, or refuses a request on what it does
\* not know.
ApplyNext ==
  /\ outbox # <<>>
  /\ outbox' = Tail(outbox)
  /\ \/ /\ Head(outbox).name = "RegisterContract"
        /\ registered' = registered \cup Head(outbox).names
        /\ UNCHANGED unknown
     \/ /\ Head(outbox).name = "SubmitRequest"
        /\ unknown' = unknown \cup (Head(outbox).names \ registered)
        /\ UNCHANGED registered
  /\ UNCHANGED <<contracts, by_index, poisoned, accounts, lost, calls>>

\* What a client may ask for, one leg too many included.
Legs == UNION {[1 .. n -> ContractRefs] : n \in 0 .. (MaxLegs + 1)}

GatewayNext ==
  \/ \E c \in ContractRefs : ResolveContract(c)
  \/ \E k \in AccountKeys, legs \in Legs : SubmitRequest(k, legs)
  \/ PoisonRegistry
  \/ ApplyNext

GatewaySpec == GatewayInit /\ [][GatewayNext]_gatewayVars

-----------------------------------------------------------------------------
Indices == 0 .. (MaxContracts - 1)

GatewayTypeOK ==
  /\ contracts \in [ContractRefs -> Indices \cup {Unassigned}]
  /\ by_index \in Seq(ContractRefs)
  /\ poisoned \in BOOLEAN
  /\ accounts \in [AccountKeys -> 0 .. (MaxAccounts - 1) \cup {Unassigned}]
  /\ \A n \in 1 .. Len(outbox) : outbox[n].names \subseteq Indices
  /\ registered \cup unknown \cup lost \subseteq Indices

\* Two contracts never share an index, and the wording the publisher reads back for an
\* index is that of the contract the index was given to, failures in between included.
IndexNamesOneContract ==
  /\ GatewayTypeOK
  /\ \A c \in Assigned(contracts) :
       /\ \A d \in Assigned(contracts) : contracts[c] = contracts[d] => c = d
       /\ contracts[c] < Len(by_index) => by_index[contracts[c] + 1] = c

\* The core meets a contract it was not told of only if a call that failed had named it.
UnknownOnlyAfterFailure == unknown \subseteq lost

\* gateway.rs:141-143: no command is needed for a known contract because the core knows it
\* already.  What the gateway knows is registered, or on its way.
KnownToTheCore ==
  \A c \in Assigned(contracts) :
    \/ contracts[c] \in registered
    \/ \E n \in 1 .. Len(outbox) :
         outbox[n].name = "RegisterContract" /\ contracts[c] \in outbox[n].names
=============================================================================
