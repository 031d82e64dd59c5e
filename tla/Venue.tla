------------------------------- MODULE Venue --------------------------------
(***************************************************************************)
(* The runtime of crates/runtime: clients send commands on a bounded       *)
(* channel, one engine thread applies them, a logger thread keeps the      *)
(* command log and a publisher thread performs all I/O.                    *)
(*                                                                         *)
(* Applying a command is Engine's business; here the state of the engine   *)
(* is what was applied, in order, each command at the instant the engine   *)
(* sampled for it, so a replay rebuilds it exactly if it applies the same  *)
(* commands at the same instants.  How many events a command emits is left *)
(* open.                                                                   *)
(***************************************************************************)
EXTENDS Integers, FiniteSets, SequencesExt

CONSTANTS
  Clients,
  CommandChannel, EventRing, CommandLog,   \* capacities of the three channels
  EventBuffer,       \* events one command may emit
  MaxSends,          \* bound: commands each client sends
  MaxTime            \* bound: the last instant the clock shows

ASSUME VenueConstants ==
  /\ CommandChannel \in Nat \ {0} /\ EventRing \in Nat \ {0} /\ CommandLog \in Nat \ {0}
  /\ EventBuffer \in Nat /\ MaxSends \in Nat /\ MaxTime \in Nat

VARIABLES
  clock,
  sent,            \* commands each client has sent
  senders,         \* the clients that still hold the command channel
  inbox,           \* the command channel
  engine_at,       \* where the engine thread is in its loop
  engine,          \* the engine's state: what it has applied
  pending,         \* events of the last command not yet handed off
  event_sequence, events_emitted, events_dropped,
  entries,         \* the channel to the logger
  log,             \* the logger's command log
  events_out,      \* the channel to the publisher
  publisher_at,    \* where the publisher thread is
  published,       \* sequence numbers the sink has been given
  joined           \* `join` has returned

engineVars == <<engine_at, engine, pending, event_sequence, events_emitted, events_dropped>>
publisherVars == <<publisher_at, published>>
venueVars == <<clock, sent, senders, inbox, engineVars, entries, log, events_out,
               publisherVars, joined>>

Halted == {"ChannelClosed", "LogUnrecordable"}

VenueInit ==
  /\ clock = 0
  /\ sent = [c \in Clients |-> 0]
  /\ senders = Clients
  /\ inbox = <<>>
  /\ engine_at = "recv" /\ engine = <<>> /\ pending = 0
  /\ event_sequence = 0 /\ events_emitted = 0 /\ events_dropped = 0
  /\ entries = <<>> /\ log = <<>> /\ events_out = <<>>
  /\ publisher_at = "recv" /\ published = <<>>
  /\ joined = FALSE

-----------------------------------------------------------------------------
\* A client blocks while the channel is full; once the engine is gone its send fails.
Send(c) ==
  /\ c \in senders
  /\ sent[c] < MaxSends
  /\ engine_at \notin Halted
  /\ Len(inbox) < CommandChannel
  /\ sent' = [sent EXCEPT ![c] = @ + 1]
  /\ inbox' = Append(inbox, [client |-> c, number |-> sent[c] + 1])
  /\ UNCHANGED <<clock, senders, engineVars, entries, log, events_out, publisherVars, joined>>

\* A client drops its sender when it is done, and whenever it likes.
CloseSender(c) ==
  /\ c \in senders
  /\ senders' = senders \ {c}
  /\ UNCHANGED <<clock, sent, inbox, engineVars, entries, log, events_out, publisherVars,
                 joined>>

AdvanceClock ==
  /\ clock < MaxTime
  /\ clock' = clock + 1
  /\ UNCHANGED <<sent, senders, inbox, engineVars, entries, log, events_out, publisherVars,
                 joined>>

-----------------------------------------------------------------------------
\* Receive, sample the clock once, apply.
Apply ==
  /\ engine_at = "recv"
  /\ inbox # <<>>
  /\ engine' = Append(engine, [command |-> Head(inbox), at |-> clock])
  /\ inbox' = Tail(inbox)
  /\ pending' \in 0 .. EventBuffer
  /\ engine_at' = "log"
  /\ UNCHANGED <<clock, sent, senders, event_sequence, events_emitted, events_dropped,
                 entries, log, events_out, publisherVars, joined>>

\* Faulty variant: the recorded instant is sampled a second time.
LogEntryResampled ==
  [sequence |-> Len(engine) - 1, command |-> Last(engine).command, at |-> clock]

\* The entry of the command just applied, with the instant it was applied at.
LogEntry ==
  [sequence |-> Len(engine) - 1, command |-> Last(engine).command, at |-> Last(engine).at]

\* A log channel that is full halts the engine, events of the command and all.
Record ==
  /\ engine_at = "log"
  /\ IF Len(entries) < CommandLog
     THEN entries' = Append(entries, LogEntry) /\ engine_at' = "emit"
     ELSE engine_at' = "LogUnrecordable" /\ UNCHANGED entries
  /\ UNCHANGED <<clock, sent, senders, inbox, engine, pending, event_sequence,
                 events_emitted, events_dropped, log, events_out, publisherVars, joined>>

\* Faulty variant: only an event that is handed off takes a number.
EmitUnnumbered ==
  /\ engine_at = "emit" /\ pending > 0
  /\ pending' = pending - 1
  /\ IF publisher_at # "dead" /\ Len(events_out) < EventRing
     THEN /\ events_out' = Append(events_out, event_sequence)
          /\ event_sequence' = event_sequence + 1
          /\ events_emitted' = events_emitted + 1
          /\ UNCHANGED events_dropped
     ELSE /\ events_dropped' = events_dropped + 1
          /\ UNCHANGED <<events_out, event_sequence, events_emitted>>
  /\ UNCHANGED <<clock, sent, senders, inbox, engine_at, engine, entries, log,
                 publisherVars, joined>>

\* Faulty variant: the engine waits for room.
EmitBlocking ==
  /\ engine_at = "emit" /\ pending > 0
  /\ publisher_at # "dead" /\ Len(events_out) < EventRing
  /\ pending' = pending - 1
  /\ event_sequence' = event_sequence + 1
  /\ events_out' = Append(events_out, event_sequence)
  /\ events_emitted' = events_emitted + 1
  /\ UNCHANGED <<clock, sent, senders, inbox, engine_at, engine, entries, log,
                 events_dropped, publisherVars, joined>>

\* One event, numbered before it is offered; refused if the channel is full or unread.
Emit ==
  /\ engine_at = "emit" /\ pending > 0
  /\ pending' = pending - 1
  /\ event_sequence' = event_sequence + 1
  /\ IF publisher_at # "dead" /\ Len(events_out) < EventRing
     THEN /\ events_out' = Append(events_out, event_sequence)
          /\ events_emitted' = events_emitted + 1
          /\ UNCHANGED events_dropped
     ELSE /\ events_dropped' = events_dropped + 1
          /\ UNCHANGED <<events_out, events_emitted>>
  /\ UNCHANGED <<clock, sent, senders, inbox, engine_at, engine, entries, log,
                 publisherVars, joined>>

NextTurn ==
  /\ engine_at = "emit" /\ pending = 0
  /\ engine_at' = "recv"
  /\ UNCHANGED <<clock, sent, senders, inbox, engine, pending, event_sequence,
                 events_emitted, events_dropped, entries, log, events_out, publisherVars,
                 joined>>

\* Faulty variant: the engine stops at the last sender without draining the channel.
HaltAtOnce ==
  /\ engine_at = "recv"
  /\ senders = {}
  /\ engine_at' = "ChannelClosed"
  /\ UNCHANGED <<clock, sent, senders, inbox, engine, pending, event_sequence,
                 events_emitted, events_dropped, entries, log, events_out, publisherVars,
                 joined>>

\* Disconnected: every sender is gone and the channel is drained.
Halt ==
  /\ engine_at = "recv"
  /\ inbox = <<>>
  /\ senders = {}
  /\ engine_at' = "ChannelClosed"
  /\ UNCHANGED <<clock, sent, senders, inbox, engine, pending, event_sequence,
                 events_emitted, events_dropped, entries, log, events_out, publisherVars,
                 joined>>

-----------------------------------------------------------------------------
KeepEntry ==
  /\ entries # <<>>
  /\ log' = Append(log, Head(entries))
  /\ entries' = Tail(entries)
  /\ UNCHANGED <<clock, sent, senders, inbox, engineVars, events_out, publisherVars, joined>>

\* Receive one event and hand it to the sink, which returns when it pleases.
TakeEvent ==
  /\ publisher_at = "recv"
  /\ events_out # <<>>
  /\ publisher_at' = "publish"
  /\ published' = Append(published, Head(events_out))
  /\ events_out' = Tail(events_out)
  /\ UNCHANGED <<clock, sent, senders, inbox, engineVars, entries, log, joined>>

Published ==
  /\ publisher_at = "publish"
  /\ publisher_at' = "recv"
  /\ UNCHANGED <<clock, sent, senders, inbox, engineVars, entries, log, events_out,
                 published, joined>>

\* The sink panics: the thread ends and what its channel held is gone.
PublisherDies ==
  /\ publisher_at = "publish"
  /\ publisher_at' = "dead"
  /\ events_out' = <<>>
  /\ UNCHANGED <<clock, sent, senders, inbox, engineVars, entries, log, published, joined>>

\* A worker retires when the engine has dropped its sender and its channel is drained.
LoggerRetired == engine_at \in Halted /\ entries = <<>>
PublisherRetired ==
  engine_at \in Halted /\ (publisher_at = "dead" \/ (publisher_at = "recv" /\ events_out = <<>>))

Join ==
  /\ ~joined
  /\ LoggerRetired /\ PublisherRetired
  /\ joined' = TRUE
  /\ UNCHANGED <<clock, sent, senders, inbox, engineVars, entries, log, events_out,
                 publisherVars>>

EngineThread == Apply \/ Record \/ Emit \/ NextTurn \/ Halt
PublisherThread == TakeEvent \/ Published

VenueNext ==
  \/ \E c \in Clients : Send(c) \/ CloseSender(c)
  \/ AdvanceClock
  \/ EngineThread
  \/ KeepEntry
  \/ PublisherThread
  \/ PublisherDies
  \/ Join

\* The engine spins and the workers block on a channel, so each runs whenever it can; a
\* sink returns from every call.  Clients owe nothing.
VenueFairness ==
  WF_venueVars(EngineThread) /\ WF_venueVars(KeepEntry) /\ WF_venueVars(PublisherThread)
  /\ WF_venueVars(Join)

VenueSpec == VenueInit /\ [][VenueNext]_venueVars /\ VenueFairness

-----------------------------------------------------------------------------
Command == [client : Clients, number : 1 .. MaxSends]

VenueTypeOK ==
  /\ clock \in 0 .. MaxTime /\ sent \in [Clients -> 0 .. MaxSends] /\ senders \subseteq Clients
  /\ inbox \in Seq(Command) /\ Len(inbox) <= CommandChannel
  /\ engine_at \in Halted \cup {"recv", "log", "emit"}
  /\ engine \in Seq([command : Command, at : 0 .. MaxTime]) /\ pending \in 0 .. EventBuffer
  /\ Len(entries) <= CommandLog /\ Len(events_out) <= EventRing
  /\ publisher_at \in {"recv", "publish", "dead"} /\ joined \in BOOLEAN

\* replay: each entry's command again, at the instant it recorded.
Replay(recorded) ==
  [n \in 1 .. Len(recorded) |-> [command |-> recorded[n].command, at |-> recorded[n].at]]

\* Between commands, and after an ordinary end, what is logged or on its way to the log
\* replays to the engine's own state; while one is being handled, or was when the log
\* refused it, to the state before that command.
ReplayRebuildsEngine ==
  /\ VenueTypeOK
  /\ Replay(log \o entries) =
       IF engine_at \in {"log", "LogUnrecordable"} THEN Front(engine) ELSE engine

\* A lost event shows: what the sink sees is increasing, and while the publisher lives the
\* numbers it has not seen and is not about to are exactly the refused ones.
GapsExposeLoss ==
  LET seen == published \o events_out
  IN  /\ \A m, n \in 1 .. Len(seen) : m < n => seen[m] < seen[n]
      /\ publisher_at # "dead" =>
           Cardinality(0 .. (event_sequence - 1) \ ToSet(seen)) = events_dropped

\* Once every client is done, a round ends: whatever becomes of the publisher and however
\* many events were refused, the engine drains its channel or halts, and `join` returns.
RoundEnds == (senders = {}) ~> joined

\* A command that was accepted is applied, unless the log stopped the engine.
AcceptedIsApplied ==
  \A c \in Clients, n \in 1 .. MaxSends :
    (sent[c] >= n) ~>
      (engine_at = "LogUnrecordable"
       \/ \E k \in 1 .. Len(engine) : engine[k].command = [client |-> c, number |-> n])

\* venue.rs:266-270: the engine halts rather than leave a command applied that replay can
\* never reproduce, so what a round leaves behind replays to the engine it left behind.
RoundReplays == joined => Replay(log) = engine

\* venue.rs:276-279: a refusal means the publisher stopped draining, never that a
\* subscriber is slow, so no event is refused while the sink is being served.
NeverRefusedWhilePublishing ==
  [][events_dropped' > events_dropped => publisher_at # "publish"]_venueVars
=============================================================================
