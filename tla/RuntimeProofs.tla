---------------------------- MODULE RuntimeProofs -----------------------------
(***************************************************************************)
(* For any number of clients and any channel capacities, the command log   *)
(* replays to the engine that wrote it and a gap in the published numbers  *)
(* is an event the engine counted as dropped; for any number of contracts, *)
(* the gateway's indices are never shared and the core is told of one      *)
(* before a request names it.                                              *)
(*                                                                         *)
(* The logger only moves entries from its channel to the log, so the two   *)
(* together are what the engine recorded, and the engine records exactly   *)
(* what it has applied, one command behind while it handles one.  In the   *)
(* gateway the invariant is one of the call as it goes from leg to leg:    *)
(* the table stays dense, the store holds a prefix of it, and what is new  *)
(* is announced unless the call fails.                                     *)
(***************************************************************************)
EXTENDS Venue, Gateway, Induction

Applied == [command : Command, at : 0 .. MaxTime]
LogRecord == [sequence : Nat, command : Command, at : 0 .. MaxTime]

Recorded == log \o entries

\* What the log should hold: all that was applied, or all but the command in hand.
Covered == IF engine_at \in {"log", "LogUnrecordable"} THEN Len(engine) - 1 ELSE Len(engine)

RecordedIsApplied ==
  /\ Covered \in Nat
  /\ Len(Recorded) = Covered
  /\ \A n \in 1 .. Covered :
       Recorded[n].command = engine[n].command /\ Recorded[n].at = engine[n].at

VInv ==
  /\ VenueTypeOK
  /\ log \in Seq(LogRecord) /\ entries \in Seq(LogRecord)
  /\ events_out \in Seq(Nat) /\ published \in Seq(Nat) /\ event_sequence \in Nat
  /\ RecordedIsApplied

-----------------------------------------------------------------------------
\* Handing the oldest element of one sequence to the end of another moves nothing else.
LEMMA Relayed ==
  ASSUME NEW S, NEW s \in Seq(S), NEW t \in Seq(S), t # <<>>
  PROVE  /\ Append(s, Head(t)) \in Seq(S) /\ Tail(t) \in Seq(S)
         /\ Append(s, Head(t)) \o Tail(t) = s \o t
<1>1. /\ Head(t) \in S /\ Tail(t) \in Seq(S) /\ Len(Tail(t)) = Len(t) - 1
      /\ Head(t) = t[1] /\ Len(t) \in Nat /\ Len(t) >= 1
      /\ \A i \in 1 .. Len(t) - 1 : Tail(t)[i] = t[i + 1]
  BY HeadTailProperties, LenProperties
<1>2. /\ Append(s, Head(t)) \in Seq(S) /\ Len(Append(s, Head(t))) = Len(s) + 1
      /\ \A i \in 1 .. Len(s) : Append(s, Head(t))[i] = s[i]
      /\ Append(s, Head(t))[Len(s) + 1] = t[1]
  BY <1>1, AppendProperties
<1> DEFINE u == Append(s, Head(t)) \o Tail(t)
           v == s \o t
<1>3. /\ u \in Seq(S) /\ Len(u) = Len(s) + Len(t)
      /\ \A i \in 1 .. Len(s) + Len(t) :
           u[i] = IF i <= Len(s) + 1 THEN Append(s, Head(t))[i] ELSE Tail(t)[i - (Len(s) + 1)]
  <2>1. Len(s) \in Nat
    BY LenProperties
  <2> QED BY <1>1, <1>2, <2>1, ConcatProperties
<1>4. /\ v \in Seq(S) /\ Len(v) = Len(s) + Len(t)
      /\ \A i \in 1 .. Len(s) + Len(t) : v[i] = IF i <= Len(s) THEN s[i] ELSE t[i - Len(s)]
  BY ConcatProperties
<1>5. \A i \in 1 .. Len(u) : u[i] = v[i]
  <2> SUFFICES ASSUME NEW i \in 1 .. Len(s) + Len(t) PROVE u[i] = v[i]
    BY <1>3
  <2>1. Len(s) \in Nat
    BY LenProperties
  <2>2. CASE i <= Len(s)
    BY <1>2, <1>3, <1>4, <2>1, <2>2
  <2>3. CASE i = Len(s) + 1
    BY <1>2, <1>3, <1>4, <2>1, <2>3
  <2>4. CASE i > Len(s) + 1
    <3>1. i - (Len(s) + 1) \in 1 .. Len(t) - 1 /\ i - (Len(s) + 1) + 1 = i - Len(s)
      BY <1>1, <2>1, <2>4
    <3> QED BY <1>1, <1>3, <1>4, <2>1, <2>4, <3>1
  <2> QED BY <2>1, <2>2, <2>3, <2>4
<1> HIDE DEF u, v
<1>6. u = v
  BY <1>3, <1>4, <1>5, SeqEqual
<1> QED BY <1>1, <1>2, <1>6 DEF u, v

LEMMA InitHolds == VenueInit => VInv
<1> SUFFICES ASSUME VenueInit PROVE VInv
  OBVIOUS
<1>1. /\ inbox = <<>> /\ engine = <<>> /\ entries = <<>> /\ log = <<>> /\ events_out = <<>>
      /\ published = <<>>
  BY DEF VenueInit
<1>2. VenueTypeOK
  <2>1. /\ inbox \in Seq(Command) /\ Len(inbox) = 0
        /\ engine \in Seq([command : Command, at : 0 .. MaxTime])
        /\ Len(entries) = 0 /\ Len(events_out) = 0
    BY <1>1
  <2>2. sent \in [Clients -> 0 .. MaxSends] /\ clock \in 0 .. MaxTime
    BY VenueConstants DEF VenueInit
  <2>3. /\ senders \subseteq Clients /\ engine_at = "recv" /\ publisher_at = "recv"
        /\ joined = FALSE /\ pending = 0
    BY DEF VenueInit
  <2>4. 0 <= CommandChannel /\ 0 <= CommandLog /\ 0 <= EventRing /\ 0 \in 0 .. EventBuffer
    BY VenueConstants
  <2> QED BY <2>1, <2>2, <2>3, <2>4 DEF VenueTypeOK, Halted
<1>3. Recorded = <<>> /\ Len(Recorded) = 0
  BY <1>1 DEF Recorded
<1>4. Covered = 0
  BY <1>1 DEF VenueInit, Covered
<1> QED BY <1>1, <1>2, <1>3, <1>4 DEF VInv, RecordedIsApplied, VenueInit

-----------------------------------------------------------------------------
(* One lemma per kind of step *)

\* Nothing that the log or the engine's state is made of moves.
LEMMA AsideKeeps ==
  ASSUME VInv, VenueTypeOK',
         UNCHANGED <<engine_at, engine, entries, log>>,
         events_out' \in Seq(Nat), published' \in Seq(Nat), event_sequence' \in Nat
  PROVE  VInv'
BY DEF VInv, RecordedIsApplied, Recorded, Covered

LEMMA SendKeeps ==
  ASSUME VInv, NEW c \in Clients, Send(c) \/ CloseSender(c)
  PROVE  VInv'
<1>1. CASE Send(c)
  <2>1. [client |-> c, number |-> sent[c] + 1] \in Command
    BY <1>1, VenueConstants DEF Send, VInv, VenueTypeOK, Command
  <2>2. inbox' \in Seq(Command) /\ Len(inbox') <= CommandChannel
    BY <1>1, <2>1, VenueConstants DEF Send, VInv, VenueTypeOK
  <2>3. sent' \in [Clients -> 0 .. MaxSends]
    BY <1>1, VenueConstants DEF Send, VInv, VenueTypeOK
  <2>4. VenueTypeOK'
    BY <1>1, <2>2, <2>3 DEF Send, VInv, VenueTypeOK, engineVars, publisherVars
  <2> QED BY <1>1, <2>4, AsideKeeps DEF Send, VInv, engineVars, publisherVars
<1>2. CASE CloseSender(c)
  <2>1. VenueTypeOK'
    BY <1>2 DEF CloseSender, VInv, VenueTypeOK, engineVars, publisherVars
  <2> QED BY <1>2, <2>1, AsideKeeps DEF CloseSender, VInv, engineVars, publisherVars
<1> QED BY <1>1, <1>2

\* The clock, the end of a turn or of the engine, the publisher and the joining thread.
LEMMA QuietKeeps ==
  ASSUME VInv,
         \/ AdvanceClock \/ Emit \/ TakeEvent \/ Published \/ PublisherDies \/ Join
         \/ UNCHANGED venueVars
  PROVE  VInv'
<1>1. CASE AdvanceClock
  <2>1. VenueTypeOK'
    BY <1>1, VenueConstants DEF AdvanceClock, VInv, VenueTypeOK, engineVars, publisherVars
  <2> QED BY <1>1, <2>1, AsideKeeps DEF AdvanceClock, VInv, engineVars, publisherVars
<1>2. CASE Emit
  <2>1. events_out' \in Seq(Nat) /\ Len(events_out') <= EventRing
    <3>1. CASE events_out' = events_out
      BY <3>1 DEF VInv, VenueTypeOK
    <3>2. CASE events_out' = Append(events_out, event_sequence) /\ Len(events_out) < EventRing
      BY <3>2, AppendProperties, LenProperties, VenueConstants DEF VInv
    <3> QED BY <1>2, <3>1, <3>2 DEF Emit
  <2>2. pending' \in 0 .. EventBuffer /\ event_sequence' \in Nat
    BY <1>2, VenueConstants DEF Emit, VInv, VenueTypeOK
  <2>3. VenueTypeOK'
    BY <1>2, <2>1, <2>2 DEF Emit, VInv, VenueTypeOK, publisherVars
  <2> QED BY <1>2, <2>1, <2>2, <2>3, AsideKeeps DEF Emit, VInv, publisherVars
<1>3. CASE TakeEvent
  <2>1. events_out' \in Seq(Nat) /\ Len(events_out') <= EventRing /\ published' \in Seq(Nat)
    BY <1>3, VenueConstants, HeadTailProperties DEF TakeEvent, VInv, VenueTypeOK
  <2>2. VenueTypeOK'
    BY <1>3, <2>1 DEF TakeEvent, VInv, VenueTypeOK, engineVars
  <2> QED BY <1>3, <2>1, <2>2, AsideKeeps DEF TakeEvent, VInv, engineVars
<1>4. CASE Published
  <2>1. VenueTypeOK'
    BY <1>4 DEF Published, VInv, VenueTypeOK, engineVars
  <2> QED BY <1>4, <2>1, AsideKeeps DEF Published, VInv, engineVars
<1>5. CASE PublisherDies
  <2>1. events_out' \in Seq(Nat) /\ Len(events_out') <= EventRing
    BY <1>5, VenueConstants DEF PublisherDies
  <2>2. VenueTypeOK'
    BY <1>5, <2>1 DEF PublisherDies, VInv, VenueTypeOK, engineVars
  <2> QED BY <1>5, <2>1, <2>2, AsideKeeps DEF PublisherDies, VInv, engineVars
<1>6. CASE Join
  <2>1. VenueTypeOK'
    BY <1>6 DEF Join, VInv, VenueTypeOK, engineVars, publisherVars
  <2> QED BY <1>6, <2>1, AsideKeeps DEF Join, VInv, engineVars, publisherVars
<1>7. CASE UNCHANGED venueVars
  <2>1. VenueTypeOK'
    BY <1>7 DEF venueVars, VInv, VenueTypeOK, engineVars, publisherVars
  <2> QED BY <1>7, <2>1, AsideKeeps DEF venueVars, VInv, engineVars, publisherVars
<1> QED BY <1>1, <1>2, <1>3, <1>4, <1>5, <1>6, <1>7

\* The engine moves on without touching what it applied, and stays clear of the two
\* places where the last command is not on record.
LEMMA TurnKeeps ==
  ASSUME VInv, NextTurn \/ Halt
  PROVE  VInv'
<1>1. /\ engine_at \in {"recv", "emit"} /\ engine_at' \in {"recv", "ChannelClosed"}
      /\ UNCHANGED <<clock, sent, senders, inbox, engine, pending, event_sequence, entries,
                     log, events_out, publisher_at, published, joined>>
  BY DEF NextTurn, Halt, publisherVars
<1>2. VenueTypeOK'
  BY <1>1 DEF VInv, VenueTypeOK, Halted
<1>3. Covered' = Covered /\ Recorded' = Recorded
  BY <1>1 DEF Covered, Recorded
<1> QED BY <1>1, <1>2, <1>3 DEF VInv, RecordedIsApplied

\* One more command is applied and none is recorded.
LEMMA ApplyKeeps ==
  ASSUME VInv, Apply
  PROVE  VInv'
<1> DEFINE a == [command |-> Head(inbox), at |-> clock]
<1>1. /\ engine_at = "recv" /\ engine_at' = "log" /\ engine' = Append(engine, a)
      /\ pending' \in 0 .. EventBuffer /\ inbox' = Tail(inbox) /\ inbox # <<>>
      /\ UNCHANGED <<clock, sent, senders, event_sequence, entries, log, events_out,
                     publisher_at, published, joined>>
  BY DEF Apply, publisherVars
<1>2. /\ Head(inbox) \in Command /\ inbox' \in Seq(Command) /\ Len(inbox') <= CommandChannel
  BY <1>1, VenueConstants, HeadTailProperties DEF VInv, VenueTypeOK
<1>3. a \in Applied
  BY <1>2 DEF VInv, VenueTypeOK, Applied
<1>4. /\ engine' \in Seq(Applied) /\ Len(engine') = Len(engine) + 1 /\ Len(engine) \in Nat
      /\ \A n \in 1 .. Len(engine) : engine'[n] = engine[n]
  BY <1>1, <1>3, AppendProperties, LenProperties DEF VInv, VenueTypeOK, Applied
<1>5. VenueTypeOK'
  BY <1>1, <1>2, <1>4 DEF VInv, VenueTypeOK, Applied, Halted
<1>6. Covered' = Covered /\ Covered = Len(engine) /\ Recorded' = Recorded
  BY <1>1, <1>4 DEF Covered, Recorded
<1>7. RecordedIsApplied'
  BY <1>4, <1>6 DEF VInv, RecordedIsApplied
<1> QED BY <1>1, <1>5, <1>7 DEF VInv

\* The command in hand is recorded as it was applied, or the engine halts on it.
LEMMA RecordKeeps ==
  ASSUME VInv, Record
  PROVE  VInv'
<1>1. /\ engine_at = "log"
      /\ UNCHANGED <<clock, sent, senders, inbox, engine, pending, event_sequence, log,
                     events_out, publisher_at, published, joined>>
  BY DEF Record, publisherVars
<1>2. CASE entries' = entries /\ engine_at' = "LogUnrecordable"
  <2>1. VenueTypeOK'
    BY <1>1, <1>2 DEF VInv, VenueTypeOK, Halted
  <2>2. Covered' = Covered /\ Recorded' = Recorded
    BY <1>1, <1>2 DEF Covered, Recorded
  <2> QED BY <1>1, <1>2, <2>1, <2>2 DEF VInv, RecordedIsApplied
<1>3. CASE /\ Len(entries) < CommandLog
           /\ entries' = Append(entries, LogEntry) /\ engine_at' = "emit"
  <2> DEFINE k == Len(engine)
  <2>1. k \in Nat /\ k >= 1 /\ Covered = k - 1 /\ Covered' = k
    <3>1. k \in Nat
      BY LenProperties DEF VInv, VenueTypeOK
    <3>2. Covered = k - 1 /\ Covered' = k
      BY <1>1, <1>3 DEF Covered
    <3> QED BY <3>1, <3>2 DEF VInv, RecordedIsApplied
  <2>2. engine[k] \in Applied /\ Last(engine) = engine[k]
    <3>1. engine \in Seq(Applied)
      BY DEF VInv, VenueTypeOK, Applied
    <3> QED BY <2>1, <3>1, ElementOfSeq DEF Last
  <2>3. /\ LogEntry \in LogRecord
        /\ LogEntry.command = engine[k].command /\ LogEntry.at = engine[k].at
    BY <2>1, <2>2 DEF LogEntry, LogRecord, Applied
  <2>4. /\ log \in Seq(LogRecord) /\ entries \in Seq(LogRecord)
        /\ entries' \in Seq(LogRecord) /\ Len(entries') = Len(entries) + 1
        /\ entries' = entries \o <<LogEntry>>
    BY <1>3, <2>3, AppendProperties, AppendIsConcat DEF VInv
  <2>5. Recorded' = Append(Recorded, LogEntry) /\ Recorded \in Seq(LogRecord)
    <3>1. Recorded' = (log \o entries) \o <<LogEntry>>
      BY <1>1, <2>3, <2>4, ConcatAssociative DEF Recorded
    <3>2. Recorded \in Seq(LogRecord)
      BY <2>4, ConcatProperties DEF Recorded
    <3> QED BY <2>3, <3>1, <3>2, AppendIsConcat DEF Recorded
  <2>6. /\ Len(Recorded') = k
        /\ \A n \in 1 .. k - 1 : Recorded'[n] = Recorded[n]
        /\ Recorded'[k] = LogEntry
    BY <2>1, <2>3, <2>5, AppendProperties DEF VInv, RecordedIsApplied
  <2>7. RecordedIsApplied'
    <3>1. \A n \in 1 .. k : Recorded'[n].command = engine[n].command
                              /\ Recorded'[n].at = engine[n].at
      <4>1. \A n \in 1 .. k - 1 : Recorded'[n].command = engine[n].command
                                    /\ Recorded'[n].at = engine[n].at
        BY <2>1, <2>6 DEF VInv, RecordedIsApplied
      <4>2. \A n \in 1 .. k : n \in 1 .. k - 1 \/ n = k
        BY <2>1
      <4> QED BY <2>3, <2>6, <4>1, <4>2
    <3> QED BY <1>1, <2>1, <2>6, <3>1 DEF RecordedIsApplied
  <2>8. VenueTypeOK'
    <3>1. Len(entries') <= CommandLog
      BY <1>3, <2>4, LenProperties, VenueConstants
    <3> QED BY <1>1, <1>3, <3>1 DEF VInv, VenueTypeOK
  <2> QED BY <1>1, <2>4, <2>7, <2>8 DEF VInv
<1> QED BY <1>2, <1>3 DEF Record

\* The logger moves an entry from its channel to its log.
LEMMA KeepKeeps ==
  ASSUME VInv, KeepEntry
  PROVE  VInv'
<1>1. /\ entries # <<>> /\ log' = Append(log, Head(entries)) /\ entries' = Tail(entries)
      /\ UNCHANGED <<clock, sent, senders, inbox, engine_at, engine, pending, event_sequence,
                     events_out, publisher_at, published, joined>>
  BY DEF KeepEntry, engineVars, publisherVars
<1>2. log' \in Seq(LogRecord) /\ entries' \in Seq(LogRecord) /\ Recorded' = Recorded
  <2>1. log \in Seq(LogRecord) /\ entries \in Seq(LogRecord)
    BY DEF VInv
  <2>2. /\ Append(log, Head(entries)) \in Seq(LogRecord) /\ Tail(entries) \in Seq(LogRecord)
        /\ Append(log, Head(entries)) \o Tail(entries) = log \o entries
    BY <1>1, <2>1, Relayed
  <2> QED BY <1>1, <2>2 DEF Recorded
<1>3. Len(entries') <= CommandLog
  BY <1>1, HeadTailProperties, LenProperties, VenueConstants DEF VInv, VenueTypeOK
<1>4. VenueTypeOK'
  BY <1>1, <1>3 DEF VInv, VenueTypeOK
<1> QED BY <1>1, <1>2, <1>4 DEF VInv, RecordedIsApplied, Covered

LEMMA NextKeeps == VInv /\ [VenueNext]_venueVars => VInv'
<1> SUFFICES ASSUME VInv, [VenueNext]_venueVars PROVE VInv'
  OBVIOUS
<1>1. ASSUME NEW c \in Clients, Send(c) \/ CloseSender(c) PROVE VInv'
  BY <1>1, SendKeeps
<1> QED
  BY <1>1, QuietKeeps, TurnKeeps, ApplyKeeps, RecordKeeps, KeepKeeps
  DEF VenueNext, EngineThread, PublisherThread

LEMMA VInvHolds == VenueSpec => []VInv
BY InitHolds, NextKeeps, PTL DEF VenueSpec

-----------------------------------------------------------------------------
\* What the log holds and is about to hold replays to the state of the engine, or to the
\* state before the command the engine is handling or halted on.
THEOREM LogReplays == VenueSpec => []ReplayRebuildsEngine
<1>1. VInv => ReplayRebuildsEngine
  <2> SUFFICES ASSUME VInv PROVE ReplayRebuildsEngine
    OBVIOUS
  <2> DEFINE whole == IF engine_at \in {"log", "LogUnrecordable"} THEN Front(engine) ELSE engine
  <2>1. engine \in Seq(Applied) /\ Len(engine) \in Nat /\ Covered \in Nat
    BY LenProperties DEF VInv, VenueTypeOK, Applied, RecordedIsApplied
  <2>2. /\ whole \in Seq(Applied) /\ Len(whole) = Covered
        /\ \A n \in 1 .. Covered : whole[n] = engine[n]
    <3>1. CASE engine_at \in {"log", "LogUnrecordable"}
      <4>1. Covered = Len(engine) - 1 /\ whole = SubSeq(engine, 1, Len(engine) - 1)
        BY <3>1 DEF Covered, Front
      <4>2. \A i \in 1 .. Len(engine) - 1 : engine[i] \in Applied
        BY <2>1, ElementOfSeq
      <4> QED BY <2>1, <4>1, <4>2, SubSeqProperties
    <3>2. CASE engine_at \notin {"log", "LogUnrecordable"}
      BY <2>1, <3>2 DEF Covered
    <3> QED BY <3>1, <3>2
  <2> HIDE DEF whole
  <2>3. Len(Recorded) = Covered
    BY DEF VInv, RecordedIsApplied
  <2>4. Replay(Recorded) = [n \in 1 .. Covered |-> whole[n]]
    <3> SUFFICES ASSUME NEW n \in 1 .. Covered
                 PROVE  [command |-> Recorded[n].command, at |-> Recorded[n].at] = whole[n]
      BY <2>3 DEF Replay
    <3>1. Recorded[n].command = engine[n].command /\ Recorded[n].at = engine[n].at
      BY DEF VInv, RecordedIsApplied
    <3>2. whole[n] = engine[n] /\ whole[n] \in Applied
      BY <2>2, ElementOfSeq
    <3> QED BY <3>1, <3>2 DEF Applied
  <2>5. whole = [n \in 1 .. Covered |-> whole[n]]
    BY <2>2, LenProperties
  <2> QED BY <2>4, <2>5 DEF ReplayRebuildsEngine, Recorded, VInv, whole
<1> QED BY <1>1, VInvHolds, PTL

-----------------------------------------------------------------------------
(* Lost events *)

\* The numbers the sink has seen or is about to, and those it never will.
Seen == published \o events_out
Missing == 0 .. (event_sequence - 1) \ ToSet(Seen)

Increasing == \A m, n \in 1 .. Len(Seen) : m < n => Seen[m] < Seen[n]

GInv ==
  /\ VInv
  /\ events_dropped \in Nat
  /\ Increasing
  /\ \A m \in 1 .. Len(Seen) : Seen[m] < event_sequence
  /\ publisher_at # "dead" => Cardinality(Missing) = events_dropped

LEMMA SeenIsSeq == ASSUME VInv PROVE Seen \in Seq(Nat) /\ Len(Seen) \in Nat
BY ConcatProperties, LenProperties DEF VInv, Seen

LEMMA MissingFinite == ASSUME VInv PROVE IsFiniteSet(Missing)
<1>1. IsFiniteSet(0 .. (event_sequence - 1))
  BY FS_Interval DEF VInv
<1> QED BY <1>1, FS_Subset DEF Missing

LEMMA NothingSeenYet == VenueInit => GInv
<1> SUFFICES ASSUME VenueInit PROVE GInv
  OBVIOUS
<1>1. VInv
  BY InitHolds
<1>2. Seen = <<>> /\ Len(Seen) = 0
  BY DEF VenueInit, Seen
<1>3. Missing = {} /\ events_dropped = 0
  BY DEF VenueInit, Missing
<1> QED BY <1>1, <1>2, <1>3, FS_EmptySet DEF GInv, Increasing

\* A step that moves neither what was seen nor the count of the refused.
LEMMA UnseenKeeps ==
  ASSUME GInv, VInv', Seen' = Seen,
         UNCHANGED <<event_sequence, events_dropped>>,
         publisher_at' # "dead" => publisher_at # "dead"
  PROVE  GInv'
BY DEF GInv, Increasing, Missing

\* An event handed off is the next number; a refused one is missing from then on.
LEMMA EmitShows ==
  ASSUME GInv, VInv', Emit
  PROVE  GInv'
<1>1. /\ event_sequence \in Nat /\ event_sequence' = event_sequence + 1
      /\ publisher_at' = publisher_at /\ published' = published
  BY DEF Emit, GInv, VInv, publisherVars
<1>2. Seen \in Seq(Nat) /\ Len(Seen) \in Nat
  BY SeenIsSeq DEF GInv
<1>3. \A x \in ToSet(Seen) : x < event_sequence
  <2>1. \A m \in 1 .. Len(Seen) : Seen[m] < event_sequence
    BY DEF GInv
  <2>2. DOMAIN Seen = 1 .. Len(Seen)
    BY <1>2, LenProperties
  <2> QED BY <2>1, <2>2 DEF ToSet
<1>4. CASE /\ events_out' = Append(events_out, event_sequence)
           /\ events_dropped' = events_dropped
  <2>1. Seen' = Append(Seen, event_sequence)
    <3>1. events_out' = events_out \o <<event_sequence>>
      BY <1>1, <1>4, AppendIsConcat DEF GInv, VInv
    <3>2. Seen' = (published \o events_out) \o <<event_sequence>>
      <4>1. /\ published \in Seq(Nat) /\ events_out \in Seq(Nat)
            /\ <<event_sequence>> \in Seq(Nat)
        BY <1>1 DEF GInv, VInv
      <4>2. published \o (events_out \o <<event_sequence>>)
              = (published \o events_out) \o <<event_sequence>>
        BY <4>1, ConcatAssociative
      <4> QED BY <1>1, <3>1, <4>2 DEF Seen
    <3> QED BY <1>1, <1>2, <3>2, AppendIsConcat DEF Seen
  <2>2. /\ Len(Seen') = Len(Seen) + 1
        /\ \A i \in 1 .. Len(Seen) : Seen'[i] = Seen[i]
        /\ Seen'[Len(Seen) + 1] = event_sequence
        /\ DOMAIN Seen = 1 .. Len(Seen) /\ DOMAIN Seen' = 1 .. Len(Seen) + 1
    BY <1>1, <1>2, <2>1, AppendProperties, LenProperties
  <2>3. Increasing'
    <3> SUFFICES ASSUME NEW m \in 1 .. Len(Seen) + 1, NEW n \in 1 .. Len(Seen) + 1, m < n
                 PROVE  Seen'[m] < Seen'[n]
      BY <2>2 DEF Increasing
    <3>1. m \in 1 .. Len(Seen)
      BY <1>2
    <3>2. CASE n = Len(Seen) + 1
      BY <2>2, <3>1, <3>2 DEF GInv
    <3>3. CASE n \in 1 .. Len(Seen)
      BY <2>2, <3>1, <3>3 DEF GInv, Increasing
    <3> QED BY <1>2, <3>2, <3>3
  <2>4. \A m \in 1 .. Len(Seen') : Seen'[m] < event_sequence'
    <3> SUFFICES ASSUME NEW m \in 1 .. Len(Seen) + 1 PROVE Seen'[m] < event_sequence + 1
      BY <1>1, <2>2
    <3>1. CASE m = Len(Seen) + 1
      BY <1>1, <2>2, <3>1
    <3>2. CASE m \in 1 .. Len(Seen)
      <4>1. Seen[m] < event_sequence /\ Seen[m] \in Nat
        BY <1>2, <3>2, ElementOfSeq DEF GInv
      <4> QED BY <1>1, <2>2, <3>2, <4>1
    <3> QED BY <1>2, <3>1, <3>2
  <2>5. ToSet(Seen') = ToSet(Seen) \cup {event_sequence}
    <3>1. 1 .. Len(Seen) + 1 = 1 .. Len(Seen) \cup {Len(Seen) + 1}
      BY <1>2
    <3> QED BY <2>2, <3>1 DEF ToSet
  <2>6. Missing' = Missing
    <3>1. Missing' = 0 .. event_sequence \ (ToSet(Seen) \cup {event_sequence})
      BY <1>1, <2>5 DEF Missing
    <3>2. 0 .. event_sequence = 0 .. (event_sequence - 1) \cup {event_sequence}
      BY <1>1
    <3> QED BY <1>1, <3>1, <3>2 DEF Missing
  <2> QED BY <1>1, <1>4, <2>3, <2>4, <2>6 DEF GInv
<1>5. CASE events_out' = events_out /\ events_dropped' = events_dropped + 1
  <2>1. Seen' = Seen
    BY <1>1, <1>5 DEF Seen
  <2>2. Missing' = Missing \cup {event_sequence}
    <3>1. Missing' = 0 .. event_sequence \ ToSet(Seen)
      BY <1>1, <2>1 DEF Missing
    <3>2. 0 .. event_sequence = 0 .. (event_sequence - 1) \cup {event_sequence}
      BY <1>1
    <3>3. event_sequence \notin ToSet(Seen)
      BY <1>1, <1>3
    <3> QED BY <3>1, <3>2, <3>3 DEF Missing
  <2>3. event_sequence \notin Missing
    BY <1>1 DEF Missing
  <2>4. Cardinality(Missing') = Cardinality(Missing) + 1
    BY <2>2, <2>3, MissingFinite, FS_AddElement DEF GInv
  <2>5. \A m \in 1 .. Len(Seen) : Seen[m] < event_sequence + 1
    <3>1. \A m \in 1 .. Len(Seen) : Seen[m] \in Nat
      BY <1>2, ElementOfSeq
    <3> QED BY <1>1, <3>1 DEF GInv
  <2> QED BY <1>1, <1>5, <2>1, <2>4, <2>5 DEF GInv, Increasing
<1> QED BY <1>4, <1>5 DEF Emit

LEMMA TakeShows ==
  ASSUME GInv, VInv', TakeEvent
  PROVE  GInv'
<1>1. Seen' = Seen
  <2>1. /\ published \in Seq(Nat) /\ events_out \in Seq(Nat) /\ events_out # <<>>
        /\ published' = Append(published, Head(events_out))
        /\ events_out' = Tail(events_out)
    BY DEF TakeEvent, GInv, VInv
  <2>2. Append(published, Head(events_out)) \o Tail(events_out) = published \o events_out
    BY <2>1, Relayed
  <2> QED BY <2>1, <2>2 DEF Seen
<1> QED BY <1>1, UnseenKeeps DEF TakeEvent, engineVars

\* What the sink was given stays increasing when the rest is lost with the thread.
LEMMA DeathShows ==
  ASSUME GInv, VInv', PublisherDies
  PROVE  GInv'
<1>1. /\ publisher_at' = "dead" /\ published' = published /\ events_out' = <<>>
      /\ event_sequence' = event_sequence /\ events_dropped' = events_dropped
  BY DEF PublisherDies, engineVars
<1>2. published \in Seq(Nat) /\ events_out \in Seq(Nat)
  BY DEF GInv, VInv
<1>3. Seen' = published
  BY <1>1, <1>2, ConcatEmptySeq DEF Seen
<1>4. /\ Len(published) \in Nat /\ Len(published) <= Len(Seen) /\ Len(Seen) \in Nat
      /\ \A i \in 1 .. Len(published) : Seen[i] = published[i]
  BY <1>2, ConcatProperties, LenProperties DEF Seen
<1> QED BY <1>1, <1>3, <1>4 DEF GInv, Increasing

LEMMA NextShows == GInv /\ [VenueNext]_venueVars => GInv'
<1> SUFFICES ASSUME GInv, [VenueNext]_venueVars PROVE GInv'
  OBVIOUS
<1>1. VInv'
  BY NextKeeps DEF GInv
<1>2. CASE Emit
  BY <1>1, <1>2, EmitShows
<1>3. CASE TakeEvent
  BY <1>1, <1>3, TakeShows
<1>4. CASE PublisherDies
  BY <1>1, <1>4, DeathShows
<1>5. CASE /\ UNCHANGED <<published, events_out, event_sequence, events_dropped>>
           /\ publisher_at' # "dead" => publisher_at # "dead"
  <2>1. Seen' = Seen
    BY <1>5 DEF Seen
  <2> QED BY <1>1, <1>5, <2>1, UnseenKeeps
<1>6. CASE Published
  BY <1>5, <1>6 DEF Published, engineVars
<1>7. CASE Apply \/ Record \/ NextTurn \/ Halt
  BY <1>5, <1>7 DEF Apply, Record, NextTurn, Halt, publisherVars
<1>8. CASE AdvanceClock \/ KeepEntry \/ Join \/ UNCHANGED venueVars
  BY <1>5, <1>8 DEF AdvanceClock, KeepEntry, Join, venueVars, engineVars, publisherVars
<1>9. ASSUME NEW c \in Clients, Send(c) \/ CloseSender(c) PROVE GInv'
  BY <1>5, <1>9 DEF Send, CloseSender, engineVars, publisherVars
<1> QED
  BY <1>2, <1>3, <1>4, <1>6, <1>7, <1>8, <1>9 DEF VenueNext, EngineThread, PublisherThread

\* While the publisher lives the gaps in what it has seen are exactly the refused events,
\* and what the sink sees is increasing whatever becomes of it.
THEOREM LossesShow == VenueSpec => []GapsExposeLoss
<1>1. VenueSpec => []GInv
  BY NothingSeenYet, NextShows, PTL DEF VenueSpec
<1>2. GInv => GapsExposeLoss
  BY DEF GInv, Increasing, Missing, Seen, GapsExposeLoss
<1> QED BY <1>1, <1>2, PTL

-----------------------------------------------------------------------------
(* The gateway's indices *)

\* The tables of a call, and what a call carries.
Tables == [ContractRefs -> Indices \cup {Unassigned}]
Calls == [contracts : Tables, by_index : Seq(ContractRefs),
          registrations : Seq(Indices), specs : Seq(Indices), failed : BOOLEAN]

\* Indices are handed out one after the other, and none twice.
Dense(table) ==
  /\ IsFiniteSet(Assigned(table))
  /\ \A c \in Assigned(table) : table[c] < Cardinality(Assigned(table))
  /\ \A c, d \in Assigned(table) : table[c] = table[d] => c = d

\* The store holds the contracts in the order of their indices, as far as it goes; it
\* stops at the first index given out while its lock was poisoned.
StoredInOrder(table, store) ==
  /\ Len(store) <= Cardinality(Assigned(table))
  /\ ~poisoned => Len(store) = Cardinality(Assigned(table))
  /\ \A c \in Assigned(table) : table[c] < Len(store) => store[table[c] + 1] = c

\* What holds of a call from leg to leg: what was assigned stays, and what is new is
\* announced, unless the call has failed.
CallOK(call) ==
  /\ Dense(call.contracts)
  /\ StoredInOrder(call.contracts, call.by_index)
  /\ \A c \in Assigned(contracts) : call.contracts[c] = contracts[c]
  /\ \A c \in Assigned(call.contracts) :
       \/ c \in Assigned(contracts)
       \/ call.failed
       \/ \E n \in 1 .. Len(call.registrations) : call.registrations[n] = call.contracts[c]
  /\ \A n \in 1 .. Len(call.specs) :
       \E c \in Assigned(call.contracts) : call.specs[n] = call.contracts[c]

GoodCalls == {call \in Calls : CallOK(call)}

\* One more key is given the next index.
HasNext(table, c, t) ==
  /\ t \in Tables /\ Dense(t)
  /\ Assigned(t) = Assigned(table) \cup {c} /\ c \notin Assigned(table)
  /\ Cardinality(Assigned(t)) = Cardinality(Assigned(table)) + 1
  /\ Cardinality(Assigned(table)) \in Indices
  /\ t[c] = Cardinality(Assigned(table))
  /\ \A d \in Assigned(table) : t[d] = table[d]

LEMMA NextIndex ==
  ASSUME NEW table \in Tables, Dense(table), NEW c \in ContractRefs, table[c] = Unassigned,
         Cardinality(Assigned(table)) < MaxContracts,
         NEW t, t = [table EXCEPT ![c] = Cardinality(Assigned(table))]
  PROVE  HasNext(table, c, t)
<1> DEFINE k == Cardinality(Assigned(table))
<1>1. k \in Nat /\ k \in Indices
  <2>1. k \in Nat
    BY FS_CardinalityType DEF Dense
  <2> QED BY <2>1, GatewayConstants DEF Indices
<1>2. \A d \in Assigned(table) : d \in ContractRefs /\ table[d] \in Indices
  BY DEF Tables, Assigned
<1>3. c \notin Assigned(table)
  BY DEF Assigned
<1> HIDE DEF k
<1>4. t \in Tables
  BY <1>1 DEF Tables, k
<1>5. t[c] = k /\ \A d \in Assigned(table) : t[d] = table[d]
  BY <1>1, <1>2, <1>3 DEF Tables, k
<1>6. Assigned(t) = Assigned(table) \cup {c}
  <2>1. k # Unassigned
    BY <1>1, GatewayConstants
  <2>2. DOMAIN t = ContractRefs /\ DOMAIN table = ContractRefs
        /\ \A d \in ContractRefs : t[d] = IF d = c THEN k ELSE table[d]
    BY DEF Tables, k
  <2> QED BY <2>1, <2>2 DEF Assigned
<1>7. IsFiniteSet(Assigned(t)) /\ Cardinality(Assigned(t)) = k + 1
  <2>1. IsFiniteSet(Assigned(table))
    BY DEF Dense
  <2>2. /\ IsFiniteSet(Assigned(table) \cup {c})
        /\ Cardinality(Assigned(table) \cup {c}) = Cardinality(Assigned(table)) + 1
    BY <1>3, <2>1, FS_AddElement
  <2> QED BY <1>6, <2>2 DEF k
<1>8. Dense(t)
  <2>1. \A d \in Assigned(table) : table[d] < k /\ table[d] \in Int
    BY <1>2 DEF Dense, k, Indices
  <2>2. \A d \in Assigned(t) : t[d] < k + 1
    BY <1>1, <1>5, <1>6, <2>1
  <2>3. ASSUME NEW d \in Assigned(t), NEW e \in Assigned(t), t[d] = t[e] PROVE d = e
    <3>1. \A x \in Assigned(table) : t[x] # k
      BY <1>1, <1>5, <2>1
    <3>2. \A x, y \in Assigned(table) : table[x] = table[y] => x = y
      BY DEF Dense
    <3> QED BY <1>5, <1>6, <2>3, <3>1, <3>2
  <2>4. Cardinality(Assigned(t)) = k + 1
    BY <1>7
  <2>5. \A d \in Assigned(t) : t[d] < Cardinality(Assigned(t))
    BY <2>2, <2>4
  <2> QED BY ONLY <1>7, <2>3, <2>5 DEF Dense
<1> QED BY <1>1, <1>3, <1>4, <1>5, <1>6, <1>7, <1>8 DEF k, HasNext

\* One leg.
LEMMA ResolveKeeps ==
  ASSUME contracts \in Tables, NEW call \in GoodCalls, NEW c \in ContractRefs
  PROVE  Resolve(call, c) \in GoodCalls
<1> DEFINE r == Resolve(call, c)
           table == call.contracts
           k == Cardinality(Assigned(table))
<1>0. call \in Calls /\ CallOK(call)
  BY DEF GoodCalls
<1>1. /\ table \in Tables /\ call.by_index \in Seq(ContractRefs)
      /\ call.registrations \in Seq(Indices) /\ call.specs \in Seq(Indices)
      /\ call.failed \in BOOLEAN
  BY <1>0 DEF Calls
<1>2. CASE call.failed
  BY <1>2 DEF Resolve
<1>3. CASE ~call.failed /\ table[c] # Unassigned
  <2>1. r = [call EXCEPT !.specs = Append(@, table[c])]
    BY <1>3 DEF Resolve
  <2>2. c \in Assigned(table) /\ table[c] \in Indices
    BY <1>1, <1>3 DEF Assigned, Tables
  <2> DEFINE s == Append(call.specs, table[c])
  <2>3. /\ s \in Seq(Indices) /\ Len(s) = Len(call.specs) + 1 /\ Len(call.specs) \in Nat
        /\ s[Len(call.specs) + 1] = table[c]
        /\ \A n \in 1 .. Len(call.specs) : s[n] = call.specs[n]
    BY <1>1, <2>2, AppendProperties, LenProperties
  <2> HIDE DEF s
  <2>4. /\ r \in Calls /\ r.contracts = table /\ r.by_index = call.by_index
        /\ r.registrations = call.registrations /\ r.specs = s /\ r.failed = call.failed
    BY <1>0, <2>1, <2>3 DEF Calls, s
  <2>5. \A n \in 1 .. Len(s) : \E d \in Assigned(table) : s[n] = table[d]
    <3> SUFFICES ASSUME NEW n \in 1 .. Len(s) PROVE \E d \in Assigned(table) : s[n] = table[d]
      OBVIOUS
    <3>1. CASE n = Len(call.specs) + 1
      BY <2>2, <2>3, <3>1
    <3>2. CASE n \in 1 .. Len(call.specs)
      BY <1>0, <2>3, <3>2 DEF CallOK
    <3> QED BY <2>3, <3>1, <3>2
  <2> HIDE DEF r, table
  <2>6. CallOK(r)
    BY <1>0, <2>4, <2>5 DEF CallOK, table
  <2> QED BY <2>4, <2>6 DEF GoodCalls, r
<1>4. CASE ~call.failed /\ table[c] = Unassigned /\ ~(k < MaxContracts)
  <2>1. r = [call EXCEPT !.failed = TRUE]
    BY <1>4 DEF Resolve, HasRoom
  <2>2. /\ r \in Calls /\ r.contracts = table /\ r.by_index = call.by_index
        /\ r.registrations = call.registrations /\ r.specs = call.specs /\ r.failed
    BY <1>0, <2>1 DEF Calls
  <2> HIDE DEF r, table
  <2>3. CallOK(r)
    BY <1>0, <2>2 DEF CallOK, table
  <2> QED BY <2>2, <2>3 DEF GoodCalls, r
<1>5. CASE ~call.failed /\ table[c] = Unassigned /\ k < MaxContracts
  <2> DEFINE t == [table EXCEPT ![c] = k]
  <2>0. Dense(table) /\ StoredInOrder(table, call.by_index)
    BY <1>0 DEF CallOK
  <2>1. /\ t \in Tables /\ Dense(t)
        /\ Assigned(t) = Assigned(table) \cup {c} /\ c \notin Assigned(table)
        /\ Cardinality(Assigned(t)) = k + 1
        /\ k \in Indices
        /\ t[c] = k
        /\ \A d \in Assigned(table) : t[d] = table[d]
    <3>1. table \in Tables /\ table[c] = Unassigned /\ k < MaxContracts /\ Dense(table)
      BY <1>1, <1>5, <2>0
    <3> HIDE DEF table
    <3>2. t = [table EXCEPT ![c] = Cardinality(Assigned(table))]
      OBVIOUS
    <3> HIDE DEF t
    <3>3. c \in ContractRefs
      OBVIOUS
    <3>4. HasNext(table, c, t)
      BY ONLY <3>1, <3>2, <3>3, NextIndex DEF k
    <3> QED BY <3>4 DEF HasNext
  <2>2. k \in Nat /\ \A d \in Assigned(table) : table[d] \in Nat /\ table[d] < k
    <3>1. \A d \in Assigned(table) : table[d] \in Nat
      BY <1>1 DEF Tables, Assigned, Indices
    <3> QED BY <2>0, <2>1, <3>1 DEF Dense, Indices
  <2>3. \A d \in Assigned(contracts) : d \in Assigned(table)
    <3> SUFFICES ASSUME NEW d \in Assigned(contracts) PROVE d \in Assigned(table)
      OBVIOUS
    <3>1. table[d] = contracts[d] /\ d \in ContractRefs /\ contracts[d] # Unassigned
      BY <1>0 DEF CallOK, Assigned, Tables
    <3> QED BY <1>1, <3>1 DEF Assigned, Tables
  <2>4. IndexIn(table, c) = k
    BY <1>5 DEF IndexIn
  <2>5. CASE poisoned
    <3>1. r = [call EXCEPT !.contracts[c] = k, !.failed = TRUE]
      BY <1>5, <2>4, <2>5 DEF Resolve, HasRoom
    <3> HIDE DEF k
    <3>2. /\ r \in Calls /\ r.contracts = t /\ r.by_index = call.by_index
          /\ r.registrations = call.registrations /\ r.specs = call.specs /\ r.failed
      BY <1>0, <2>1, <3>1 DEF Calls
    <3> HIDE DEF r, t, table
    <3>3. StoredInOrder(t, r.by_index)
      <4>1. Len(call.by_index) <= k /\ Len(call.by_index) \in Nat
        BY <1>1, <2>0, LenProperties DEF StoredInOrder, k
      <4>2. \A d \in Assigned(t) : t[d] < Len(r.by_index) => r.by_index[t[d] + 1] = d
        BY <2>0, <2>1, <2>2, <3>2, <4>1 DEF StoredInOrder
      <4> QED BY <2>1, <2>2, <2>5, <3>2, <4>1, <4>2 DEF StoredInOrder
    <3>4. \A n \in 1 .. Len(r.specs) : \E d \in Assigned(t) : r.specs[n] = t[d]
      <4> SUFFICES ASSUME NEW n \in 1 .. Len(call.specs)
                   PROVE  \E d \in Assigned(t) : call.specs[n] = t[d]
        BY <3>2
      <4>1. PICK d \in Assigned(table) : call.specs[n] = table[d]
        BY <1>0 DEF CallOK, table
      <4> QED BY <2>1, <4>1
    <3>5. \A d \in Assigned(contracts) : t[d] = contracts[d]
      BY <1>0, <2>1, <2>3 DEF CallOK, table
    <3>6. CallOK(r)
      BY <2>1, <3>2, <3>3, <3>4, <3>5 DEF CallOK
    <3> QED BY <3>2, <3>6 DEF GoodCalls, r
  <2>6. CASE ~poisoned
    <3>1. r = [call EXCEPT !.contracts[c] = k, !.by_index = Append(@, c),
                           !.registrations = Append(@, k), !.specs = Append(@, k)]
      BY <1>5, <2>4, <2>6 DEF Resolve, HasRoom
    <3> DEFINE b == Append(call.by_index, c)
               g == Append(call.registrations, k)
               s == Append(call.specs, k)
    <3>2. /\ b \in Seq(ContractRefs) /\ Len(b) = Len(call.by_index) + 1
          /\ Len(call.by_index) \in Nat
          /\ b[Len(call.by_index) + 1] = c
          /\ \A n \in 1 .. Len(call.by_index) : b[n] = call.by_index[n]
      BY <1>1, AppendProperties, LenProperties
    <3> HIDE DEF k
    <3>3. /\ g \in Seq(Indices) /\ Len(g) = Len(call.registrations) + 1
          /\ Len(call.registrations) \in Nat /\ g[Len(call.registrations) + 1] = k
          /\ \A n \in 1 .. Len(call.registrations) : g[n] = call.registrations[n]
      BY <1>1, <2>1, AppendProperties, LenProperties
    <3>4. /\ s \in Seq(Indices) /\ Len(s) = Len(call.specs) + 1
          /\ Len(call.specs) \in Nat /\ s[Len(call.specs) + 1] = k
          /\ \A n \in 1 .. Len(call.specs) : s[n] = call.specs[n]
      BY <1>1, <2>1, AppendProperties, LenProperties
    <3>5. /\ r \in Calls /\ r.contracts = t /\ r.by_index = b
          /\ r.registrations = g /\ r.specs = s /\ r.failed = call.failed
      BY <1>0, <2>1, <3>1, <3>2, <3>3, <3>4 DEF Calls
    <3> HIDE DEF r, t, table, b, g, s
    <3>6. StoredInOrder(t, b)
      <4>1. Len(call.by_index) = k
        BY <2>0, <2>6 DEF StoredInOrder, k
      <4>2. ASSUME NEW d \in Assigned(t), t[d] < Len(b) PROVE b[t[d] + 1] = d
        <5>1. CASE d = c
          BY <2>1, <3>2, <4>1, <5>1
        <5>2. CASE d \in Assigned(table)
          <6>1. t[d] = table[d] /\ table[d] \in Nat /\ table[d] < k
            BY <2>1, <2>2, <5>2
          <6>2. call.by_index[table[d] + 1] = d
            BY <2>0, <4>1, <5>2, <6>1 DEF StoredInOrder
          <6>3. table[d] + 1 \in 1 .. Len(call.by_index)
            BY <2>2, <4>1, <6>1
          <6> QED BY <3>2, <6>1, <6>2, <6>3
        <5> QED BY <2>1, <5>1, <5>2
      <4> QED BY <2>1, <2>2, <3>2, <4>1, <4>2 DEF StoredInOrder
    <3>7. \A n \in 1 .. Len(s) : \E d \in Assigned(t) : s[n] = t[d]
      <4> SUFFICES ASSUME NEW n \in 1 .. Len(s) PROVE \E d \in Assigned(t) : s[n] = t[d]
        OBVIOUS
      <4>1. CASE n = Len(call.specs) + 1
        BY <2>1, <3>4, <4>1
      <4>2. CASE n \in 1 .. Len(call.specs)
        <5>1. PICK d \in Assigned(table) : call.specs[n] = table[d]
          BY <1>0, <4>2 DEF CallOK, table
        <5> QED BY <2>1, <3>4, <4>2, <5>1
      <4> QED BY <3>4, <4>1, <4>2
    <3>8. ASSUME NEW d \in Assigned(t)
          PROVE  \/ d \in Assigned(contracts)
                 \/ call.failed
                 \/ \E n \in 1 .. Len(g) : g[n] = t[d]
      <4>1. CASE d = c
        <5>1. Len(g) \in 1 .. Len(g) /\ g[Len(g)] = t[d]
          BY <2>1, <3>3, <4>1
        <5> QED BY <5>1
      <4>2. CASE /\ d \in Assigned(table)
                 /\ \E n \in 1 .. Len(call.registrations) : call.registrations[n] = table[d]
        <5>1. PICK n \in 1 .. Len(call.registrations) : call.registrations[n] = table[d]
          BY <4>2
        <5>2. n \in 1 .. Len(g) /\ g[n] = t[d]
          BY <2>1, <3>3, <4>2, <5>1
        <5> QED BY <5>2
      <4> QED BY <1>0, <2>1, <4>1, <4>2 DEF CallOK, table
    <3>9. \A d \in Assigned(contracts) : t[d] = contracts[d]
      BY <1>0, <2>1, <2>3 DEF CallOK, table
    <3>10. CallOK(r)
      BY <2>1, <3>5, <3>6, <3>7, <3>8, <3>9 DEF CallOK
    <3> QED BY <3>5, <3>10 DEF GoodCalls, r
  <2> QED BY <2>5, <2>6
<1> QED BY <1>2, <1>3, <1>4, <1>5

\* All the legs of a request, in order.
LEMMA LegsKeep ==
  ASSUME contracts \in Tables, Untouched \in GoodCalls, NEW legs \in Seq(ContractRefs)
  PROVE  FoldLeft(Resolve, Untouched, legs) \in GoodCalls
<1> DEFINE N == Len(legs)
           X == GoodCalls
           G == [p \in (1 .. N) \X X |-> Resolve(p[2], legs[p[1]])]
           Solves(h) == h = [s \in SUBSET (1 .. N) |->
                              IF s = {} THEN Untouched
                              ELSE Resolve(h[s \ {Max(s)}], legs[Max(s)])]
<1>1. N \in Nat /\ DOMAIN legs = 1 .. N /\ \A n \in 1 .. N : legs[n] \in ContractRefs
  OBVIOUS
<1>2. \A n \in 1 .. N : \A x \in X : Resolve(x, legs[n]) \in X
  BY <1>1, ResolveKeeps
<1>3. G \in [(1 .. N) \X X -> X]
  <2> HIDE DEF X
  <2> QED BY <1>2
<1>4. \A n \in 1 .. N : \A x \in X : G[<<n, x>>] = Resolve(x, legs[n])
  OBVIOUS
<1>5. FoldLeft(Resolve, Untouched, legs) = (CHOOSE h : Solves(h))[1 .. N]
  BY <1>1 DEF FoldLeft, MapThenFoldSet
<1> HIDE DEF N, X, G
<1>6. \E h : Solves(h)
  <2>1. PICK h \in [SUBSET (1 .. N) -> X] : Folds(h, N, Untouched, G)
    BY <1>1, <1>3, FoldExists DEF X
  <2>2. ASSUME NEW s \in SUBSET (1 .. N)
        PROVE  h[s] = IF s = {} THEN Untouched ELSE Resolve(h[s \ {Max(s)}], legs[Max(s)])
    <3>1. CASE s = {}
      BY <2>1, <3>1 DEF Folds
    <3>2. CASE s # {}
      <4>1. Max(s) \in 1 .. N /\ s \ {Max(s)} \in SUBSET (1 .. N)
        <5>1. s \in SUBSET (0 .. N)
          BY <1>1
        <5>2. Max(s) \in s
          BY <1>1, <3>2, <5>1, MaxIsGreatest
        <5> QED BY <5>2
      <4>2. h[s \ {Max(s)}] \in X
        BY <4>1
      <4> QED BY <1>4, <2>1, <3>2, <4>1, <4>2 DEF Folds
    <3> QED BY <3>1, <3>2
  <2> QED BY <2>2
<1>7. PICK w : w = (CHOOSE k : Solves(k)) /\ Solves(w)
  <2> HIDE DEF Solves
  <2> QED BY <1>6
<1>8. \A s \in SUBSET (1 .. N) :
         w[s] = IF s = {} THEN Untouched ELSE Resolve(w[s \ {Max(s)}], legs[Max(s)])
  BY <1>7
<1> HIDE DEF Solves
<1>9. w[{}] = Untouched
  BY <1>8
<1>10. ASSUME NEW n \in 1 .. N, w[1 .. (n - 1)] \in X
       PROVE  w[1 .. n] = G[<<n, w[1 .. (n - 1)]>>]
  <2>1. /\ 1 .. n \in SUBSET (1 .. N) /\ 1 .. n # {}
        /\ Max(1 .. n) = n /\ (1 .. n) \ {n} = 1 .. (n - 1)
    BY <1>1, PrefixStep
  <2>2. w[1 .. n] = Resolve(w[1 .. (n - 1)], legs[n])
    BY <1>8, <2>1
  <2> QED BY <1>4, <1>10, <2>2
<1>11. PICK f \in [0 .. N -> X] : IteratesTo(f, w[1 .. N], N, Untouched, G)
  <2>1. FoldsPrefixes(w, N, X, Untouched, G)
    BY <1>9, <1>10 DEF FoldsPrefixes
  <2> QED BY <1>1, <1>3, <2>1, FoldIterates DEF X
<1>12. f[N] \in X /\ f[N] = w[1 .. N]
  BY <1>1, <1>11 DEF IteratesTo
<1> QED BY <1>5, <1>7, <1>12 DEF X

-----------------------------------------------------------------------------
(* What the core is told *)

Commands == [name : {"RegisterContract", "SubmitRequest"}, names : SUBSET Indices]

\* By the time the first n commands are applied the core has heard of index i, or i was
\* given out in a call that failed.
Told(i, box, n) ==
  \/ i \in registered
  \/ i \in lost
  \/ \E m \in 1 .. n : box[m].name = "RegisterContract" /\ i \in box[m].names

GatewayInv ==
  /\ contracts \in Tables /\ by_index \in Seq(ContractRefs) /\ poisoned \in BOOLEAN
  /\ accounts \in [AccountKeys -> 0 .. (MaxAccounts - 1) \cup {Unassigned}]
  /\ IsFiniteSet(Assigned(accounts))
  /\ outbox \in Seq(Commands)
  /\ registered \subseteq Indices /\ lost \subseteq Indices /\ unknown \subseteq lost
  /\ Dense(contracts) /\ StoredInOrder(contracts, by_index)
  /\ \A c \in Assigned(contracts) : Told(contracts[c], outbox, Len(outbox))
  /\ \A n \in 1 .. Len(outbox) :
       outbox[n].name = "SubmitRequest" =>
         \A i \in outbox[n].names : Told(i, outbox, n - 1)

LEMMA GatewayInitHolds == GatewayInit => GatewayInv
<1> SUFFICES ASSUME GatewayInit PROVE GatewayInv
  OBVIOUS
<1>1. contracts \in Tables /\ Assigned(contracts) = {}
  BY DEF GatewayInit, Tables, Assigned
<1>2. /\ accounts \in [AccountKeys -> 0 .. (MaxAccounts - 1) \cup {Unassigned}]
      /\ Assigned(accounts) = {}
  BY DEF GatewayInit, Assigned
<1>3. IsFiniteSet({}) /\ Cardinality({}) = 0
  BY FS_EmptySet
<1>4. /\ by_index = <<>> /\ outbox = <<>> /\ Len(by_index) = 0 /\ Len(outbox) = 0
      /\ poisoned = FALSE /\ registered = {} /\ lost = {} /\ unknown = {}
      /\ by_index \in Seq(ContractRefs) /\ outbox \in Seq(Commands)
  BY DEF GatewayInit
<1>5. Dense(contracts) /\ StoredInOrder(contracts, by_index)
  BY <1>1, <1>3, <1>4 DEF Dense, StoredInOrder
<1>6. /\ IsFiniteSet(Assigned(accounts))
      /\ \A c \in Assigned(contracts) : Told(contracts[c], outbox, Len(outbox))
      /\ 1 .. Len(outbox) = {}
  BY <1>1, <1>2, <1>3, <1>4
<1>7. registered \subseteq Indices /\ lost \subseteq Indices /\ unknown \subseteq lost
      /\ poisoned \in BOOLEAN
  BY <1>4
<1> QED BY <1>1, <1>2, <1>4, <1>5, <1>6, <1>7 DEF GatewayInv

\* A call starts from what the gateway holds.
LEMMA UntouchedIsGood == ASSUME GatewayInv PROVE Untouched \in GoodCalls
<1>1. <<>> \in Seq(Indices) /\ Len(<<>>) = 0
  OBVIOUS
<1>2. Untouched \in Calls
  BY <1>1 DEF Untouched, Calls, GatewayInv
<1>3. CallOK(Untouched)
  BY <1>1 DEF Untouched, CallOK, GatewayInv
<1> QED BY <1>2, <1>3 DEF GoodCalls

\* The commands of a call: an announcement for each new contract, and then, it may be,
\* a request that names what the legs were resolved to.
AnnouncesFirst(call, commands) ==
  /\ commands \in Seq(Commands)
  /\ \A n \in 1 .. Len(call.registrations) :
       /\ n \in 1 .. Len(commands)
       /\ commands[n].name = "RegisterContract" /\ call.registrations[n] \in commands[n].names
  /\ \A n \in 1 .. Len(commands) :
       commands[n].name = "SubmitRequest" =>
         /\ n > Len(call.registrations)
         /\ \A i \in commands[n].names :
              \E c \in Assigned(call.contracts) : i = call.contracts[c]

LEMMA ConcludeKeeps ==
  ASSUME GatewayInv, NEW call \in GoodCalls, NEW commands, AnnouncesFirst(call, commands),
         Conclude(call, commands),
         accounts' \in [AccountKeys -> 0 .. (MaxAccounts - 1) \cup {Unassigned}],
         IsFiniteSet(Assigned(accounts'))
  PROVE  GatewayInv'
<1>1. /\ contracts' = call.contracts /\ by_index' = call.by_index
      /\ poisoned' = poisoned /\ registered' = registered /\ unknown' = unknown
  BY DEF Conclude
<1>2. /\ call.contracts \in Tables /\ call.by_index \in Seq(ContractRefs)
      /\ call.registrations \in Seq(Indices) /\ call.failed \in BOOLEAN /\ CallOK(call)
  BY DEF GoodCalls, Calls
<1>3. Dense(contracts') /\ StoredInOrder(contracts, by_index)'
  BY <1>1, <1>2 DEF CallOK, StoredInOrder
<1>4. lost \subseteq lost' /\ lost' \subseteq Indices
  <2>1. CASE ~call.failed
    BY <2>1 DEF Conclude, GatewayInv
  <2>2. CASE call.failed
    <3>1. lost' = lost \cup (IndicesOf(call.contracts) \ IndicesOf(contracts))
      BY <2>2 DEF Conclude
    <3>2. ASSUME NEW c \in ContractRefs, call.contracts[c] \notin IndicesOf(contracts)
          PROVE  call.contracts[c] \in Indices
      <4>1. call.contracts[c] \in Indices \/ call.contracts[c] = Unassigned
        BY <1>2 DEF Tables
      <4>2. contracts[c] # call.contracts[c]
        BY <3>2 DEF IndicesOf, GatewayInv, Tables
      <4>3. ASSUME call.contracts[c] = Unassigned PROVE FALSE
        <5>1. c \in Assigned(contracts)
          BY <4>2, <4>3 DEF Assigned, GatewayInv, Tables
        <5> QED BY <1>2, <4>2, <5>1 DEF CallOK
      <4> QED BY <4>1, <4>3
    <3> QED BY <1>2, <3>1, <3>2 DEF IndicesOf, Tables, GatewayInv
  <2> QED BY <1>2, <2>1, <2>2
<1> DEFINE L == Len(outbox)
           box == outbox'
<1>5. L \in Nat /\ outbox \in Seq(Commands)
  BY LenProperties DEF GatewayInv
<1>6. /\ box \in Seq(Commands) /\ Len(box) >= L /\ Len(box) \in Nat
      /\ \A n \in 1 .. L : box[n] = outbox[n]
      /\ ~call.failed => /\ Len(box) = L + Len(commands) /\ Len(commands) \in Nat
                         /\ \A n \in 1 .. Len(commands) : box[L + n] = commands[n]
  <2>1. CASE call.failed
    BY <1>5, <2>1 DEF Conclude
  <2>2. CASE ~call.failed
    <3>1. commands \in Seq(Commands) /\ Len(commands) \in Nat /\ box = outbox \o commands
      BY <2>2, LenProperties DEF Conclude, AnnouncesFirst
    <3>2. /\ box \in Seq(Commands) /\ Len(box) = L + Len(commands)
          /\ \A i \in 1 .. L + Len(commands) :
               box[i] = IF i <= L THEN outbox[i] ELSE commands[i - L]
      BY <1>5, <3>1, ConcatProperties
    <3>3. \A n \in 1 .. Len(commands) : box[L + n] = commands[n]
      <4> TAKE n \in 1 .. Len(commands)
      <4>1. L + n \in 1 .. L + Len(commands) /\ ~(L + n <= L) /\ (L + n) - L = n
        BY <1>5, <3>1
      <4> HIDE DEF L, box
      <4> QED BY <3>2, <4>1
    <3>4. \A n \in 1 .. L : box[n] = outbox[n]
      BY <1>5, <3>1, <3>2
    <3> HIDE DEF L, box
    <3> QED BY <1>5, <3>1, <3>2, <3>3, <3>4
  <2> QED BY <1>2, <2>1, <2>2
<1>7. ASSUME NEW i, NEW n \in Int, n <= L, Told(i, outbox, n) PROVE Told(i, outbox, n)'
  <2>1. \A m \in 1 .. n : box[m] = outbox[m]
    BY <1>5, <1>6, <1>7
  <2> QED BY <1>1, <1>4, <1>7, <2>1 DEF Told
<1>8. ASSUME NEW c \in Assigned(call.contracts), NEW n \in Int, n >= L, n <= Len(box),
             ~call.failed => n >= L + Len(call.registrations)
      PROVE  Told(call.contracts[c], outbox, n)'
  <2>1. CASE c \in Assigned(contracts)
    <3>1. call.contracts[c] = contracts[c]
      BY <1>2, <2>1 DEF CallOK
    <3>2. Told(contracts[c], outbox, L)
      BY <2>1 DEF GatewayInv
    <3>3. CASE \E m \in 1 .. L : outbox[m].name = "RegisterContract" /\ contracts[c] \in outbox[m].names
      <4>1. PICK m \in 1 .. L : outbox[m].name = "RegisterContract" /\ contracts[c] \in outbox[m].names
        BY <3>3
      <4>2. m \in 1 .. n /\ box[m] = outbox[m]
        BY <1>5, <1>6, <1>8
      <4> QED BY <3>1, <4>1, <4>2 DEF Told
    <3> QED BY <1>1, <1>4, <3>1, <3>2, <3>3 DEF Told
  <2>2. CASE c \notin Assigned(contracts) /\ call.failed
    <3>1. contracts[c] = Unassigned /\ c \in ContractRefs /\ call.contracts[c] \in Indices
      BY <1>2, <2>2 DEF Assigned, GatewayInv, Tables
    <3>2. call.contracts[c] \notin IndicesOf(contracts)
      <4> SUFFICES ASSUME NEW d \in ContractRefs, contracts[d] = call.contracts[c] PROVE FALSE
        BY DEF IndicesOf, GatewayInv, Tables
      <4>1. d \in Assigned(contracts)
        BY <3>1, GatewayConstants DEF Assigned, GatewayInv, Tables, Indices
      <4>2. call.contracts[d] = contracts[d]
        BY <1>2, <4>1 DEF CallOK
      <4>3. d \in Assigned(call.contracts)
        BY <1>2, <3>1, <4>2, GatewayConstants DEF Assigned, Tables, Indices
      <4>4. d = c
        BY <1>2, <4>2, <4>3 DEF CallOK, Dense
      <4> QED BY <2>2, <4>1, <4>4
    <3>3. call.contracts[c] \in IndicesOf(call.contracts)
      BY <1>2, <3>1 DEF IndicesOf, Tables
    <3> QED BY <2>2, <3>2, <3>3 DEF Conclude, Told
  <2>3. CASE /\ ~call.failed
             /\ \E m \in 1 .. Len(call.registrations) : call.registrations[m] = call.contracts[c]
    <3>1. PICK m \in 1 .. Len(call.registrations) : call.registrations[m] = call.contracts[c]
      BY <2>3
    <3>2. /\ m \in 1 .. Len(commands) /\ commands[m].name = "RegisterContract"
          /\ call.contracts[c] \in commands[m].names
      BY <3>1 DEF AnnouncesFirst
    <3>3. Len(call.registrations) \in Nat
      BY <1>2, LenProperties
    <3>4. L + m \in 1 .. n /\ box[L + m] = commands[m]
      <4> HIDE DEF L, box
      <4>1. L \in Nat /\ L + m \in 1 .. n
        BY <1>5, <1>8, <2>3, <3>3
      <4> QED BY <1>6, <2>3, <3>2, <4>1
    <3> QED BY <3>2, <3>4 DEF Told
  <2> QED BY <1>2, <2>1, <2>2, <2>3 DEF CallOK
<1>9. ASSUME NEW c \in Assigned(call.contracts) PROVE Told(call.contracts[c], outbox, Len(outbox))'
  <2>1. ~call.failed => Len(box) >= L + Len(call.registrations)
    <3>1. Len(call.registrations) \in Nat
      BY <1>2, LenProperties
    <3>2. ~call.failed => Len(call.registrations) <= Len(commands)
      BY <1>6, <3>1 DEF AnnouncesFirst
    <3> HIDE DEF L, box
    <3> QED BY <1>5, <1>6, <3>1, <3>2
  <2> HIDE DEF L
  <2> QED BY <1>5, <1>6, <1>8, <2>1
<1>10. ASSUME NEW n \in 1 .. Len(box), box[n].name = "SubmitRequest", NEW i \in box[n].names
       PROVE  Told(i, outbox, n - 1)'
  <2>1. CASE n <= L
    <3>1. n \in 1 .. L /\ box[n] = outbox[n]
      BY <1>5, <1>6, <2>1
    <3>2. Told(i, outbox, n - 1)
      BY <1>10, <3>1 DEF GatewayInv
    <3>3. n - 1 \in Int /\ n - 1 <= L
      BY <1>5, <3>1
    <3> HIDE DEF L, box
    <3> QED BY <1>7, <3>2, <3>3
  <2>2. CASE ~(n <= L)
    <3>1. ~call.failed
      BY <1>2, <1>5, <1>6, <2>2 DEF Conclude
    <3> DEFINE k == n - L
    <3>2. k \in 1 .. Len(commands) /\ L + k = n
      <4> HIDE DEF L, box
      <4> QED BY <1>5, <1>6, <2>2, <3>1
    <3>3. box[n] = commands[k]
      <4> HIDE DEF L, box, k
      <4> QED BY <1>6, <3>1, <3>2
    <3>4. PICK c \in Assigned(call.contracts) : i = call.contracts[c]
      BY <1>10, <3>2, <3>3 DEF AnnouncesFirst
    <3>5. k > Len(call.registrations) /\ Len(call.registrations) \in Nat
      BY <1>2, <1>10, <3>2, <3>3, LenProperties DEF AnnouncesFirst
    <3>6. n - 1 \in Int /\ n - 1 >= L /\ n - 1 <= Len(box) /\ n - 1 >= L + Len(call.registrations)
      <4> HIDE DEF L, box
      <4> QED BY <1>5, <1>6, <3>2, <3>5
    <3> HIDE DEF L, box, k
    <3> QED BY <1>8, <3>4, <3>6
  <2> QED BY <2>1, <2>2
<1> HIDE DEF L
<1> QED BY <1>1, <1>2, <1>3, <1>4, <1>6, <1>9, <1>10 DEF GatewayInv

-----------------------------------------------------------------------------
(* One lemma per operation *)

\* The announcements of a call are commands, one for each new index.
LEMMA RegistersAreCommands ==
  ASSUME NEW call \in Calls
  PROVE  /\ RegisterCommands(call) \in Seq(Commands)
         /\ Len(RegisterCommands(call)) = Len(call.registrations)
         /\ \A n \in 1 .. Len(call.registrations) :
              /\ RegisterCommands(call)[n].name = "RegisterContract"
              /\ call.registrations[n] \in RegisterCommands(call)[n].names
<1> DEFINE K == Len(call.registrations)
           R == RegisterCommands(call)
<1>1. K \in Nat /\ \A n \in 1 .. K : call.registrations[n] \in Indices
  BY LenProperties, ElementOfSeq DEF Calls
<1>2. R = [n \in 1 .. K |-> [name |-> "RegisterContract", names |-> {call.registrations[n]}]]
  BY DEF RegisterCommands
<1> HIDE DEF K, R
<1>3. \A n \in 1 .. K :
        [name |-> "RegisterContract", names |-> {call.registrations[n]}] \in Commands
  BY <1>1 DEF Commands
<1>4. R \in [1 .. K -> Commands]
  BY <1>2, <1>3
<1>5. R \in Seq(Commands) /\ Len(R) = K
  BY <1>1, <1>4, FunctionIsSeq
<1> QED BY <1>2, <1>5 DEF K, R

LEMMA ContractKeeps ==
  ASSUME GatewayInv, NEW c \in ContractRefs, ResolveContract(c)
  PROVE  GatewayInv'
<1> DEFINE call == Resolve(Untouched, c)
<1>1. call \in GoodCalls
  <2>1. Untouched \in GoodCalls /\ contracts \in Tables
    BY UntouchedIsGood DEF GatewayInv
  <2> QED BY <2>1, ResolveKeeps
<1>2. Conclude(call, RegisterCommands(call)) /\ accounts' = accounts
  BY DEF ResolveContract
<1> HIDE DEF call
<1>3. AnnouncesFirst(call, RegisterCommands(call))
  <2>1. call \in Calls
    BY <1>1 DEF GoodCalls
  <2>2. Len(call.registrations) \in Nat
    BY <2>1, LenProperties DEF Calls
  <2> QED BY <2>1, <2>2, RegistersAreCommands DEF AnnouncesFirst
<1>4. /\ accounts' \in [AccountKeys -> 0 .. (MaxAccounts - 1) \cup {Unassigned}]
      /\ IsFiniteSet(Assigned(accounts'))
  BY <1>2 DEF GatewayInv
<1> QED BY <1>1, <1>2, <1>3, <1>4, ConcludeKeeps

LEMMA RequestKeeps ==
  ASSUME GatewayInv, NEW k \in AccountKeys, NEW legs \in Legs, SubmitRequest(k, legs)
  PROVE  GatewayInv'
<1> DEFINE call == FoldLeft(Resolve, Untouched, legs)
           last == SubmitRequestCommand(call)
           commands == Append(RegisterCommands(call), last)
<1>1. call \in GoodCalls
  <2>1. legs \in Seq(ContractRefs)
    BY FunctionIsSeq DEF Legs
  <2>2. contracts \in Tables /\ Untouched \in GoodCalls
    BY UntouchedIsGood DEF GatewayInv
  <2> QED BY <2>1, <2>2, LegsKeep
<1>2. Conclude(call, commands) /\ accounts' = [accounts EXCEPT ![k] = IndexIn(accounts, k)]
      /\ HasRoom(accounts, k, MaxAccounts)
  BY DEF SubmitRequest
<1> HIDE DEF call
<1>3. AnnouncesFirst(call, commands)
  <2> DEFINE R == RegisterCommands(call)
             K == Len(call.registrations)
  <2>1. call \in Calls /\ CallOK(call)
    BY <1>1 DEF GoodCalls
  <2>2. /\ R \in Seq(Commands) /\ Len(R) = K /\ K \in Nat
        /\ \A n \in 1 .. K : R[n].name = "RegisterContract" /\ call.registrations[n] \in R[n].names
    BY <2>1, RegistersAreCommands, LenProperties DEF Calls
  <2>3. \A i \in last.names : \E c \in Assigned(call.contracts) : i = call.contracts[c]
    <3>1. last.names = {call.specs[n] : n \in 1 .. Len(call.specs)}
      BY <2>1, LenProperties DEF SubmitRequestCommand, ToSet, Calls
    <3> QED BY <2>1, <3>1 DEF CallOK
  <2>4. last \in Commands
    <3>1. \A i \in last.names : i \in Indices
      BY <2>1, <2>3 DEF Calls, Tables, Assigned
    <3>2. last = [name |-> "SubmitRequest", names |-> last.names]
      BY DEF SubmitRequestCommand
    <3> HIDE DEF last
    <3> QED BY <3>1, <3>2 DEF Commands
  <2> HIDE DEF last, R, K
  <2>5. /\ commands \in Seq(Commands) /\ Len(commands) = K + 1
        /\ \A n \in 1 .. K : commands[n] = R[n]
        /\ commands[K + 1] = last
    BY <2>2, <2>4, AppendProperties DEF R
  <2> HIDE DEF commands
  <2>6. \A n \in 1 .. Len(commands) : commands[n].name = "SubmitRequest" => n = K + 1
    <3>1. \A n \in 1 .. Len(commands) : n \in 1 .. K \/ n = K + 1
      BY <2>2, <2>5
    <3> QED BY <2>2, <2>5, <3>1
  <2> QED BY <2>2, <2>3, <2>5, <2>6 DEF AnnouncesFirst, K
<1>4. /\ accounts' \in [AccountKeys -> 0 .. (MaxAccounts - 1) \cup {Unassigned}]
      /\ IsFiniteSet(Assigned(accounts'))
  <2>1. CASE accounts[k] # Unassigned
    <3>1. accounts' = accounts
      BY <1>2, <2>1 DEF IndexIn, GatewayInv
    <3> QED BY <3>1 DEF GatewayInv
  <2>2. CASE accounts[k] = Unassigned
    <3> DEFINE n == Cardinality(Assigned(accounts))
    <3>1. n \in Nat /\ n \in 0 .. (MaxAccounts - 1)
      <4>1. n \in Nat
        BY FS_CardinalityType DEF GatewayInv
      <4> QED BY <1>2, <2>2, <4>1, GatewayConstants DEF HasRoom
    <3>2. accounts' = [accounts EXCEPT ![k] = n]
      BY <1>2, <2>2 DEF IndexIn
    <3> HIDE DEF n
    <3>3. Assigned(accounts') = Assigned(accounts) \cup {k}
      <4>1. n # Unassigned
        BY <3>1, GatewayConstants
      <4> QED BY <3>2, <4>1 DEF Assigned, GatewayInv
    <3>4. IsFiniteSet(Assigned(accounts'))
      <4>1. IsFiniteSet(Assigned(accounts))
        BY DEF GatewayInv
      <4> QED BY <3>3, <4>1, FS_AddElement
    <3> QED BY <3>1, <3>2, <3>4 DEF GatewayInv
  <2> QED BY <2>1, <2>2
<1> HIDE DEF commands
<1> QED BY <1>1, <1>2, <1>3, <1>4, ConcludeKeeps

LEMMA PoisonKeeps ==
  ASSUME GatewayInv, PoisonRegistry
  PROVE  GatewayInv'
<1>1. /\ poisoned' = TRUE
      /\ UNCHANGED <<contracts, by_index, accounts, outbox, registered, unknown, lost>>
  BY DEF PoisonRegistry
<1>2. StoredInOrder(contracts, by_index)'
  BY <1>1 DEF GatewayInv, StoredInOrder
<1>3. \A i, n : Told(i, outbox, n) => Told(i, outbox, n)'
  BY <1>1 DEF Told
<1> QED BY <1>1, <1>2, <1>3 DEF GatewayInv

\* The core is told what the head of the queue says, and what a request names has been
\* told by then, or never will be.
LEMMA ApplyNextKeeps ==
  ASSUME GatewayInv, ApplyNext
  PROVE  GatewayInv'
<1> DEFINE L == Len(outbox)
           box == outbox'
           head == Head(outbox)
<1>1. /\ outbox # <<>> /\ box = Tail(outbox)
      /\ UNCHANGED <<contracts, by_index, poisoned, accounts, lost>>
  BY DEF ApplyNext
<1>2. /\ outbox \in Seq(Commands) /\ L \in Nat /\ L >= 1 /\ box \in Seq(Commands)
      /\ Len(box) = L - 1 /\ head = outbox[1] /\ head \in Commands
      /\ \A n \in 1 .. L - 1 : box[n] = outbox[n + 1]
  BY <1>1, HeadTailProperties, LenProperties DEF GatewayInv
<1>3. \/ head.name = "RegisterContract" /\ registered' = registered \cup head.names
         /\ unknown' = unknown
      \/ head.name = "SubmitRequest" /\ unknown' = unknown \cup (head.names \ registered)
         /\ registered' = registered
  BY DEF ApplyNext
<1>4. ASSUME NEW i, NEW n \in 1 .. L, Told(i, outbox, n) PROVE Told(i, outbox, n - 1)'
  <2>1. CASE i \in registered \/ i \in lost
    BY <1>1, <1>3, <2>1 DEF Told
  <2>2. CASE \E m \in 1 .. n : outbox[m].name = "RegisterContract" /\ i \in outbox[m].names
    <3>1. PICK m \in 1 .. n : outbox[m].name = "RegisterContract" /\ i \in outbox[m].names
      BY <2>2
    <3>2. CASE m = 1
      BY <1>2, <1>3, <3>1, <3>2 DEF Told
    <3>3. CASE m # 1
      <4>1. m - 1 \in 1 .. n - 1 /\ m - 1 \in 1 .. L - 1 /\ (m - 1) + 1 = m
        BY <1>2, <3>3
      <4>2. box[m - 1] = outbox[m]
        BY <1>2, <4>1
      <4> QED BY <3>1, <4>1, <4>2 DEF Told
    <3> QED BY <3>2, <3>3
  <2> QED BY <1>4, <2>1, <2>2 DEF Told
<1>5. ASSUME NEW n \in 1 .. Len(box), box[n].name = "SubmitRequest", NEW i \in box[n].names
      PROVE  Told(i, outbox, n - 1)'
  <2>1. n + 1 \in 1 .. L /\ n \in 1 .. L /\ box[n] = outbox[n + 1] /\ (n + 1) - 1 = n
    BY <1>2
  <2>2. Told(i, outbox, n)
    BY <1>5, <2>1 DEF GatewayInv
  <2> QED BY <1>4, <2>1, <2>2
<1>6. (\A c \in Assigned(contracts) : Told(contracts[c], outbox, Len(outbox)))'
  <2>1. PICK n \in 1 .. L : n = L
    BY <1>2
  <2>2. \A i : Told(i, outbox, n) => Told(i, outbox, n - 1)'
    BY <1>4
  <2>3. ASSUME NEW i, Told(i, outbox, n) PROVE Told(i, outbox, Len(outbox))'
    <3>1. Told(i, outbox, n - 1)' /\ Len(outbox') = n - 1
      BY <1>2, <2>1, <2>2, <2>3
    <3> QED BY <3>1 DEF Told
  <2>4. \A c \in Assigned(contracts) : Told(contracts[c], outbox, n)
    BY <2>1 DEF GatewayInv
  <2> QED BY <1>1, <2>3, <2>4 DEF Told
<1>7. unknown' \subseteq lost'
  <2>1. ASSUME head.name = "SubmitRequest", NEW i \in head.names, i \notin registered
        PROVE  i \in lost
    <3>1. 1 \in 1 .. L /\ 1 - 1 = 0
      BY <1>2
    <3>2. Told(i, outbox, 0)
      BY <1>2, <2>1, <3>1 DEF GatewayInv
    <3> QED BY <2>1, <3>2 DEF Told
  <2> QED BY <1>1, <1>3, <2>1 DEF GatewayInv
<1>8. registered' \subseteq Indices
  BY <1>2, <1>3 DEF GatewayInv, Commands
<1>9. StoredInOrder(contracts, by_index)'
  BY <1>1 DEF GatewayInv, StoredInOrder
<1> QED BY <1>1, <1>2, <1>5, <1>7, <1>6, <1>8, <1>9 DEF GatewayInv

LEMMA GatewayInvHolds == GatewaySpec => []GatewayInv
<1>1. GatewayInv /\ [GatewayNext]_gatewayVars => GatewayInv'
  <2> SUFFICES ASSUME GatewayInv, [GatewayNext]_gatewayVars PROVE GatewayInv'
    OBVIOUS
  <2>1. ASSUME UNCHANGED gatewayVars PROVE GatewayInv'
    <3>1. UNCHANGED <<contracts, by_index, poisoned, accounts, outbox, registered, unknown, lost>>
      BY <2>1 DEF gatewayVars
    <3>2. StoredInOrder(contracts, by_index)' /\ \A i, n : Told(i, outbox, n) => Told(i, outbox, n)'
      BY <3>1 DEF GatewayInv, StoredInOrder, Told
    <3> QED BY <3>1, <3>2 DEF GatewayInv
  <2> QED BY <2>1, ContractKeeps, RequestKeeps, PoisonKeeps, ApplyNextKeeps DEF GatewayNext
<1> QED BY <1>1, GatewayInitHolds, PTL DEF GatewaySpec

\* However calls fail, and whenever the store's lock is poisoned, two contracts never share
\* an index, and the wording the publisher reads for an index is that of its contract.
THEOREM IndicesAreNotShared == GatewaySpec => []IndexNamesOneContract
<1>1. GatewayInv => IndexNamesOneContract
  <2> SUFFICES ASSUME GatewayInv PROVE IndexNamesOneContract
    OBVIOUS
  <2>1. GatewayTypeOK
    <3>1. \A n \in 1 .. Len(outbox) : outbox[n].names \subseteq Indices
      <4>1. \A n \in 1 .. Len(outbox) : outbox[n] \in Commands
        BY ElementOfSeq DEF GatewayInv
      <4> QED BY <4>1 DEF Commands
    <3> QED BY <3>1 DEF GatewayInv, GatewayTypeOK, Tables
  <2> QED BY <2>1 DEF GatewayInv, IndexNamesOneContract, Dense, StoredInOrder
<1> QED BY <1>1, GatewayInvHolds, PTL

\* The core refuses a request as naming an unknown contract only when a call that failed had
\* used up the contract's index; otherwise the announcement is ahead of the request.
THEOREM AnnouncedBeforeNamed == GatewaySpec => []UnknownOnlyAfterFailure
<1>1. GatewayInv => UnknownOnlyAfterFailure
  BY DEF GatewayInv, UnknownOnlyAfterFailure
<1> QED BY <1>1, GatewayInvHolds, PTL
=============================================================================
