--------------------------- MODULE TelemetryProofs --------------------------
(***************************************************************************)
(* Proofs about EventLog, for any writers and any bounds: the control room *)
(* shows events in the order of the log, and misses only those that were   *)
(* committed behind the stream's cursor.                                   *)
(*                                                                         *)
(* Where both rest on: what is on the wire lies after the last event that  *)
(* the browser received and no further than the cursor. So a poll only     *)
(* adds what comes later, and a broken connection can begin again at last. *)
(*                                                                         *)
(* And about Telemetry, for any workers, models and bounds: its units of   *)
(* work use the event log as EventLog says, so the control room's          *)
(* guarantees carry over; model states lose observations to overlapping    *)
(* calls only, and hold none that was not committed.                       *)
(***************************************************************************)
EXTENDS Telemetry, TLAPS

\* A position in the log: Start, or an event.
Position == [at : Nat, n : Nat]

WireInv ==
  /\ \A e \in wire : Before(last, e) /\ ~Before(cursor, e)
  /\ ~Before(cursor, last)
  /\ \A i \in 1..Len(shown) : ~Before(last, shown[i])

LogInv ==
  /\ LogTypeOK
  /\ WireInv
  /\ ShownInOrder
  /\ MissedOnlyIfOvertaken

-----------------------------------------------------------------------------
(* The order of positions.                                                 *)

LEMMA BeforeIsIrreflexive == ASSUME NEW e \in Position PROVE ~Before(e, e)
BY DEF Before, Position

LEMMA BeforeIsTransitive ==
  ASSUME NEW e \in Position, NEW f \in Position, NEW g \in Position,
         Before(e, f), Before(f, g)
  PROVE  Before(e, g)
BY DEF Before, Position

LEMMA BeforeIsTotal ==
  ASSUME NEW e \in Position, NEW f \in Position
  PROVE  e = f \/ Before(e, f) \/ Before(f, e)
BY DEF Before, Position

\* What is not behind a position is behind nothing that is before it.
LEMMA NotBeforeThenBefore ==
  ASSUME NEW e \in Position, NEW f \in Position, NEW g \in Position,
         ~Before(f, e), Before(f, g)
  PROVE  Before(e, g)
BY BeforeIsTotal, BeforeIsTransitive

LEMMA EventsArePositions == Event \subseteq Position /\ Start \in Position
BY DEF Event, Position, Start

LEMMA PositionsAreTyped ==
  ASSUME LogTypeOK
  PROVE  /\ cursor \in Position /\ last \in Position
         /\ log \subseteq Position /\ wire \subseteq Position
         /\ \A i \in 1..Len(shown) : shown[i] \in Position
<1>1. shown \in Seq(Event)
  BY DEF LogTypeOK
<1>2. \A i \in 1..Len(shown) : shown[i] \in Event
  BY <1>1
<1> QED
  BY <1>2, EventsArePositions DEF LogTypeOK

-----------------------------------------------------------------------------
(* Types.                                                                  *)

LEMMA StampedAreEvents ==
  ASSUME LogTypeOK, NEW w \in Writers, NEW count \in Nat, open[w] # 0
  PROVE  Stamped(w, count) \subseteq Event
<1>1. open[w] \in Nat \ {0}
  BY LogAssumption DEF LogTypeOK
<1> QED
  BY <1>1 DEF Stamped, Event

LEMMA InitTyped == LogInit => LogTypeOK
BY LogAssumption DEF LogInit, LogTypeOK, Event, Start

LEMMA BeginUnitTyped ==
  ASSUME LogTypeOK, NEW w \in Writers, BeginUnit(w) PROVE LogTypeOK'
<1>1. clock' \in 0..MaxUnits /\ clock + 1 \in 0..MaxUnits
  BY LogAssumption DEF LogTypeOK, BeginUnit
<1> QED
  BY <1>1 DEF LogTypeOK, BeginUnit, streamVars

LEMMA CommitUnitTyped ==
  ASSUME LogTypeOK, NEW w \in Writers, NEW count \in Nat, CommitUnit(w, count)
  PROVE  LogTypeOK'
<1>1. Stamped(w, count) \subseteq Event
  BY StampedAreEvents DEF CommitUnit
<1>2. open' \in [Writers -> 0..MaxUnits]
  BY LogAssumption DEF LogTypeOK, CommitUnit
<1> QED
  BY <1>1, <1>2 DEF LogTypeOK, CommitUnit, streamVars

LEMMA RollbackTyped ==
  ASSUME LogTypeOK, NEW w \in Writers, Rollback(w) PROVE LogTypeOK'
BY LogAssumption DEF LogTypeOK, Rollback, streamVars

LEMMA PollTyped == ASSUME LogTypeOK, Poll PROVE LogTypeOK'
BY DEF LogTypeOK, Poll, Final, After

LEMMA DeliverTyped == ASSUME LogTypeOK, Deliver PROVE LogTypeOK'
<1>1. PICK e \in wire :
        /\ wire' = wire \ {e} /\ last' = e
        /\ shown' = IF e \in Shown THEN shown ELSE Append(shown, e)
        /\ UNCHANGED <<clock, open, log, overtaken, cursor, drops>>
  BY DEF Deliver
<1>2. e \in Event
  BY DEF LogTypeOK
<1>3. shown' \in Seq(Event)
  BY <1>1, <1>2 DEF LogTypeOK
<1> QED
  BY <1>1, <1>3 DEF LogTypeOK

LEMMA ReconnectTyped == ASSUME LogTypeOK, Reconnect PROVE LogTypeOK'
<1>1. drops' \in 0..MaxDrops
  BY LogAssumption DEF LogTypeOK, Reconnect, Reset
<1> QED
  BY <1>1 DEF LogTypeOK, Reconnect, Reset

-----------------------------------------------------------------------------
(* The invariant. Nothing but Reconnect moves the cursor back, and it      *)
(* drops the wire with it.                                                 *)

LEMMA InitInv == LogInit => LogInv
<1> SUFFICES ASSUME LogInit PROVE LogInv
  OBVIOUS
<1>1. WireInv /\ ShownInOrder /\ MissedOnlyIfOvertaken
  BY DEF LogInit, WireInv, ShownInOrder, MissedOnlyIfOvertaken, Before, Start
<1> QED
  BY <1>1, InitTyped DEF LogInv

\* Steps of writers that commit nothing.
LEMMA QuietInv ==
  ASSUME LogInv, LogTypeOK', UNCHANGED <<log, overtaken, streamVars>> PROVE LogInv'
BY DEF LogInv, WireInv, ShownInOrder, MissedOnlyIfOvertaken, Shown, streamVars

\* A commit behind the cursor goes to overtaken, any other lies ahead.
LEMMA CommitUnitInv ==
  ASSUME LogInv, NEW w \in Writers, NEW count \in Nat, CommitUnit(w, count)
  PROVE  LogInv'
<1>1. LogTypeOK'
  BY CommitUnitTyped DEF LogInv
<1>2. WireInv' /\ ShownInOrder'
  BY DEF LogInv, WireInv, ShownInOrder, CommitUnit, streamVars
<1>3. MissedOnlyIfOvertaken'
  BY DEF LogInv, MissedOnlyIfOvertaken, CommitUnit, Shown, streamVars
<1> QED
  BY <1>1, <1>2, <1>3 DEF LogInv

LEMMA PollInv == ASSUME LogInv, Poll PROVE LogInv'
<1> USE DEF Position
<1>1. LogTypeOK'
  BY PollTyped DEF LogInv
<1>2. /\ cursor \in Position /\ last \in Position /\ cursor' \in Position
      /\ log \subseteq Position /\ wire \subseteq Position
  BY <1>1, PositionsAreTyped DEF LogInv, LogTypeOK, Poll, Final, After
<1>3. /\ wire' = wire \union After(cursor) /\ cursor' \in After(cursor)
      /\ \A e \in After(cursor) : e = cursor' \/ Before(e, cursor')
      /\ UNCHANGED <<log, overtaken, last, shown>>
  BY DEF Poll, Final
<1>4. Before(cursor, cursor')
  BY <1>3 DEF After
<1>5. \A e \in wire : Before(last, e) /\ ~Before(cursor', e)
  <2> SUFFICES ASSUME NEW e \in wire PROVE Before(last, e) /\ ~Before(cursor', e)
    OBVIOUS
  <2>1. Before(last, e) /\ ~Before(cursor, e)
    BY DEF LogInv, WireInv
  <2> QED
    BY <1>2, <1>4, <2>1, BeforeIsTransitive
<1>6. \A e \in After(cursor) : Before(last, e) /\ ~Before(cursor', e)
  <2> SUFFICES ASSUME NEW e \in After(cursor) PROVE Before(last, e) /\ ~Before(cursor', e)
    OBVIOUS
  <2>1. e \in Position /\ Before(cursor, e)
    BY <1>2 DEF After
  <2>2. Before(last, e)
    BY <1>2, <2>1, NotBeforeThenBefore DEF LogInv, WireInv
  <2>3. ~Before(cursor', e)
    BY <1>2, <1>3, <2>1, BeforeIsIrreflexive, BeforeIsTransitive
  <2> QED
    BY <2>2, <2>3
<1>7. ~Before(cursor', last)
  BY <1>2, <1>3, <1>6, BeforeIsIrreflexive, BeforeIsTransitive
<1>8. WireInv' /\ ShownInOrder'
  BY <1>3, <1>5, <1>6, <1>7 DEF LogInv, WireInv, ShownInOrder
<1>9. MissedOnlyIfOvertaken'
  BY <1>3 DEF LogInv, MissedOnlyIfOvertaken, Shown, After
<1> QED
  BY <1>1, <1>8, <1>9 DEF LogInv

LEMMA DeliverInv == ASSUME LogInv, Deliver PROVE LogInv'
<1>1. LogTypeOK'
  BY DeliverTyped DEF LogInv
<1>2. PICK e \in wire :
        /\ \A f \in wire : f = e \/ Before(e, f)
        /\ wire' = wire \ {e} /\ last' = e
        /\ shown' = IF e \in Shown THEN shown ELSE Append(shown, e)
        /\ UNCHANGED <<log, overtaken, cursor>>
  BY DEF Deliver, First
<1>3. /\ last \in Position /\ wire \subseteq Position /\ e \in Position
      /\ \A i \in 1..Len(shown) : shown[i] \in Position
  BY PositionsAreTyped DEF LogInv
<1>4. Before(last, e) /\ ~Before(cursor, e)
  BY DEF LogInv, WireInv
\* What is on the wire comes after everything shown.
<1>5. \A i \in 1..Len(shown) : Before(shown[i], e)
  BY <1>3, <1>4, NotBeforeThenBefore DEF LogInv, WireInv
<1>6. e \notin Shown
  BY <1>3, <1>5, BeforeIsIrreflexive DEF Shown
<1>7. shown \in Seq(Event) /\ shown' = Append(shown, e)
  BY <1>2, <1>6 DEF LogInv, LogTypeOK
<1>8. /\ Len(shown') = Len(shown) + 1
      /\ \A i \in 1..Len(shown) : shown'[i] = shown[i]
      /\ shown'[Len(shown) + 1] = e
  BY <1>7
<1>9. Len(shown) \in Nat
  BY <1>7
<1>10. \A i \in 1..Len(shown') : i \in 1..Len(shown) \/ i = Len(shown) + 1
  BY <1>8, <1>9
<1>11. ShownInOrder'
  <2> SUFFICES ASSUME NEW i \in 1..Len(shown'), NEW j \in 1..Len(shown'), i < j
               PROVE  Before(shown'[i], shown'[j])
    BY DEF ShownInOrder
  <2>1. i \in 1..Len(shown)
    BY <1>8, <1>9
  <2>2. CASE j \in 1..Len(shown)
    BY <1>8, <2>1, <2>2 DEF LogInv, ShownInOrder
  <2>3. CASE j = Len(shown) + 1
    BY <1>5, <1>8, <2>1, <2>3
  <2> QED
    BY <1>10, <2>2, <2>3
<1>12. \A i \in 1..Len(shown') : ~Before(last', shown'[i])
  <2> SUFFICES ASSUME NEW i \in 1..Len(shown') PROVE ~Before(e, shown'[i])
    BY <1>2
  <2>1. CASE i \in 1..Len(shown)
    BY <1>3, <1>5, <1>8, <2>1, BeforeIsIrreflexive, BeforeIsTransitive
  <2>2. CASE i = Len(shown) + 1
    BY <1>3, <1>8, <2>2, BeforeIsIrreflexive
  <2> QED
    BY <1>10, <2>1, <2>2
<1>13. WireInv'
  BY <1>2, <1>4, <1>12 DEF LogInv, WireInv
<1>14. Shown' = Shown \union {e}
  BY <1>8, <1>9, <1>10 DEF Shown
<1>15. MissedOnlyIfOvertaken'
  BY <1>2, <1>14 DEF LogInv, MissedOnlyIfOvertaken
<1> QED
  BY <1>1, <1>11, <1>13, <1>15 DEF LogInv

LEMMA ReconnectInv == ASSUME LogInv, Reconnect PROVE LogInv'
<1>1. LogTypeOK'
  BY ReconnectTyped DEF LogInv
<1>2. wire' = {} /\ cursor' = last /\ UNCHANGED <<log, overtaken, last, shown>>
  BY DEF Reconnect, Reset
<1>3. cursor \in Position /\ last \in Position /\ log \subseteq Position
  BY PositionsAreTyped DEF LogInv
<1>4. WireInv' /\ ShownInOrder'
  BY <1>2, <1>3, BeforeIsIrreflexive DEF LogInv, WireInv, ShownInOrder
\* What was on the wire, or ahead of the cursor, is ahead of last.
<1>5. \A e \in wire : Before(last, e)
  BY DEF LogInv, WireInv
<1>6. \A e \in log : Before(cursor, e) => Before(last, e)
  BY <1>3, NotBeforeThenBefore DEF LogInv, WireInv
<1>7. MissedOnlyIfOvertaken'
  BY <1>2, <1>5, <1>6 DEF LogInv, MissedOnlyIfOvertaken, Shown
<1> QED
  BY <1>1, <1>4, <1>7 DEF LogInv

LEMMA NextInv == ASSUME LogInv, [LogNext]_logVars PROVE LogInv'
<1>1. CASE UNCHANGED logVars
  BY <1>1 DEF logVars, streamVars, LogInv, LogTypeOK, WireInv, ShownInOrder,
              MissedOnlyIfOvertaken, Shown
<1>2. ASSUME NEW w \in Writers, BeginUnit(w) PROVE LogInv'
  BY <1>2, BeginUnitTyped, QuietInv DEF LogInv, BeginUnit
<1>3. ASSUME NEW w \in Writers, Rollback(w) PROVE LogInv'
  BY <1>3, RollbackTyped, QuietInv DEF LogInv, Rollback
<1>4. ASSUME NEW w \in Writers, NEW count \in 0..MaxEvents, CommitUnit(w, count)
      PROVE  LogInv'
  BY <1>4, CommitUnitInv, LogAssumption
<1> QED
  BY <1>1, <1>2, <1>3, <1>4, PollInv, DeliverInv, ReconnectInv
     DEF LogNext, Watch, Write

-----------------------------------------------------------------------------
(* The theorems.                                                           *)

\* The whole invariant, for the modules that build on EventLog.
THEOREM LogInvariant == LogSpec => []LogInv
<1>1. LogInv /\ [LogNext]_logVars => LogInv'
  BY NextInv
<1> QED
  BY <1>1, InitInv, PTL DEF LogSpec

\* However often the connection breaks and whatever is committed late, the
\* control room shows each event once and in the order of the log.
THEOREM ShowsInOrder == LogSpec => []ShownInOrder
BY LogInvariant, PTL DEF LogInv

\* No event is missed but one that was committed behind the cursor.
THEOREM MissesOnlyOvertaken == LogSpec => []MissedOnlyIfOvertaken
BY LogInvariant, PTL DEF LogInv

-----------------------------------------------------------------------------
(* The event log, seen from here.                                          *)

\* Every step of a worker is one of the log's, or none that the log sees.
LEMMA StepUsesLog == ASSUME [Next]_vars PROVE [LogNext]_logVars
<1>1. ASSUME NEW w \in Workers, Announce(w) PROVE LogNext
  <2>1. CommitUnit(w, 1)
    BY <1>1 DEF Announce
  <2> QED
    BY <2>1, LogAssumption, TelemetryAssumption DEF LogNext, Write, Workers
<1>2. ASSUME NEW w \in Workers, Record(w) PROVE LogNext
  BY <1>2 DEF Record, LogNext, Write, Workers
<1>3. ASSUME NEW w \in Workers, Kill(w) PROVE [LogNext]_logVars
  BY <1>3 DEF Kill, Disconnect, LogNext, Write, Workers
<1>4. ASSUME NEW w \in Workers, BeginAnnounce(w) \/ BeginRecord(w) PROVE LogNext
  BY <1>4 DEF BeginAnnounce, BeginRecord, LogNext, Write, Workers
<1>5. ASSUME NEW w \in Workers,
             BeginSeeding(w) \/ Seed(w) \/ Generate(w) \/ ReadState(w) \/ Restart(w)
      PROVE  UNCHANGED logVars
  BY <1>5 DEF BeginSeeding, Seed, Generate, ReadState, Restart
<1>6. Watch => LogNext
  BY DEF LogNext
<1>7. CASE UNCHANGED vars
  BY <1>7 DEF vars
<1> QED
  BY <1>1, <1>2, <1>3, <1>4, <1>5, <1>6, <1>7 DEF Next, Proceed

\* Workers, models and kills are nothing to the control room: what is proved of
\* EventLog holds of Telemetry.
THEOREM TelemetryUsesLog == Spec => ImplementsEventLog
<1>1. Init => LogInit
  BY DEF Init
<1>2. [Next]_vars => [LogNext]_logVars
  BY StepUsesLog
<1> QED
  BY <1>1, <1>2, PTL DEF Spec, ImplementsEventLog, LogSpec

LEMMA LogInvHere == Spec => []LogInv
BY TelemetryUsesLog, LogInvariant, PTL DEF ImplementsEventLog

\* The control room of a run with any number of workers, killed anywhere and
\* started again: in order, and complete but for what was committed behind it.
THEOREM ControlRoomOfWorkers == Spec => [](ShownInOrder /\ MissedOnlyIfOvertaken)
BY LogInvHere, PTL DEF LogInv

-----------------------------------------------------------------------------
(* Types.                                                                  *)

Calling == {"called", "recording", "observed"}

\* TypeOK, with what a worker's place says of the rest of its state.
CallInv ==
  /\ pc \in [Workers -> Places] /\ profiles \subseteq Models
  /\ catalog \in [Workers -> SUBSET Models]
  /\ current \in [Workers -> [id : 0..MaxCalls, model : Models, outcome : Outcome]]
  /\ seen \in [Workers -> SUBSET (Models \union 1..MaxCalls)]
  /\ made \in 0..MaxCalls /\ kills \in 0..MaxKills
  /\ rate \in [Models -> SUBSET (1..MaxCalls)] /\ overlapped \subseteq 1..MaxCalls
  /\ \A w \in Workers :
       /\ open[w] # 0 <=> pc[w] \in {"announcing", "recording", "observed"}
       /\ pc[w] \in Routed => catalog[w] \subseteq profiles
       /\ pc[w] \in Calling => current[w].id \in 1..MaxCalls
       /\ pc[w] = "seeding" => seen[w] \subseteq profiles
       /\ pc[w] = "observed" => seen[w] \subseteq 1..MaxCalls

LEMMA InitCallInv == Init => CallInv
BY TelemetryAssumption
   DEF Init, CallInv, LogInit, Places, Routed, Calling, NoCall, Outcome, Workers

LEMMA ChargedIsModel ==
  ASSUME CallInv, NEW w \in Workers PROVE Charged(w) \in Models
BY TelemetryAssumption DEF CallInv, Charged

LEMMA StepCallInv ==
  ASSUME LogTypeOK, CallInv, [Next]_vars PROVE CallInv'
<1> USE TelemetryAssumption, LogAssumption DEF CallInv, Places, Routed, Calling, Goto, Workers
<1>0. open \in [Writers -> Nat] /\ clock \in Nat
  BY DEF LogTypeOK
<1>1. ASSUME NEW w \in Workers, BeginSeeding(w) PROVE CallInv'
  BY <1>0, <1>1 DEF BeginSeeding, logVars
<1>2. ASSUME NEW w \in Workers, Seed(w) PROVE CallInv'
  <2>1. CASE LostRace(w)
    BY <1>0, <1>2, <2>1 DEF Seed, logVars
  <2>2. CASE ~LostRace(w)
    <3>1. /\ profiles \subseteq profiles' /\ profiles' \subseteq Models
          /\ catalog[w] \subseteq profiles'
      BY <1>2, <2>2 DEF Seed, Missing
    <3> QED
      BY <1>0, <1>2, <2>2, <3>1 DEF Seed, logVars
  <2> QED
    BY <2>1, <2>2
<1>3. ASSUME NEW w \in Workers, BeginAnnounce(w) PROVE CallInv'
  BY <1>0, <1>3 DEF BeginAnnounce, BeginUnit
<1>4. ASSUME NEW w \in Workers, Announce(w) PROVE CallInv'
  BY <1>0, <1>4 DEF Announce, CommitUnit
<1>5. ASSUME NEW w \in Workers, Generate(w) PROVE CallInv'
  <2>1. PICK m \in catalog[w], o \in Outcome :
          current' = [current EXCEPT ![w] = [id |-> made + 1, model |-> m, outcome |-> o]]
    BY <1>5 DEF Generate
  <2>2. made + 1 \in 1..MaxCalls /\ made' = made + 1
    BY <1>5 DEF Generate
  <2> QED
    BY <1>0, <1>5, <2>1, <2>2 DEF Generate, logVars
<1>6. ASSUME NEW w \in Workers, BeginRecord(w) PROVE CallInv'
  BY <1>0, <1>6 DEF BeginRecord, BeginUnit
<1>7. ASSUME NEW w \in Workers, ReadState(w) PROVE CallInv'
  <2>1. rate[Charged(w)] \subseteq 1..MaxCalls
    BY <1>7, ChargedIsModel DEF ReadState
  <2> QED
    BY <1>0, <1>7, <2>1 DEF ReadState, logVars
<1>8. ASSUME NEW w \in Workers, Record(w) PROVE CallInv'
  <2>1. PICK count \in 0..MaxEvents : CommitUnit(w, count)
    BY <1>8 DEF Record
  <2>2. Observed(w) \subseteq 1..MaxCalls /\ overlapped' \subseteq 1..MaxCalls
    BY <1>8 DEF Record, Observed
  <2>3. rate' \in [Models -> SUBSET (1..MaxCalls)]
    BY <1>8, <2>2 DEF Record
  <2>4. current' \in [Workers -> [id : 0..MaxCalls, model : Models, outcome : Outcome]]
    BY <1>8 DEF Record, NoCall, Outcome
  <2> QED
    BY <1>0, <1>8, <2>1, <2>2, <2>3, <2>4 DEF Record, CommitUnit
<1>9. ASSUME NEW w \in Workers, Kill(w) PROVE CallInv'
  <2>1. open' = [open EXCEPT ![w] = 0]
    BY <1>0, <1>9 DEF Kill, Disconnect, Rollback, logVars
  <2>2. current' \in [Workers -> [id : 0..MaxCalls, model : Models, outcome : Outcome]]
    BY <1>9 DEF Kill, NoCall, Outcome
  <2>3. kills' \in 0..MaxKills
    BY <1>9 DEF Kill
  <2> QED
    BY <1>0, <1>9, <2>1, <2>2, <2>3 DEF Kill
<1>10. ASSUME NEW w \in Workers, Restart(w) PROVE CallInv'
  BY <1>0, <1>10 DEF Restart, logVars
<1>11. ASSUME Watch, UNCHANGED callVars PROVE CallInv'
  BY <1>11 DEF Watch, Poll, Deliver, Reconnect, Reset, callVars
<1>12. CASE UNCHANGED vars
  BY <1>12 DEF vars, callVars, logVars
<1> QED
  BY <1>1, <1>2, <1>3, <1>4, <1>5, <1>6, <1>7, <1>8, <1>9, <1>10, <1>11, <1>12
     DEF Next, Proceed

LEMMA CallInvariant == Spec => []CallInv
<1>1. LogInv /\ CallInv /\ [Next]_vars => CallInv'
  BY StepCallInv DEF LogInv
<1> QED
  BY <1>1, InitCallInv, LogInvHere, PTL DEF Spec

\* Workers, catalogues, states and the log keep their types, and a worker has a
\* transaction open exactly where its place says so.
THEOREM TypeCorrect == Spec => []TypeOK
<1>1. LogInv /\ CallInv => TypeOK
  BY DEF LogInv, CallInv, TypeOK
<1> QED
  BY <1>1, CallInvariant, LogInvHere, PTL

-----------------------------------------------------------------------------
(* Observations: what a unit of work has read of a rate is what it will    *)
(* write back, so it is held to the same as the rate itself.               *)

Earned(m, i) == \E c \in calls : c.id = i /\ (c.model = m \/ (m = Primary /\ c.outcome = "raised"))

EarnInv ==
  /\ \A m \in Models : \A i \in rate[m] : Earned(m, i)
  /\ \A w \in Workers : pc[w] = "observed" => \A i \in seen[w] : Earned(Charged(w), i)

\* S has every call charged to m that no other's write has cost or may cost it.
Accounts(m, S) == \A c \in calls : c.profile = m => c.id \in S \/ c.id \in overlapped

LossInv ==
  /\ \A c \in calls : c.profile \in Models
  /\ \A m \in Models : Accounts(m, rate[m])
  /\ \A w \in Workers : pc[w] = "observed" => Accounts(Charged(w), seen[w])

ObservationInv == EarnInv /\ LossInv

LEMMA InitObservationInv == Init => ObservationInv
BY DEF Init, ObservationInv, EarnInv, LossInv, Accounts

\* A step that leaves rates and calls alone, and whoever has read a rate.
LEMMA QuietStep ==
  ASSUME ObservationInv, UNCHANGED <<rate, calls, overlapped>>,
         \A v \in Workers : pc'[v] = "observed" =>
           /\ pc[v] = "observed"
           /\ Charged(v)' = Charged(v) /\ seen'[v] = seen[v]
  PROVE  ObservationInv'
<1>1. \A m, i : Earned(m, i)' <=> Earned(m, i)
  BY DEF Earned
<1>2. EarnInv'
  BY <1>1 DEF ObservationInv, EarnInv
<1>3. LossInv'
  BY DEF ObservationInv, LossInv, Accounts
<1> QED
  BY <1>2, <1>3 DEF ObservationInv

LEMMA ReadStateStep ==
  ASSUME CallInv, ObservationInv, NEW w \in Workers, ReadState(w)
  PROVE  ObservationInv'
<1>1. /\ pc' = [pc EXCEPT ![w] = "observed"]
      /\ seen' = [seen EXCEPT ![w] = rate[Charged(w)]]
      /\ UNCHANGED <<rate, calls, overlapped, current>>
  BY DEF ReadState, Goto
<1>2. Charged(w) \in Models
  BY ChargedIsModel
<1>3. \A v \in Workers : Charged(v)' = Charged(v)
  BY <1>1 DEF Charged
<1>4. seen'[w] = rate[Charged(w)]
      /\ \A v \in Workers \ {w} : seen'[v] = seen[v] /\ pc'[v] = pc[v]
  BY <1>1 DEF CallInv
<1>5. \A m, i : Earned(m, i)' <=> Earned(m, i)
  BY <1>1 DEF Earned
<1>6. EarnInv'
  BY <1>1, <1>2, <1>3, <1>4, <1>5 DEF ObservationInv, EarnInv
<1>7. LossInv'
  BY <1>1, <1>2, <1>3, <1>4 DEF ObservationInv, LossInv, Accounts
<1> QED
  BY <1>6, <1>7 DEF ObservationInv

\* The commit of a call. Others who have read the same rate go without this
\* call, which is what overlapped notes.
LEMMA RecordStep ==
  ASSUME CallInv, ObservationInv, NEW w \in Workers, Record(w)
  PROVE  ObservationInv'
<1>1. Charged(w) \in Models
  BY ChargedIsModel
<1>2. PICK m \in Models, id \in 0..MaxCalls : m = Charged(w) /\ id = current[w].id
  BY <1>1 DEF CallInv
<1>3. /\ pc[w] = "observed"
      /\ rate' = [rate EXCEPT ![m] = seen[w] \union {id}]
      /\ calls' = calls \union {Row(w)}
      /\ overlapped \subseteq overlapped'
      /\ Overlaps(w) => id \in overlapped'
  BY <1>2 DEF Record, Observed
<1>4. rate'[m] = seen[w] \union {id}
  BY <1>3, <1>2 DEF CallInv
<1>5. \A o \in Models \ {m} : rate'[o] = rate[o]
  BY <1>3 DEF CallInv
<1>6. pc'[w] = "up" /\ \A v \in Workers \ {w} :
        pc'[v] = pc[v] /\ seen'[v] = seen[v] /\ current'[v] = current[v]
  BY DEF Record, Goto, CallInv
<1>7. \A v \in Workers \ {w} : Charged(v)' = Charged(v)
  BY <1>3, <1>6 DEF Charged
<1>8. Row(w).id = id /\ Row(w).profile = m
  BY <1>2 DEF Row
<1>9. Earned(m, id)'
  <2>1. Row(w) \in calls'
    BY <1>3
  <2>2. Row(w).model = m \/ (m = Primary /\ Row(w).outcome = "raised")
    BY <1>2 DEF Row, Charged
  <2> QED
    BY <1>8, <2>1, <2>2 DEF Earned
<1>10. \A o, i : Earned(o, i) => Earned(o, i)'
  BY <1>3 DEF Earned
<1>11. EarnInv'
  <2>1. ASSUME NEW o \in Models, NEW i \in rate'[o] PROVE Earned(o, i)'
    <3>1. CASE o = m
      BY <1>3, <1>2, <1>4, <1>9, <1>10, <2>1, <3>1 DEF ObservationInv, EarnInv
    <3>2. CASE o # m
      BY <1>5, <1>10, <2>1, <3>2 DEF ObservationInv, EarnInv
    <3> QED
      BY <3>1, <3>2
  <2>2. ASSUME NEW v \in Workers, pc'[v] = "observed", NEW i \in seen'[v]
        PROVE  Earned(Charged(v), i)'
    BY <1>6, <1>7, <1>10, <2>2 DEF ObservationInv, EarnInv
  <2> QED
    BY <2>1, <2>2 DEF EarnInv
<1>12. LossInv'
  <2>1. \A c \in calls' : c.profile \in Models
    BY <1>3, <1>2, <1>8 DEF ObservationInv, LossInv
  <2>2. ASSUME NEW o \in Models PROVE Accounts(o, rate[o])'
    <3>1. CASE o = m
      BY <1>3, <1>2, <1>4, <1>8, <3>1 DEF ObservationInv, LossInv, Accounts
    <3>2. CASE o # m
      BY <1>3, <1>5, <1>8, <3>2 DEF ObservationInv, LossInv, Accounts
    <3> QED
      BY <3>1, <3>2
  <2>3. ASSUME NEW v \in Workers, pc'[v] = "observed" PROVE Accounts(Charged(v), seen[v])'
    <3>1. v # w /\ pc[v] = "observed" /\ Charged(v)' = Charged(v) /\ seen'[v] = seen[v]
      BY <1>6, <1>7, <2>3
    <3>2. Charged(v) = m => id \in overlapped'
      BY <1>3, <1>2, <3>1 DEF Overlaps
    <3> QED
      BY <1>3, <1>8, <3>1, <3>2 DEF ObservationInv, LossInv, Accounts
  <2> QED
    BY <2>1, <2>2, <2>3 DEF LossInv
<1> QED
  BY <1>11, <1>12 DEF ObservationInv

LEMMA StepObservationInv ==
  ASSUME CallInv, ObservationInv, [Next]_vars PROVE ObservationInv'
<1> USE DEF Goto, CallInv, Charged
<1>1. ASSUME NEW w \in Workers,
             BeginSeeding(w) \/ BeginAnnounce(w) \/ Announce(w) \/ Generate(w) \/ BeginRecord(w)
               \/ Restart(w)
      PROVE  ObservationInv'
  BY <1>1, QuietStep DEF BeginSeeding, BeginAnnounce, Announce, Generate, BeginRecord, Restart
<1>2. ASSUME NEW w \in Workers, Seed(w) PROVE ObservationInv'
  BY <1>2, QuietStep DEF Seed
<1>3. ASSUME NEW w \in Workers, Kill(w) PROVE ObservationInv'
  BY <1>3, QuietStep DEF Kill
<1>4. ASSUME Watch, UNCHANGED callVars PROVE ObservationInv'
  BY <1>4, QuietStep DEF callVars
<1>5. CASE UNCHANGED vars
  BY <1>5, QuietStep DEF vars, callVars
<1> QED
  BY <1>1, <1>2, <1>3, <1>4, <1>5, ReadStateStep, RecordStep DEF Next, Proceed

LEMMA ObservationInvariant == Spec => []ObservationInv
<1>1. CallInv /\ ObservationInv /\ [Next]_vars => ObservationInv'
  BY StepObservationInv
<1> QED
  BY <1>1, InitObservationInv, CallInvariant, PTL DEF Spec

\* However many workers call at once and wherever they are killed: a call that is
\* missing from its model's failure rate was overwritten by an overlapping one.
THEOREM OnlyOverlapsLose == Spec => []LostOnlyToOverlap
<1>1. ObservationInv => LostOnlyToOverlap
  BY DEF ObservationInv, LossInv, Accounts, LostOnlyToOverlap
<1> QED
  BY <1>1, ObservationInvariant, PTL

\* No model's rate holds a call that was not committed, or that another answered.
THEOREM RatesHoldCommittedCalls == Spec => []RatesAreEarned
<1>1. ObservationInv => RatesAreEarned
  BY DEF ObservationInv, EarnInv, Earned, RatesAreEarned
<1> QED
  BY <1>1, ObservationInvariant, PTL

-----------------------------------------------------------------------------
(* Start-up: whoever has read less than is there now was overtaken by a    *)
(* worker that is up.                                                      *)

SomeUp == \E w \in Workers : pc[w] \in Routed

StartInv ==
  kills = 0 =>
    \A w \in Workers : pc[w] = "dead" \/ (pc[w] = "seeding" /\ seen[w] # profiles) => SomeUp

LEMMA InitStartInv == Init => StartInv
BY DEF Init, StartInv, Workers

LEMMA StepStartInv ==
  ASSUME CallInv, StartInv, [Next]_vars PROVE StartInv'
<1> SUFFICES ASSUME kills' = 0 PROVE StartInv'
  BY DEF StartInv
<1> USE DEF CallInv, Goto, Routed
<1>1. kills = 0
  <2>1. kills' = kills \/ kills' = kills + 1
    BY DEF Next, Proceed, BeginSeeding, Seed, BeginAnnounce, Announce, Generate, BeginRecord,
           ReadState, Record, Kill, Restart, vars, callVars
  <2> QED
    BY <2>1, TelemetryAssumption
<1>2. ASSUME NEW w \in Workers, BeginSeeding(w) PROVE StartInv'
  BY <1>1, <1>2 DEF StartInv, SomeUp, BeginSeeding
<1>3. ASSUME NEW w \in Workers, Seed(w) PROVE StartInv'
  <2>1. CASE LostRace(w)
    <3>1. seen[w] # profiles
      BY <2>1 DEF LostRace, Missing
    <3>2. PICK v \in Workers : pc[v] \in Routed
      BY <1>1, <1>3, <3>1 DEF StartInv, SomeUp, Seed
    <3>3. pc'[v] = pc[v]
      BY <1>3, <3>2, <2>1 DEF Seed
    <3> QED
      BY <3>2, <3>3 DEF StartInv, SomeUp
  <2>2. CASE ~LostRace(w)
    <3>1. pc'[w] = "up"
      BY <1>3, <2>2 DEF Seed
    <3> QED
      BY <3>1 DEF StartInv, SomeUp
  <2> QED
    BY <2>1, <2>2
<1>4. ASSUME NEW w \in Workers,
             \/ BeginAnnounce(w) \/ Announce(w) \/ Generate(w) \/ BeginRecord(w) \/ ReadState(w)
             \/ Record(w)
      PROVE  StartInv'
  <2>1. pc'[w] \in Routed
    BY <1>4 DEF BeginAnnounce, Announce, Generate, BeginRecord, ReadState, Record
  <2> QED
    BY <2>1 DEF StartInv, SomeUp
<1>5. ASSUME NEW w \in Workers, Kill(w) PROVE FALSE
  BY <1>1, <1>5 DEF Kill
<1>6. ASSUME NEW w \in Workers, Restart(w) PROVE StartInv'
  BY <1>1, <1>6 DEF StartInv, SomeUp, Restart
<1>7. CASE UNCHANGED callVars
  BY <1>1, <1>7 DEF StartInv, SomeUp, callVars
<1> QED
  BY <1>2, <1>3, <1>4, <1>5, <1>6, <1>7 DEF Next, Proceed, vars

\* Workers that seed an empty database at once end each other, but one gets
\* through, whatever they discover and in whatever order they commit.
THEOREM OneWorkerStarts ==
  ASSUME Workers # {}
  PROVE  Spec => []StartupLeavesOne
<1>1. CallInv /\ StartInv /\ [Next]_vars => StartInv'
  BY StepStartInv
<1>2. Spec => []StartInv
  BY <1>1, InitStartInv, CallInvariant, PTL DEF Spec
<1>3. StartInv => StartupLeavesOne
  BY DEF StartInv, SomeUp, StartupLeavesOne, Routed
<1> QED
  BY <1>2, <1>3, PTL

=============================================================================
