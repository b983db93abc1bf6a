------------------------------ MODULE EventLog ------------------------------
(***************************************************************************)
(* The event log of one run and who watches it: RunEventSqlRepository      *)
(* (packages/persistence/repositories.py), the endpoint                    *)
(* GET /runs/{run_id}/events (services/api/app/main.py), and the control   *)
(* room (apps/web/src/app/page.tsx).                                       *)
(*                                                                         *)
(* An event's created_at is now() of its transaction: the time at which    *)
(* the unit of work began, not the time at which others can see it. The    *)
(* events of one unit of work share it, and their random ids order them.   *)
(* The stream hands out what lies after its cursor in this order, so an    *)
(* event that is committed late may lie behind the cursor already.         *)
(*                                                                         *)
(* The generator polls, yields one event at a time and moves its cursor    *)
(* along; nobody sees the cursor while a batch is under way, so a poll     *)
(* puts the batch on the wire and moves the cursor to its end. A           *)
(* connection that is lost takes the wire with it, and the browser comes   *)
(* back with the id of the last event it received (Last-Event-ID).         *)
(***************************************************************************)
EXTENDS Integers, Sequences

CONSTANTS
  Writers,      \* processes with units of work that append events
  MaxUnits,     \* bound: units of work that append
  MaxEvents,    \* bound: events one unit of work appends
  MaxDrops      \* bound: connections that are lost

ASSUME LogAssumption ==
  MaxUnits \in Nat /\ MaxEvents \in Nat /\ MaxDrops \in Nat

VARIABLES
  clock,      \* units of work begun so far
  open,       \* open[w]: created_at of the unit of work w has open, 0 if none
  log,        \* run_events as committed
  cursor,     \* the stream's cursor
  wire,       \* events read from the log that the browser has yet to receive
  last,       \* the last event the browser received
  shown,      \* the events of the control room, in the order of their display
  drops,      \* connections lost so far
  overtaken   \* history: events committed behind the cursor

streamVars == <<cursor, wire, last, shown, drops>>
logVars == <<clock, open, log, overtaken, streamVars>>

Event == [at : Nat \ {0}, n : Nat \ {0}]

\* The order of created_at, id. Start stands for no event: a stream without a
\* cursor, or one whose anchor is not in the table, sends the whole log.
Start == [at |-> 0, n |-> 0]
Before(e, f) == e.at < f.at \/ (e.at = f.at /\ e.n < f.n)
After(position) == {e \in log : Before(position, e)}

First(S, e) == e \in S /\ \A f \in S : f = e \/ Before(e, f)
Final(S, e) == e \in S /\ \A f \in S : f = e \/ Before(f, e)

Shown == {shown[i] : i \in 1..Len(shown)}

LogInit ==
  /\ clock = 0 /\ open = [w \in Writers |-> 0]
  /\ log = {} /\ overtaken = {}
  /\ cursor = Start /\ wire = {} /\ last = Start /\ shown = <<>> /\ drops = 0

-----------------------------------------------------------------------------
(* The writers.                                                            *)

\* The first statement of a unit of work fixes the created_at of its events.
BeginUnit(w) ==
  /\ open[w] = 0
  /\ clock < MaxUnits
  /\ clock' = clock + 1
  /\ open' = [open EXCEPT ![w] = clock + 1]
  /\ UNCHANGED <<log, overtaken, streamVars>>

Stamped(w, count) == {[at |-> open[w], n |-> i] : i \in 1..count}

\* append, and the commit of its unit of work.
CommitUnit(w, count) ==
  /\ open[w] # 0
  /\ open' = [open EXCEPT ![w] = 0]
  /\ log' = log \union Stamped(w, count)
  /\ overtaken' = overtaken \union {e \in Stamped(w, count) : ~Before(cursor, e)}
  /\ UNCHANGED <<clock, streamVars>>

Rollback(w) ==
  /\ open[w] # 0
  /\ open' = [open EXCEPT ![w] = 0]
  /\ UNCHANGED <<clock, log, overtaken, streamVars>>

-----------------------------------------------------------------------------
(* The stream and the control room.                                        *)

\* One round of event_source: list_for_run after the cursor.
Poll ==
  /\ wire' = wire \union After(cursor)
  /\ Final(After(cursor), cursor')
  /\ UNCHANGED <<clock, open, log, overtaken, last, shown, drops>>

DeliverAny ==   \* mutant: no ORDER BY
  \E e \in wire :
    /\ wire' = wire \ {e} /\ last' = e
    /\ shown' = IF e \in Shown THEN shown ELSE Append(shown, e)
    /\ UNCHANGED <<clock, open, log, overtaken, cursor, drops>>
\* onEvent: the browser notes the id, and the page drops what it has already.
Deliver ==
  \E e \in wire :
    /\ First(wire, e)
    /\ wire' = wire \ {e} /\ last' = e
    /\ shown' = IF e \in Shown THEN shown ELSE Append(shown, e)
    /\ UNCHANGED <<clock, open, log, overtaken, cursor, drops>>

Reset(position) ==
  /\ drops < MaxDrops
  /\ drops' = drops + 1
  /\ wire' = {} /\ cursor' = position
  /\ UNCHANGED <<clock, open, log, overtaken, last, shown>>
ReconnectAtCursor == Reset(cursor)   \* mutant: the server remembers the cursor
\* The connection is lost and EventSource opens another.
Reconnect == Reset(last)

Watch == Poll \/ Deliver \/ Reconnect

Write(w) == BeginUnit(w) \/ Rollback(w) \/ \E count \in 0..MaxEvents : CommitUnit(w, count)

LogNext == Watch \/ \E w \in Writers : Write(w)

LogSpec == LogInit /\ [][LogNext]_logVars

\* The generator polls in a loop and the network delivers. Nobody has to write,
\* and no connection has to break.
WatchFairness == WF_logVars(Poll) /\ WF_logVars(Deliver)

-----------------------------------------------------------------------------
(* Properties.                                                             *)

LogTypeOK ==
  /\ clock \in 0..MaxUnits /\ open \in [Writers -> 0..MaxUnits]
  /\ log \subseteq Event /\ overtaken \subseteq log
  /\ wire \subseteq log
  /\ {cursor, last} \subseteq log \union {Start}
  /\ shown \in Seq(Event) /\ drops \in 0..MaxDrops

\* The control room shows events in the order of the log, and none twice,
\* however often the connection breaks and whatever is committed late.
ShownInOrder == \A i, j \in 1..Len(shown) : i < j => Before(shown[i], shown[j])

\* The one way to miss an event: it was committed when the stream had already
\* sent one with a later created_at. Every other event has been shown, is on
\* its way, or lies ahead of the stream; a broken connection loses none.
MissedOnlyIfOvertaken ==
  \A e \in log \ overtaken : e \in Shown \/ e \in wire \/ Before(cursor, e)

\* And what lies ahead or on the wire is shown in the end.
EventsAreShown ==
  \A at \in 1..MaxUnits, n \in 1..MaxEvents :
    LET e == [at |-> at, n |-> n]
    IN  (e \in log \ overtaken) ~> (e \in Shown)

=============================================================================
