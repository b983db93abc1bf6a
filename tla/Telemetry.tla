----------------------------- MODULE Telemetry ------------------------------
(***************************************************************************)
(* Workers, the models they call, and what they write down of it: the      *)
(* start-up of a worker (services/worker/worker/main.py), the routing      *)
(* provider (packages/providers/routed.py,                                 *)
(* packages/core/routing/adaptive.py), the units of work around a call in  *)
(* handlers/baseline.py and handlers/engineering.py, and observe_call of   *)
(* the model states. The events of these units of work go to EventLog.     *)
(*                                                                         *)
(* A failure rate is a moving average, so every observation stays in it    *)
(* with some weight: it is abstracted to the set of calls folded into it.  *)
(* observe_call reads it with a SELECT that locks nothing and writes back  *)
(* a number. The UPDATE locks the row until the commit, which only orders  *)
(* the commits.                                                            *)
(*                                                                         *)
(* The router's utility is floating point arithmetic over the task and the *)
(* states that were loaded at the start: any model of the catalogue can    *)
(* come out best for a call.                                               *)
(***************************************************************************)
EXTENDS EventLog

CONSTANTS
  Models,       \* models of the provider
  Primary,      \* settings.inference_model
  MaxCalls,     \* bound: calls of a model
  MaxKills      \* bound: workers killed

ASSUME TelemetryAssumption ==
  /\ Primary \in Models
  /\ MaxCalls \in Nat /\ MaxKills \in Nat
  /\ MaxEvents > 0

Workers == Writers

VARIABLES
  pc,         \* where each worker is
  profiles,   \* models with a row in model_profiles and one in model_states
  catalog,    \* catalog[w]: the models that w seeds and then routes to
  rate,       \* rate[m]: model_states.failure_rate, as the calls folded in
  calls,      \* model_calls
  made,       \* calls of models made so far
  current,    \* current[w]: number, model and outcome of w's call
  seen,       \* seen[w]: what w's open unit of work has read: profiles, a rate
  overlapped, \* history: calls that were committed between another's read and write
  kills       \* workers killed so far

callVars == <<pc, profiles, catalog, rate, calls, made, current, seen, overlapped, kills>>
vars == <<logVars, callVars>>

Outcome == {"answered", "garbled", "raised"}
NoCall == [id |-> 0, model |-> Primary, outcome |-> "raised"]

\* A new database, or one that earlier workers have seeded.
Init ==
  /\ LogInit
  /\ pc = [w \in Workers |-> "off"] /\ profiles \in SUBSET Models
  /\ catalog = [w \in Workers |-> {}]
  /\ rate = [m \in Models |-> {}] /\ calls = {} /\ made = 0
  /\ current = [w \in Workers |-> NoCall] /\ seen = [w \in Workers |-> {}]
  /\ overlapped = {} /\ kills = 0

Goto(w, place, what) ==
  /\ pc' = [pc EXCEPT ![w] = place]
  /\ seen' = [seen EXCEPT ![w] = what]

-----------------------------------------------------------------------------
(* Start-up: build_handler.                                                *)

\* find and get_for_profile, for each model of the catalogue: the primary
\* model, and what the provider was discovered to offer.
BeginSeeding(w) ==
  /\ pc[w] = "off"
  /\ \E others \in SUBSET Models : catalog' = [catalog EXCEPT ![w] = others \union {Primary}]
  /\ Goto(w, "seeding", profiles)
  /\ UNCHANGED <<logVars, profiles, rate, calls, made, current, overlapped, kills>>

Missing(w) == catalog[w] \ seen[w]
LostAll(w) == catalog[w] \intersect profiles # {}      \* mutant: insert without find
LostRace(w) == Missing(w) \intersect profiles # {}

\* The missing rows, and the states the router is to use. Of two that seed the
\* same model the later violates uq_model_profile_provider_model and ends.
Seed(w) ==
  /\ pc[w] = "seeding"
  /\ IF LostRace(w)
       THEN /\ Goto(w, "dead", {}) /\ catalog' = [catalog EXCEPT ![w] = {}]
            /\ UNCHANGED profiles
       ELSE /\ Goto(w, "up", {}) /\ profiles' = profiles \union Missing(w)
            /\ UNCHANGED catalog
  /\ UNCHANGED <<logVars, rate, calls, made, current, overlapped, kills>>

-----------------------------------------------------------------------------
(* A call.                                                                 *)

\* The unit of work that announces the agent; engineering calls have none.
BeginAnnounce(w) ==
  /\ pc[w] = "up"
  /\ BeginUnit(w)
  /\ Goto(w, "announcing", {})
  /\ UNCHANGED <<profiles, catalog, rate, calls, made, current, overlapped, kills>>

Announce(w) ==
  /\ pc[w] = "announcing"
  /\ CommitUnit(w, 1)
  /\ Goto(w, "announced", {})
  /\ UNCHANGED <<profiles, catalog, rate, calls, made, current, overlapped, kills>>

\* AdaptiveProvider.generate: an answer of the model that it chose, which parses
\* or not, or an exception.
Generate(w) ==
  /\ pc[w] \in {"up", "announced"}
  /\ made < MaxCalls
  /\ made' = made + 1
  /\ \E m \in catalog[w], o \in Outcome :
       current' = [current EXCEPT ![w] = [id |-> made + 1, model |-> m, outcome |-> o]]
  /\ Goto(w, "called", {})
  /\ UNCHANGED <<logVars, profiles, catalog, rate, calls, overlapped, kills>>

\* Only a response carries routed_model_profile_id.
Charged(w) == IF current[w].outcome = "raised" THEN Primary ELSE current[w].model

BeginRecord(w) ==
  /\ pc[w] = "called"
  /\ BeginUnit(w)
  /\ Goto(w, "recording", {})
  /\ UNCHANGED <<profiles, catalog, rate, calls, made, current, overlapped, kills>>

ReadAndWriteState(w) ==   \* mutant: on a connection that commits every statement
  /\ pc[w] = "recording"
  /\ Goto(w, "observed", rate[Charged(w)])
  /\ rate' = [rate EXCEPT ![Charged(w)] = @ \union {current[w].id}]
  /\ log' = log \union Stamped(w, 1)
  /\ UNCHANGED <<clock, open, overtaken, streamVars>>
  /\ UNCHANGED <<profiles, catalog, calls, made, current, overlapped, kills>>
\* observe_call reads the state.
ReadState(w) ==
  /\ pc[w] = "recording"
  /\ Goto(w, "observed", rate[Charged(w)])
  /\ UNCHANGED <<logVars, profiles, catalog, rate, calls, made, current, overlapped, kills>>

Row(w) == [id |-> current[w].id, model |-> current[w].model, profile |-> Charged(w),
           outcome |-> current[w].outcome]

\* Others who have read this state, and will write over what is committed now.
Overlaps(w) == \E v \in Workers \ {w} : pc[v] = "observed" /\ Charged(v) = Charged(w)

ObservedFresh(w) == {current[w].id}   \* mutant: from the state loaded at the start
Observed(w) == seen[w] \union {current[w].id}

\* _add_model_call and the commit of its unit of work. Of a research call it
\* also has the events of the result; a failed one leaves no event.
Record(w) ==
  /\ pc[w] = "observed"
  /\ rate' = [rate EXCEPT ![Charged(w)] = Observed(w)]
  /\ calls' = calls \union {Row(w)}
  /\ overlapped' = IF Overlaps(w) THEN overlapped \union {current[w].id} ELSE overlapped
  /\ \E count \in 0..MaxEvents :
       /\ current[w].outcome # "answered" => count = 0
       /\ CommitUnit(w, count)
  /\ current' = [current EXCEPT ![w] = NoCall]
  /\ Goto(w, "up", {})
  /\ UNCHANGED <<profiles, catalog, made, kills>>

-----------------------------------------------------------------------------
(* Workers that are killed, and started again.                             *)

LeaveOpen(w) == UNCHANGED logVars   \* mutant: the transaction outlives its process
\* PostgreSQL rolls back what a connection that breaks has open.
Disconnect(w) == IF open[w] # 0 THEN Rollback(w) ELSE UNCHANGED logVars

Kill(w) ==
  /\ pc[w] # "dead"
  /\ kills < MaxKills
  /\ kills' = kills + 1
  /\ current' = [current EXCEPT ![w] = NoCall]
  /\ Goto(w, "dead", {})
  /\ catalog' = [catalog EXCEPT ![w] = {}]
  /\ Disconnect(w)
  /\ UNCHANGED <<profiles, rate, calls, made, overlapped>>

Restart(w) ==
  /\ pc[w] = "dead"
  /\ Goto(w, "off", {})
  /\ UNCHANGED <<logVars, profiles, catalog, rate, calls, made, current, overlapped, kills>>

Proceed(w) ==
  \/ BeginSeeding(w) \/ Seed(w)
  \/ BeginAnnounce(w) \/ Announce(w) \/ Generate(w)
  \/ BeginRecord(w) \/ ReadState(w) \/ Record(w)

Next ==
  \/ \E w \in Workers : Proceed(w) \/ Kill(w) \/ Restart(w)
  \/ Watch /\ UNCHANGED callVars

Spec == Init /\ [][Next]_vars
FairSpec == Spec /\ WatchFairness

-----------------------------------------------------------------------------
(* Properties.                                                             *)

Routed == {"up", "announcing", "announced", "called", "recording", "observed"}
Places == Routed \union {"off", "seeding", "dead"}

TypeOK ==
  /\ LogTypeOK
  /\ pc \in [Workers -> Places] /\ profiles \subseteq Models
  /\ catalog \in [Workers -> SUBSET Models]
  /\ \A w \in Workers : pc[w] \in Routed => catalog[w] \subseteq profiles
  /\ \A w \in Workers : open[w] # 0 <=> pc[w] \in {"announcing", "recording", "observed"}
  /\ made \in 0..MaxCalls /\ kills \in 0..MaxKills
  /\ rate \in [Models -> SUBSET (1..MaxCalls)] /\ overlapped \subseteq 1..MaxCalls

\* An observation that is missing from its model's failure rate was overwritten
\* by a unit of work that had read the rate before and committed after it.
\* Nothing else loses one: not a kill, a rollback, a new start or the states
\* that workers route by.
LostOnlyToOverlap ==
  \A c \in calls : c.id \in rate[c.profile] \/ c.id \in overlapped

\* A model's rate holds committed calls, each in the rate of one model: the
\* one that answered, or the primary model where none did.
RatesAreEarned ==
  \A m \in Models : \A i \in rate[m] :
    \E c \in calls :
      c.id = i /\ (c.model = m \/ (m = Primary /\ c.outcome = "raised"))

\* Workers that start at once may end each other, but not all of them.
StartupLeavesOne == kills = 0 => \E w \in Workers : pc[w] # "dead"

\* The units of work around calls use the event log as EventLog says.
ImplementsEventLog == LogSpec

=============================================================================
