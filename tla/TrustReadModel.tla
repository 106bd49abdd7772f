--------------------------- MODULE TrustReadModel ---------------------------
(***************************************************************************)
(* TrustReadModelProjector (src/src/projections/trust-read-model.ts): read *)
(* models projected from the event store, by a replay of the whole store   *)
(* and then by a poll at each tick of an interval timer.                   *)
(*                                                                         *)
(* start(), replay() and the polls are asynchronous calls.  Each is a task *)
(* whose actions are the code between two awaits; a store query is asked   *)
(* in one action, answered in another and used in a third.  Nothing        *)
(* keeps calls from overlapping: an interval fires whether or not the last *)
(* poll or a replay is under way, and replay() is public.                  *)
(***************************************************************************)
EXTENDS Integers, FiniteSets, SequencesExt

CONSTANTS
  Agent,            \* agentIds
  NoAgent,          \* the agentId of an event that has none
  NoScore,          \* the score of a payload that carries none
  Fact,             \* what events say: see FactFields
  Task,             \* asynchronous calls that may be under way together
  ManualReplay,     \* whether replay() is called besides start()
  Failing,          \* the calls whose store query may reject
  ReplayBatchSize,  \* config.replayBatchSize
  MaxEvents,        \* bound: events in the store
  MaxTime,          \* bound: occurredAt, in milliseconds
  MaxIntervals,     \* bound: interval timers alive
  MaxReplays        \* bound: calls of start() and replay()

Call == {"start", "replay", "poll"}

\* An event's agentId, its payload's type, score and permitted, and whether it
\* carries a signature.
FactFields == {"agentId", "type", "score", "permitted", "signed"}

ASSUME ParameterTypes ==
  /\ NoAgent \notin Agent
  /\ \A f \in Fact : DOMAIN f = FactFields /\ f.agentId \in Agent \cup {NoAgent}
  /\ ManualReplay \in BOOLEAN
  /\ Failing \subseteq Call
  /\ ReplayBatchSize \in Nat \ {0}
  /\ {MaxEvents, MaxTime, MaxIntervals, MaxReplays} \subseteq Nat

\* occurredAt in milliseconds; Never is the null of lastProcessedTime.
Time == 1..MaxTime
Never == 0

ProofEvent == [occurredAt : Time, fact : Fact]

VARIABLES
  events,             \* the store, in insertion order
  running,            \* the projector's flag of that name
  pollTimer,          \* whether it holds the handle of an interval
  intervals,          \* interval timers alive, with or without a handle
  lastProcessedTime,
  model,              \* the read models
  task,               \* task[k]: the call in slot k
  replays,            \* start() and replay() calls so far
  broken,             \* whether one has failed since the last one began
  overlapped,         \* whether two calls overlapped since the last one began
  projected,          \* positions projected since the models were last reset
  blind               \* positions stored behind a replay's last page

timerVars == <<running, pollTimer, intervals>>
modelVars == <<model, projected>>
replayVars == <<replays, broken, overlapped, blind>>
vars == <<events, timerVars, lastProcessedTime, modelVars, task, replayVars>>

Position == 1..MaxEvents
Step == {"idle", "querying", "answered", "readingLatest", "latestRead", "persisting"}
TaskState == [call : Call, step : Step, from : 0..(MaxTime + 1), offset : 0..MaxEvents,
              page : Seq(Position), hasMore : BOOLEAN, latest : Time \cup {Never}]
NoTask == [call |-> "poll", step |-> "idle", from |-> Never, offset |-> 0,
           page |-> <<>>, hasMore |-> FALSE, latest |-> Never]

Full == 100   \* an integrityScore of 1.0, in hundredths

Accumulator == [currentScore : {f.score : f \in Fact} \cup {0},
                lastActionTime : Time, totalActions : Nat,
                totalDenials : Nat, integrityScore : 0..Full]

TypeOK ==
  /\ events \in Seq(ProofEvent)
  /\ running \in BOOLEAN
  /\ pollTimer \in BOOLEAN
  /\ intervals \in 0..MaxIntervals
  /\ lastProcessedTime \in Time \cup {Never}
  /\ DOMAIN model = {"agents", "totalProofs", "anchoredCount", "pendingCount"}
  /\ DOMAIN model.agents \subseteq Agent
  /\ \A a \in DOMAIN model.agents : model.agents[a] \in Accumulator
  /\ {model.totalProofs, model.anchoredCount, model.pendingCount} \subseteq Nat
  /\ task \in [Task -> TaskState]
  /\ replays \in 0..MaxReplays
  /\ broken \in BOOLEAN
  /\ overlapped \in BOOLEAN
  /\ projected \in Seq(Position)
  /\ blind \subseteq Position

NoModel == [agents |-> <<>>, totalProofs |-> 0, anchoredCount |-> 0, pendingCount |-> 0]

Init ==
  /\ events = <<>>
  /\ running = FALSE /\ pollTimer = FALSE /\ intervals = 0
  /\ lastProcessedTime = Never
  /\ model = NoModel /\ projected = <<>>
  /\ task = [k \in Task |-> NoTask]
  /\ replays = 0 /\ broken = FALSE /\ overlapped = FALSE
  /\ blind = {}

-----------------------------------------------------------------------------
(***************************************************************************)
(* projectEvent and projectAgentEvent.                                     *)
(***************************************************************************)
NewAccumulator(e) ==
  [currentScore |-> 0, lastActionTime |-> e.occurredAt, totalActions |-> 0,
   totalDenials |-> 0, integrityScore |-> Full]

CarriesScore(f) == f.type \in {"trust_delta", "decision_made"} /\ f.score # NoScore

IsDenial(f) == f.type = "decision_made" /\ ~ f.permitted

Integrity(score, f) ==
  CASE f.type = "incident_detected" -> IF score < 10 THEN 0 ELSE score - 10
    [] f.type = "execution_completed" -> IF score = Full THEN Full ELSE score + 1
    [] OTHER -> score

\* Mutant of Accumulate: a payload without a score resets the score.
ScoreDefaultsToZero(acc, e) ==
  [acc EXCEPT !.totalActions = @ + 1,
              !.lastActionTime = e.occurredAt,
              !.currentScore = IF CarriesScore(e.fact) THEN e.fact.score ELSE 0,
              !.totalDenials = IF IsDenial(e.fact) THEN @ + 1 ELSE @,
              !.integrityScore = Integrity(@, e.fact)]

Accumulate(acc, e) ==
  [acc EXCEPT !.totalActions = @ + 1,
              !.lastActionTime = e.occurredAt,
              !.currentScore = IF CarriesScore(e.fact) THEN e.fact.score ELSE @,
              !.totalDenials = IF IsDenial(e.fact) THEN @ + 1 ELSE @,
              !.integrityScore = Integrity(@, e.fact)]

ProjectAgentEvent(agents, e) ==
  LET acc == IF e.fact.agentId \in DOMAIN agents
             THEN agents[e.fact.agentId] ELSE NewAccumulator(e)
  IN  [a \in DOMAIN agents \cup {e.fact.agentId} |->
         IF a = e.fact.agentId THEN Accumulate(acc, e) ELSE agents[a]]

ProjectEvent(m, e) ==
  [m EXCEPT !.totalProofs = @ + 1,
            !.anchoredCount = IF e.fact.signed THEN @ + 1 ELSE @,
            !.pendingCount = IF e.fact.signed THEN @ ELSE @ + 1,
            !.agents = IF e.fact.agentId = NoAgent THEN @ ELSE ProjectAgentEvent(@, e)]

\* The models after each event of a page.
Projecting(m, page) ==
  LET models[n \in 0..Len(page)] ==
        IF n = 0 THEN m ELSE ProjectEvent(models[n - 1], events[page[n]])
  IN  models

ProjectPage(page) ==
  /\ model' = Projecting(model, page)[Len(page)]
  /\ projected' = projected \o page

-----------------------------------------------------------------------------
At(k, step) == task[k].step = step

\* A call is under way in another slot.
OthersBusy(k) == \E j \in Task \ {k} : ~ At(j, "idle")

\* The call in slot k awaits store.query.
Ask(k, call, from, offset) ==
  task' = [task EXCEPT ![k] = [call |-> call, step |-> "querying", from |-> from,
                               offset |-> offset, page |-> <<>>, hasMore |-> FALSE,
                               latest |-> Never]]

Goto(k, step) == task' = [task EXCEPT ![k].step = step]

End(k) == task' = [task EXCEPT ![k] = NoTask]

\* replay() up to its first await: the models are reset, the first page asked for.
BeginReplay(k, call) ==
  /\ At(k, "idle")
  /\ replays < MaxReplays
  /\ replays' = replays + 1 /\ broken' = FALSE /\ overlapped' = OthersBusy(k)
  /\ model' = NoModel /\ projected' = <<>>
  /\ Ask(k, call, Never, 0)

Start(k) ==
  /\ ~ running
  /\ running' = TRUE
  /\ BeginReplay(k, "start")
  /\ UNCHANGED <<events, pollTimer, intervals, lastProcessedTime, blind>>

Replay(k) ==
  /\ ManualReplay
  /\ BeginReplay(k, "replay")
  /\ UNCHANGED <<events, timerVars, lastProcessedTime, blind>>

Stop ==
  /\ running
  /\ running' = FALSE
  /\ pollTimer' = FALSE
  /\ intervals' = IF pollTimer THEN intervals - 1 ELSE intervals
  /\ UNCHANGED <<events, lastProcessedTime, modelVars, task, replayVars>>

\* Mutants of Tick: the millisecond is not added; no poll before a first event.
TickFromLast(k) ==
  /\ intervals > 0 /\ running
  /\ At(k, "idle")
  /\ Ask(k, "poll", lastProcessedTime, 0)
  /\ overlapped' = (overlapped \/ OthersBusy(k))
  /\ UNCHANGED <<events, timerVars, lastProcessedTime, modelVars, replays, broken, blind>>

TickAfterFirst(k) ==
  /\ intervals > 0 /\ running
  /\ At(k, "idle")
  /\ lastProcessedTime # Never
  /\ Ask(k, "poll", lastProcessedTime + 1, 0)
  /\ overlapped' = (overlapped \/ OthersBusy(k))
  /\ UNCHANGED <<events, timerVars, lastProcessedTime, modelVars, replays, broken, blind>>

\* An interval fires: pollNewEvents returns at once unless the projector runs.
Tick(k) ==
  /\ intervals > 0
  /\ running
  /\ At(k, "idle")
  /\ Ask(k, "poll", IF lastProcessedTime = Never THEN Never ELSE lastProcessedTime + 1, 0)
  /\ overlapped' = (overlapped \/ OthersBusy(k))
  /\ UNCHANGED <<events, timerVars, lastProcessedTime, modelVars, replays, broken, blind>>

\* store.query: insertion order, occurredAt >= from, one page.
MatchingAmong(from) ==
  LET matching[n \in 0..Len(events)] ==
        IF n = 0 THEN <<>>
        ELSE IF events[n].occurredAt >= from THEN Append(matching[n - 1], n)
        ELSE matching[n - 1]
  IN  matching

Matching(from) == MatchingAmong(from)[Len(events)]

SmallerOf(m, n) == IF m < n THEN m ELSE n

Answer(k) ==
  /\ At(k, "querying")
  /\ LET all == Matching(task[k].from)
         first == task[k].offset + 1
         last == task[k].offset + ReplayBatchSize
     IN  task' = [task EXCEPT ![k].step = "answered",
                              ![k].page = SubSeq(all, first, SmallerOf(last, Len(all))),
                              ![k].hasMore = last < Len(all)]
  /\ UNCHANGED <<events, timerVars, lastProcessedTime, modelVars, replayVars>>

\* The query rejects, and with it the call that awaits it; running stays set.
QueryFails(k) ==
  /\ At(k, "querying") \/ At(k, "readingLatest")
  /\ task[k].call \in Failing
  /\ End(k)
  /\ broken' = (broken \/ task[k].call # "poll")
  /\ UNCHANGED <<events, timerVars, lastProcessedTime, modelVars, replays, overlapped, blind>>

\* A replay projects a page, then asks for the next one or for the latest event.
ReplayPage(k) ==
  /\ At(k, "answered") /\ task[k].call # "poll"
  /\ ProjectPage(task[k].page)
  /\ IF task[k].hasMore
     THEN /\ Ask(k, task[k].call, Never, task[k].offset + Len(task[k].page))
          /\ UNCHANGED lastProcessedTime
     ELSE IF model'.totalProofs > 0
     THEN Goto(k, "readingLatest") /\ UNCHANGED lastProcessedTime
     ELSE Goto(k, "persisting") /\ lastProcessedTime' = Never
  /\ UNCHANGED <<events, timerVars, replayVars>>

\* getLatest() is answered; what it found is the cursor when the replay goes on.
ReadLatest(k) ==
  /\ At(k, "readingLatest")
  /\ task' = [task EXCEPT ![k].step = "latestRead",
                          ![k].latest = events[Len(events)].occurredAt]
  /\ UNCHANGED <<events, timerVars, lastProcessedTime, modelVars, replayVars>>

MoveCursor(k) ==
  /\ At(k, "latestRead")
  /\ lastProcessedTime' = task[k].latest
  /\ Goto(k, "persisting")
  /\ UNCHANGED <<events, timerVars, modelVars, replayVars>>

\* Mutant of PollPage: the cursor moves to the latest event of the store.
PollSkipsToLatest(k) ==
  /\ At(k, "answered") /\ task[k].call = "poll"
  /\ LET page == task[k].page IN
       IF page = <<>>
       THEN End(k) /\ UNCHANGED <<lastProcessedTime, modelVars>>
       ELSE /\ ProjectPage(page)
            /\ lastProcessedTime' = events[Len(events)].occurredAt
            /\ Goto(k, "persisting")
  /\ UNCHANGED <<events, timerVars, replayVars>>

PollPage(k) ==
  /\ At(k, "answered") /\ task[k].call = "poll"
  /\ LET page == task[k].page IN
       IF page = <<>>
       THEN End(k) /\ UNCHANGED <<lastProcessedTime, modelVars>>
       ELSE /\ ProjectPage(page)
            /\ lastProcessedTime' = events[Last(page)].occurredAt
            /\ Goto(k, "persisting")
  /\ UNCHANGED <<events, timerVars, replayVars>>

\* The persist callback settles, its error swallowed; start() then sets the
\* interval, without another look at running.
Persisted(k) ==
  /\ At(k, "persisting")
  /\ IF task[k].call = "start"
     THEN /\ intervals < MaxIntervals
          /\ intervals' = intervals + 1
          /\ pollTimer' = TRUE
     ELSE UNCHANGED <<intervals, pollTimer>>
  /\ End(k)
  /\ UNCHANGED <<events, running, lastProcessedTime, modelVars, replayVars>>

\* A replay has taken its last page and has yet to look at the latest event.
BehindLastPage(k) ==
  /\ task[k].call # "poll" /\ ~ task[k].hasMore
  /\ task[k].step \in {"answered", "readingLatest"}

\* occurredAt is the caller's, or the clock's when emit() was called.
StoreEvent(e) ==
  /\ Len(events) < MaxEvents
  /\ events' = Append(events, e)
  /\ blind' = IF \E k \in Task : BehindLastPage(k) THEN blind \cup {Len(events) + 1} ELSE blind
  /\ UNCHANGED <<timerVars, lastProcessedTime, modelVars, task, replays, broken, overlapped>>

-----------------------------------------------------------------------------
Proceed(k) ==
  \/ Answer(k)
  \/ QueryFails(k)
  \/ ReplayPage(k)
  \/ ReadLatest(k)
  \/ MoveCursor(k)
  \/ PollPage(k)
  \/ Persisted(k)

Next ==
  \/ \E e \in ProofEvent : StoreEvent(e)
  \/ \E k \in Task : Start(k) \/ Replay(k) \/ Tick(k) \/ Proceed(k)
  \/ Stop

Spec == Init /\ [][Next]_vars

\* Intervals keep firing, the store and the persist callback settle, and a query
\* that is asked again and again is not rejected for good.
Fairness ==
  \A k \in Task : WF_vars(Proceed(k)) /\ WF_vars(Tick(k)) /\ SF_vars(Answer(k))

FairSpec == Spec /\ Fairness

-----------------------------------------------------------------------------
(***************************************************************************)
(* Properties                                                              *)
(***************************************************************************)

\* Stored behind an event that has the same time or a later one, and stored before
\* one that has an earlier time.
Overtaken == {p \in DOMAIN events : \E j \in 1..(p - 1) : events[j].occurredAt >= events[p].occurredAt}
Overtaking == {p \in DOMAIN events :
                 \E j \in (p + 1)..Len(events) : events[j].occurredAt < events[p].occurredAt}

\* No event is counted twice in the read models, whatever replays, polls and
\* restarts follow each other, but for one that is stored before an event with an
\* earlier time, as the cursor moves back to that; after a replay that failed, when
\* the polls repeat the pages it has taken; and once two calls have overlapped since
\* the models were last reset, when both project the same pages into the same models.
ProjectedOnce ==
  ~ broken /\ ~ overlapped =>
  \A j, k \in DOMAIN projected : projected[j] = projected[k] => j = k \/ projected[j] \in Overtaking

Replaying == \E k \in Task : task[k].call # "poll"

Missed == {p \in DOMAIN events :
             events[p].occurredAt <= lastProcessedTime /\ p \notin Range(projected)}

\* An event that the polls will not look at again is in the read models, however
\* polls and replays overlap, take the cursor from each other and empty the models
\* under each other, unless it was stored while a replay was between its last page
\* and getLatest(), or behind an event with its own millisecond or a later one, or a
\* replay has failed: it emptied the models and left the last event's time as it was.
MissedOnlyBehindReplay == ~ Replaying /\ ~ broken => Missed \subseteq blind \cup Overtaken

Falls(f) == f.type = "incident_detected"
Rises(f) == f.type = "execution_completed"

\* The places in a history of positions whose events are an agent's and of a kind.
Of(history, a, Test(_)) ==
  {n \in DOMAIN history :
     events[history[n]].fact.agentId = a /\ Test(events[history[n]].fact)}

Anything(f) == TRUE

AgentSummary(acc, history, a) ==
  LET scored == Of(history, a, CarriesScore) IN
    /\ acc.totalActions = Cardinality(Of(history, a, Anything))
    /\ acc.totalDenials = Cardinality(Of(history, a, IsDenial))
    /\ acc.currentScore =
         IF scored = {} THEN 0
         ELSE events[history[CHOOSE n \in scored : \A j \in scored : j <= n]].fact.score
    /\ Of(history, a, Rises) = {} =>
         acc.integrityScore = Full - SmallerOf(Full, 10 * Cardinality(Of(history, a, Falls)))

Signed(history) == {n \in DOMAIN history : events[history[n]].fact.signed}

\* The summaries agree with a count over the projected events: actions, denials,
\* the score of the last payload that carried one, and the incidents against an
\* agent that has completed nothing.
SummariesCount ==
  /\ model.totalProofs = Len(projected)
  /\ model.anchoredCount = Cardinality(Signed(projected))
  /\ model.anchoredCount + model.pendingCount = model.totalProofs
  /\ \A a \in DOMAIN model.agents : AgentSummary(model.agents[a], projected, a)

\* start() has failed: the flag stays set, and there is no interval.
Stranded == running /\ intervals = 0 /\ \A k \in Task : task[k].call # "start"

\* While the projector runs every other event gets projected, however its calls
\* overlap, unless a replay fails, be it start()'s or one that is asked for.
EveryEventProjected ==
  \A p \in Position :
    (running /\ p \in DOMAIN events \ (blind \cup Overtaken))
      ~> (~ running \/ Stranded \/ broken \/ p \in Range(projected))
=============================================================================
