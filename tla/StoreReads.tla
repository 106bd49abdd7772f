----------------------------- MODULE StoreReads -----------------------------
(***************************************************************************)
(* The other reads of the event stores, over the rows of EventStores:      *)
(* getLatest, getChain, count, getByAgentId and getStats of memory-store,  *)
(* cockroach-store and clickhouse-store (src/src/events).  What ClickHouse *)
(* may answer is a set, as rows with the same sort key come in any order.  *)
(***************************************************************************)
EXTENDS EventStores

Ids == DOMAIN rows
TimeOf(n) == rows[n].occurredAt

(***************************************************************************)
(* getLatest: the last row inserted, or in ClickHouse one of the latest    *)
(* time.                                                                   *)
(***************************************************************************)
LatestRow == IF rows = <<>> THEN {} ELSE {Len(rows)}

ClickHouseLatest == {n \in Ids : \A j \in Ids : TimeOf(j) <= TimeOf(n)}

(***************************************************************************)
(* getChain: a limit of 0 is taken for none.                               *)
(***************************************************************************)
Limited(s, limit) == IF limit = 0 THEN s ELSE SubSeq(s, 1, SmallerOf(limit, Len(s)))

\* The slice from the position of the event, or from the beginning.
MemoryChain(from, limit) ==
  LET all == InsertionOrder(FirstPage, Ids) IN
    IF from = Absent THEN Limited(all, limit)
    ELSE IF from \notin Ids THEN <<>>
    ELSE Limited(SubSeq(all, from, Len(all)), limit)

\* Mutant of CockroachChain: seq > the first one's.
ChainBehindFirst(from, limit) ==
  IF from # Absent /\ from \notin Ids THEN <<>>
  ELSE Limited(InsertionOrder(FirstPage, {n \in Ids : from = Absent \/ n > from}), limit)

\* The seq of the event is read first; rows are never removed, so the rows behind
\* it are those of a single read.
CockroachChain(from, limit) ==
  IF from # Absent /\ from \notin Ids THEN <<>>
  ELSE Limited(InsertionOrder(FirstPage, {n \in Ids : from = Absent \/ n >= from}), limit)

(***************************************************************************)
(* count: no store has its shadow options.                                 *)
(***************************************************************************)
MemoryCount(f) ==
  IF f = NoFilter THEN Len(rows) ELSE Cardinality({n \in Ids : MemoryMatches(f, FirstPage, rows[n])})

CockroachCount(f) == Cardinality({n \in Ids : CockroachMatches(f, FirstPage, rows[n])})

ClickHouseCount(f) == Cardinality({n \in Ids : ClickHouseMatches(f, FirstPage, rows[n])})

(***************************************************************************)
(* getByAgentId: a query of the agent; ClickHouse gives the latest rows    *)
(* and takes neither an order nor an offset.                               *)
(***************************************************************************)
OfAgent(a) == [NoFilter EXCEPT !.agentId = a]

ByAgentId(a, o) == MemoryQuery(OfAgent(a), o).events

ClickHouseByAgentId(a, o) ==
  {Page(s, [o EXCEPT !.offset = 0]) :
     s \in TimeOrders([o EXCEPT !.order = "desc"], Matching("clickhouse", OfAgent(a), FirstPage))}

(***************************************************************************)
(* getStats: the oldest and the newest event are the first and the last    *)
(* one inserted in memory, those of the least and the greatest time in     *)
(* SQL.  Only CockroachDB counts by shadow mode.  ClickHouse counts the    *)
(* events without an agent under one of their own, and has min() and max() *)
(* of no rows at the epoch; its four statements are answered over the same *)
(* rows here, and its limit of a hundred agents is out of reach.           *)
(***************************************************************************)
Tally(keyOf) ==
  [x \in {keyOf[n] : n \in DOMAIN keyOf} |-> Cardinality({n \in DOMAIN keyOf : keyOf[n] = x})]

TypeOfRow(n) == rows[n].kind.eventType
AgentOfRow(n) == rows[n].kind.agentId
ModeOfRow(n) == rows[n].kind.shadowMode
WithAgent == {n \in Ids : AgentOfRow(n) # Absent}

Stats(agents, ends, modes) ==
  [totalEvents |-> Len(rows), byType |-> Tally([n \in Ids |-> TypeOfRow(n)]),
   byAgent |-> Tally([n \in agents |-> AgentOfRow(n)]),
   oldestEvent |-> ends[1], newestEvent |-> ends[2], byShadowMode |-> modes]

Epoch == 0   \* 1970-01-01, before all times

Times == {TimeOf(n) : n \in Ids}
Least == CHOOSE t \in Times : \A u \in Times : t <= u
Greatest == CHOOSE t \in Times : \A u \in Times : t >= u

EndsOr(none, oldest, newest) == IF rows = <<>> THEN <<none, none>> ELSE <<oldest, newest>>

ModesOfRows == IF rows = <<>> THEN Absent ELSE Tally([n \in Ids |-> ModeOfRow(n)])

MemoryStats == Stats(WithAgent, EndsOr(Absent, TimeOf(1), TimeOf(Len(rows))), Absent)
CockroachStats == Stats(WithAgent, EndsOr(Absent, Least, Greatest), ModesOfRows)
ClickHouseStats == Stats(Ids, EndsOr(Epoch, Least, Greatest), Absent)

-----------------------------------------------------------------------------
InTimeOrder == \A m, n \in Ids : m < n => TimeOf(m) <= TimeOf(n)
StrictlyInTimeOrder == InTimeOrder /\ DistinctTimes(Ids)

Counts(stats) == <<stats.totalEvents, stats.byType, stats.byAgent>>
Ends(stats) == <<stats.oldestEvent, stats.newestEvent>>

\* The stores agree on the chain from any event, on counts and on the counts of the
\* statistics, ClickHouse if all events have agents, and on the oldest and the newest
\* event if events come in the order of their times.  They do not agree on
\* byShadowMode, which only CockroachDB has, nor on the ends of no events, for which
\* ClickHouse gives the epoch.  CockroachDB counts a shadow mode as often as its query
\* of that mode finds it.  ClickHouse has the others' latest event, which an emitter
\* links to, and their latest events of an agent only if each event is later than the
\* one before.
ReadsAgree ==
  walk.step = "idle" =>
    /\ \A from \in RowId \cup {Absent}, limit \in 0..MaxRows :
         MemoryChain(from, limit) = CockroachChain(from, limit)
    /\ \A f \in PlainFilters :
         /\ MemoryCount(f) = CockroachCount(f)
         /\ f.correlationId = Absent /\ f.eventTypes = Absent => ClickHouseCount(f) = MemoryCount(f)
    /\ Counts(MemoryStats) = Counts(CockroachStats)
    /\ InTimeOrder => Ends(MemoryStats) = Ends(CockroachStats)
    /\ WithAgent = Ids => Counts(ClickHouseStats) = Counts(CockroachStats)
    /\ rows # <<>> =>
         /\ Ends(ClickHouseStats) = Ends(CockroachStats)
         /\ \A m \in DOMAIN CockroachStats.byShadowMode :
              LET o == [FirstPage EXCEPT !.shadowModeOnly = {m}] IN
                CockroachStats.byShadowMode[m] = Cardinality(Matching("cockroach", NoFilter, o))
    /\ StrictlyInTimeOrder =>
         /\ ClickHouseLatest = LatestRow
         /\ \A a \in {AgentOfRow(n) : n \in WithAgent}, o \in PlainOptions :
              o.order = "desc" /\ o.offset = 0 => ClickHouseByAgentId(a, o) = {ByAgentId(a, o)}
=============================================================================
