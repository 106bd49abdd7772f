---------------------------- MODULE EventStores ----------------------------
(***************************************************************************)
(* The query() of the three event stores (src/src/events: memory-store.ts, *)
(* cockroach-store.ts, clickhouse-store.ts) over the same rows, the trace  *)
(* of a correlation (proof-plane.ts, api/routes.ts), and a reader that     *)
(* pages through the matches the way replay() and the HTTP clients do, by  *)
(* offset and hasMore, while events go on being appended.                  *)
(*                                                                         *)
(* The SQL databases are external: a query is an atomic read, and rows     *)
(* that ORDER BY does not tell apart come in any order.                    *)
(***************************************************************************)
EXTENDS Integers, FiniteSets, SequencesExt

CONSTANTS
  Kind,          \* what rows are, but for their time: see KindFields
  MaxTime,       \* bound: occurredAt
  MaxRows,       \* bound: rows
  MaxLimit,      \* bound: limit of a page
  DefaultLimit,  \* of a query that gives none; 100 in the code
  Absent,        \* an option, a filter or an agentId that is not given
  Asked          \* the filters and options of walks, as pairs

KindFields == {"correlationId", "agentId", "eventType", "shadowMode"}

ASSUME StoresParameters ==
  /\ Kind # {} /\ \A k \in Kind : DOMAIN k = KindFields
  /\ {MaxTime, MaxRows, MaxLimit, DefaultLimit} \subseteq Nat \ {0}

Time == 1..MaxTime
Row == [kind : Kind, occurredAt : Time]
RowId == 1..MaxRows   \* the position in insertion order, CockroachDB's seq

Store == {"memory", "cockroach", "clickhouse"}
Source == Store \cup {"trace"}   \* what a reader pages through

Filter ==
  [correlationId : {k.correlationId : k \in Kind} \cup {Absent},
   agentId : {k.agentId : k \in Kind} \cup {Absent},
   eventTypes : (SUBSET {k.eventType : k \in Kind}) \cup {Absent},
   from : Time \cup {Absent}, to : Time \cup {Absent}]

Options ==
  [order : {"asc", "desc", Absent}, limit : 1..MaxLimit, offset : 0..MaxRows,
   shadowModeOnly : (SUBSET {k.shadowMode : k \in Kind}) \cup {Absent},
   excludeShadow : BOOLEAN]

ASSUME AskedType == \A q \in Asked : q[1] \in Filter /\ q[2] \in Options /\ q[2].offset = 0

ASSUME AbsentIsNoOrder == Absent \notin {"asc", "desc"}
ASSUME AbsentIsNoModes == \A k \in Kind : Absent # {k.shadowMode}

VARIABLES
  rows,   \* the rows, in insertion order
  walk    \* the reader's walk through the pages

storesVars == <<rows, walk>>

\* found: the pages so far, one behind the other; page and total: of ClickHouse's two
\* answers the one that is there; present: the matches when the walk began.
WalkState ==
  [step : {"idle", "asking", "counting", "counted", "done"}, store : Source, filter : Filter,
   options : Options, found : Seq(RowId), page : Seq(RowId), total : 0..MaxRows,
   present : SUBSET RowId, quiet : BOOLEAN]

StoresTypeOK ==
  /\ rows \in Seq(Row) /\ Len(rows) <= MaxRows
  /\ walk \in WalkState

NoFilter == [correlationId |-> Absent, agentId |-> Absent, eventTypes |-> Absent,
             from |-> Absent, to |-> Absent]
FirstPage == [order |-> Absent, limit |-> 1, offset |-> 0,
              shadowModeOnly |-> Absent, excludeShadow |-> FALSE]

StoresInit ==
  /\ rows = <<>>
  /\ walk = [step |-> "idle", store |-> "memory", filter |-> NoFilter, options |-> FirstPage,
             found |-> <<>>, page |-> <<>>, total |-> 0, present |-> {}, quiet |-> TRUE]

-----------------------------------------------------------------------------
(***************************************************************************)
(* The filters.                                                            *)
(***************************************************************************)
InTime(f, r) ==
  /\ f.from = Absent \/ r.occurredAt >= f.from
  /\ f.to = Absent \/ r.occurredAt <= f.to

SameCorrelation(f, r) == f.correlationId \in {Absent, r.kind.correlationId}

SameAgent(f, r) == f.agentId \in {Absent, r.kind.agentId}

\* An empty list of shadow modes is taken for none.
ShadowAllows(o, r) ==
  /\ o.shadowModeOnly \in {Absent, {}} \/ r.kind.shadowMode \in o.shadowModeOnly
  /\ o.excludeShadow => r.kind.shadowMode = "production"

\* Mutant of MemoryMatches: the end of the time range is left out.
OpenRange(f, o, r) ==
  /\ SameCorrelation(f, r) /\ SameAgent(f, r)
  /\ f.eventTypes = Absent \/ r.kind.eventType \in f.eventTypes
  /\ f.from = Absent \/ r.occurredAt >= f.from
  /\ f.to = Absent \/ r.occurredAt < f.to

\* applyFilter: an empty list of types excludes every event; no shadow options.
MemoryMatches(f, o, r) ==
  /\ SameCorrelation(f, r) /\ SameAgent(f, r)
  /\ f.eventTypes = Absent \/ r.kind.eventType \in f.eventTypes
  /\ InTime(f, r)

\* buildWhereClause: an empty list of types is taken for none.
CockroachMatches(f, o, r) ==
  /\ SameCorrelation(f, r) /\ SameAgent(f, r)
  /\ f.eventTypes \in {Absent, {}} \/ r.kind.eventType \in f.eventTypes
  /\ InTime(f, r)
  /\ ShadowAllows(o, r)

\* buildWhere knows neither correlationId nor eventTypes.
ClickHouseMatches(f, o, r) == SameAgent(f, r) /\ InTime(f, r) /\ ShadowAllows(o, r)

Matches(store, f, o, n) ==
  CASE store = "memory" -> MemoryMatches(f, o, rows[n])
    [] store = "cockroach" -> CockroachMatches(f, o, rows[n])
    [] store = "clickhouse" -> ClickHouseMatches(f, o, rows[n])
    [] store = "trace" -> SameCorrelation(f, rows[n])

Matching(store, f, o) == {n \in DOMAIN rows : Matches(store, f, o, n)}

(***************************************************************************)
(* The order of the result.  Of rows with the same occurredAt ClickHouse   *)
(* may give either first.                                                  *)
(***************************************************************************)
\* The ids in the order of insertion.
Ascending(ids) ==
  CHOOSE s \in [1..Cardinality(ids) -> ids] : \A j, k \in DOMAIN s : j < k => s[j] < s[k]

InsertionOrder(o, ids) ==
  IF o.order = "desc" THEN Reverse(Ascending(ids)) ELSE Ascending(ids)

TimeOrders(o, ids) ==
  {s \in SetToSeqs(ids) : \A j, k \in DOMAIN s : j < k =>
     IF o.order = "asc" THEN rows[s[j]].occurredAt <= rows[s[k]].occurredAt
     ELSE rows[s[j]].occurredAt >= rows[s[k]].occurredAt}

SmallerOf(m, n) == IF m <= n THEN m ELSE n

Page(s, o) == SubSeq(s, o.offset + 1, SmallerOf(o.offset + o.limit, Len(s)))

MemoryQuery(f, o) ==
  LET all == InsertionOrder(o, Matching("memory", f, o)) IN
    [events |-> Page(all, o), totalCount |-> Len(all), hasMore |-> o.offset + o.limit < Len(all)]

\* COUNT(*) OVER() comes with the rows: a page without rows has no count.
CockroachQuery(f, o) ==
  LET all == InsertionOrder(o, Matching("cockroach", f, o))
      total == IF Page(all, o) = <<>> THEN 0 ELSE Len(all)
  IN  [events |-> Page(all, o), totalCount |-> total, hasMore |-> o.offset + o.limit < total]

\* getTrace: a query by correlation that leaves its limit to the store.
Trace(f) == MemoryQuery(f, [FirstPage EXCEPT !.order = "asc", !.limit = DefaultLimit]).events

-----------------------------------------------------------------------------
\* Some writer appends an event; occurredAt is the caller's and need not increase.
AppendRow(r) ==
  /\ Len(rows) < MaxRows
  /\ rows' = Append(rows, r)
  /\ walk' = [walk EXCEPT !.quiet = FALSE]

TraceAsked(f, o) ==
  /\ f.correlationId # Absent /\ f.agentId = Absent /\ f.eventTypes = Absent
  /\ f.from = Absent /\ f.to = Absent
  /\ o.order = "asc" /\ o.shadowModeOnly = Absent /\ ~ o.excludeShadow

BeginWalk(store, f, o) ==
  /\ walk.step = "idle"
  /\ store = "trace" => TraceAsked(f, o)
  /\ walk' = [step |-> "asking", store |-> store, filter |-> f, options |-> o,
              found |-> <<>>, page |-> <<>>, total |-> 0,
              present |-> Matching(store, f, o), quiet |-> TRUE]
  /\ UNCHANGED rows

\* Mutant of TakePage: the offset moves on by one too many.
OneTooFar(page, hasMore) ==
  walk' = [walk EXCEPT !.step = IF hasMore THEN "asking" ELSE "done",
                       !.found = @ \o page,
                       !.page = <<>>, !.total = 0,
                       !.options.offset = @ + Len(page) + 1]

\* The reader goes on behind the last row it was given.
TakePage(page, hasMore) ==
  walk' = [walk EXCEPT !.step = IF hasMore THEN "asking" ELSE "done",
                       !.found = @ \o page,
                       !.page = <<>>, !.total = 0,
                       !.options.offset = @ + Len(page)]

\* One query answers, so its answer is bound once.
AskMemory ==
  /\ walk.step = "asking" /\ walk.store = "memory"
  /\ \E result \in {MemoryQuery(walk.filter, walk.options)} :
       TakePage(result.events, result.hasMore)
  /\ UNCHANGED rows

AskCockroach ==
  /\ walk.step = "asking" /\ walk.store = "cockroach"
  /\ \E result \in {CockroachQuery(walk.filter, walk.options)} :
       TakePage(result.events, result.hasMore)
  /\ UNCHANGED rows

\* The route asks for the whole trace each time and slices it itself.
AskTrace ==
  /\ walk.step = "asking" /\ walk.store = "trace"
  /\ LET trace == Trace(walk.filter) IN
       TakePage(Page(trace, walk.options), walk.options.offset + walk.options.limit < Len(trace))
  /\ UNCHANGED rows

\* Two queries of their own, which may come to the server in either order: rows may be
\* appended between the page and the count.
AskClickHouse ==
  /\ walk.step = "asking" /\ walk.store = "clickhouse"
  /\ \E all \in TimeOrders(walk.options, Matching("clickhouse", walk.filter, walk.options)) :
       walk' = [walk EXCEPT !.step = "counting", !.page = Page(all, walk.options)]
  /\ UNCHANGED rows

\* Mutant of CountClickHouse: the rows of earlier pages count as still to come.
CountsPageOnly ==
  /\ walk.step = "counting"
  /\ LET total == Cardinality(Matching("clickhouse", walk.filter, walk.options)) IN
       TakePage(walk.page, Len(walk.page) < total)
  /\ UNCHANGED rows

CountClickHouse ==
  /\ walk.step = "counting"
  /\ LET total == Cardinality(Matching("clickhouse", walk.filter, walk.options)) IN
       TakePage(walk.page, walk.options.offset + Len(walk.page) < total)
  /\ UNCHANGED rows

CountClickHouseFirst ==
  /\ walk.step = "asking" /\ walk.store = "clickhouse"
  /\ walk' = [walk EXCEPT !.step = "counted",
                          !.total = Cardinality(Matching("clickhouse", walk.filter, walk.options))]
  /\ UNCHANGED rows

PageClickHouse ==
  /\ walk.step = "counted"
  /\ \E all \in TimeOrders(walk.options, Matching("clickhouse", walk.filter, walk.options)) :
       LET page == Page(all, walk.options) IN
         TakePage(page, walk.options.offset + Len(page) < walk.total)
  /\ UNCHANGED rows

StoresNext ==
  \/ \E r \in Row : AppendRow(r)
  \/ \E s \in Source, q \in Asked : BeginWalk(s, q[1], q[2])
  \/ AskMemory
  \/ AskCockroach
  \/ AskTrace
  \/ AskClickHouse
  \/ CountClickHouse
  \/ CountClickHouseFirst
  \/ PageClickHouse

StoresSpec == StoresInit /\ [][StoresNext]_storesVars

StoresFairness ==
  /\ WF_storesVars(AskMemory) /\ WF_storesVars(AskCockroach) /\ WF_storesVars(AskTrace)
  /\ WF_storesVars(AskClickHouse \/ CountClickHouseFirst)
  /\ WF_storesVars(CountClickHouse) /\ WF_storesVars(PageClickHouse)

StoresFairSpec == StoresSpec /\ StoresFairness

-----------------------------------------------------------------------------
(***************************************************************************)
(* Properties                                                              *)
(***************************************************************************)
Done == walk.step = "done"
Ordered == walk.store # "clickhouse"

\* getTrace passes over what lies behind the store's default limit.
Reachable ==
  IF walk.store = "trace"
  THEN {n \in walk.present : Cardinality({j \in walk.present : j <= n}) <= DefaultLimit}
  ELSE walk.present

DistinctTimes(ids) ==
  \A m, n \in ids : rows[m].occurredAt = rows[n].occurredAt => m = n

\* A walk through pages of insertion order misses none of the events that
\* matched when it began, in either direction and whatever is appended meanwhile,
\* but for what lies behind the default limit of a trace.  Upwards it also finds
\* each event once and in the order of the chain; what is appended meanwhile comes
\* at the end.  That is insertion order, where event-store.ts:24 documents "default:
\* ascending by occurredAt": of events inserted out of the order of their times the
\* in-memory store and CockroachDB do not give the earliest first, not even if asked
\* for "asc"; ClickHouse sorts by occurredAt, the latest first if no order is given.
\* A walk through ClickHouse misses none if nothing is appended and no two of them
\* have the same time.
PagesGiveTheMatches ==
  Done =>
    /\ Ordered \/ (walk.quiet /\ DistinctTimes(walk.present)) =>
         Reachable \subseteq Range(walk.found)
    /\ Ordered /\ walk.options.order # "desc" =>
         \A j, k \in DOMAIN walk.found : j < k => walk.found[j] < walk.found[k]

PlainFilters == {f \in Filter : f.eventTypes # {}}
PlainOptions == {o \in Options : o.shadowModeOnly = Absent /\ ~ o.excludeShadow}

\* The in-memory store, which the tests use, answers like the one in production:
\* but for shadow options, which it does not know, for an empty list of types,
\* and for the total count of a page behind the last row.
StoresAgree ==
  walk.step = "idle" =>
    \A f \in PlainFilters, o \in PlainOptions :
      LET memory == MemoryQuery(f, o)
          cockroach == CockroachQuery(f, o)
      IN  /\ memory.events = cockroach.events
          /\ memory.hasMore = cockroach.hasMore
          /\ memory.events # <<>> => memory.totalCount = cockroach.totalCount

\* Every walk comes to an end: no page without rows claims that there are more.
EveryWalkEnds == walk.step = "asking" ~> Done
=============================================================================
