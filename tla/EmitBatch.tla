----------------------------- MODULE EmitBatch -----------------------------
(***************************************************************************)
(* emitBatch (event-emitter.ts): a caller that emits its requests one      *)
(* after the other and collects what came of each, while other callers and *)
(* other batches use the same emitter.                                     *)
(***************************************************************************)
EXTENDS EventEmitter, FiniteSets

CONSTANTS
  Batch,      \* emitBatch() calls
  MaxBatch    \* bound: requests in a batch

ASSUME BatchBound == MaxBatch \in Nat

VARIABLE batch   \* batch[b]: the local state of call b

batchVars == <<vars, batch>>

(***************************************************************************)
(* sent holds the emit() calls the batch has made, the last of them        *)
(* awaited while the batch is running; results holds the calls that        *)
(* returned and errors those that threw.                                   *)
(***************************************************************************)
BatchState ==
  [step : {"idle", "running", "done"}, requests : Seq(Request), stopOnError : BOOLEAN,
   sent : Seq(EmitId), results : Seq(EmitId), errors : Seq(EmitId)]

NoBatch ==
  [step |-> "idle", requests |-> <<>>, stopOnError |-> FALSE,
   sent |-> <<>>, results |-> <<>>, errors |-> <<>>]

BatchInit == Init /\ batch = [b \in Batch |-> NoBatch]

-----------------------------------------------------------------------------
\* The next request is emitted; emit() runs up to its first await at once.
EmitNext(b, m, state) ==
  LET r == state.requests[Len(state.sent) + 1] IN
    /\ Emit(m, r)
    /\ batch' = [batch EXCEPT ![b] = [state EXCEPT !.sent = Append(@, calls + 1)]]

Finish(b, state) ==
  /\ batch' = [batch EXCEPT ![b] = [state EXCEPT !.step = "done"]]
  /\ UNCHANGED vars

\* The loop begins or goes on, and ends with the requests or, if the caller
\* asked for that, with the first error.
Loop(b, m, state) ==
  IF Len(state.sent) = Len(state.requests) \/ (state.stopOnError /\ state.errors # <<>>)
  THEN Finish(b, state)
  ELSE EmitNext(b, m, state)

\* Calls that are still to come of the batches under way; MaxEmits leaves room.
Outstanding(b) ==
  IF batch[b].step = "running" THEN Len(batch[b].requests) - Len(batch[b].sent) ELSE 0

Room == MaxEmits - calls - FoldFunction(+, 0, [b \in Batch |-> Outstanding(b)])

EmitBatch(b, m, requests, stopOnError) ==
  /\ batch[b].step = "idle"
  /\ Len(requests) <= Room
  /\ Loop(b, m, [NoBatch EXCEPT !.step = "running", !.requests = requests,
                                !.stopOnError = stopOnError])

\* Mutants of Collect: an error ends the batch unreported; it is reported as a result.
ErrorsForgotten(state, i) ==
  IF pc[i] = "returned" THEN [state EXCEPT !.results = Append(@, i)]
  ELSE [state EXCEPT !.step = "done"]

AllAreResults(state, i) == [state EXCEPT !.results = Append(@, i)]

\* What came of emit() call i: its event, or its error.
Collect(state, i) ==
  IF pc[i] = "returned" THEN [state EXCEPT !.results = Append(@, i)]
  ELSE [state EXCEPT !.errors = Append(@, i)]

\* The awaited emit() has settled.
BatchContinues(b) ==
  /\ batch[b].step = "running"
  /\ LET i == Last(batch[b].sent) IN
       /\ pc[i] \in Settled
       /\ Loop(b, by[i], Collect(batch[b], i))

BatchNext ==
  \/ \E i \in EmitId : Proceed(i) /\ UNCHANGED batch
  \/ \E m \in Emitter, r \in Request : Room > 0 /\ Emit(m, r) /\ UNCHANGED batch
  \/ \E m \in Emitter, l \in Listener : AddListener(m, l) /\ UNCHANGED batch
  \/ \E b \in Batch, m \in Emitter, requests \in SeqOf(Request, MaxBatch), s \in BOOLEAN :
       EmitBatch(b, m, requests, s)
  \/ \E b \in Batch : BatchContinues(b)

BatchSpec == BatchInit /\ [][BatchNext]_batchVars

\* As in EventEmitter, and the event loop resumes a batch whose emit() settled.
BatchFairness ==
  /\ \A i \in EmitId : WF_batchVars(Proceed(i) /\ UNCHANGED batch)
  /\ \A b \in Batch : WF_batchVars(BatchContinues(b))

FairBatchSpec == BatchSpec /\ BatchFairness

-----------------------------------------------------------------------------
\* What a batch reports is what the store holds: its results are its stored
\* events, in store order and however many events of others lie between them.
\* An event of an append whose answer was lost is the one exception; it is among
\* the errors.
ReportMatchesStore ==
  \A b \in Batch : batch[b].step = "done" =>
    LET results == batch[b].results IN
      /\ \A n \in DOMAIN results : \E k \in DOMAIN events : EventIdAt(k) = results[n]
      /\ \A m, n \in DOMAIN results : \A j, k \in DOMAIN events :
           EventIdAt(j) = results[m] /\ EventIdAt(k) = results[n] => (m < n <=> j < k)
      /\ \A k \in DOMAIN events : EventIdAt(k) \in Range(batch[b].sent) =>
           \/ EventIdAt(k) \in Range(results)
           \/ UncertainAppend /\ EventIdAt(k) \in Range(batch[b].errors)

\* Each request is emitted once, in order, and reported once; a batch told to
\* stop emits nothing after its first error, and any other emits them all.
EachRequestOnce ==
  \A b \in Batch :
    /\ IsInjective(batch[b].sent)
    /\ \A n \in DOMAIN batch[b].sent : request[batch[b].sent[n]] = batch[b].requests[n]
    /\ batch[b].step = "done" =>
         /\ Range(batch[b].results) \cup Range(batch[b].errors) = Range(batch[b].sent)
         /\ Len(batch[b].results) + Len(batch[b].errors) = Len(batch[b].sent)
         /\ IF batch[b].stopOnError /\ batch[b].errors # <<>>
            THEN batch[b].errors = <<Last(batch[b].sent)>>
            ELSE Len(batch[b].sent) = Len(batch[b].requests)
=============================================================================
