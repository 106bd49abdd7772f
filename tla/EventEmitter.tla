---------------------------- MODULE EventEmitter ----------------------------
(***************************************************************************)
(* ProofEventEmitter (src/src/events/event-emitter.ts) over a shared event *)
(* store.  Each call of emit() is a process of its own, numbered in call   *)
(* order; a JavaScript await is a point where other calls may run, so each *)
(* action below is the code between two awaits.                            *)
(*                                                                         *)
(* The emit lock is a chain of promises: a call takes the emitter's last   *)
(* promise as the one to wait for and installs its own as the new last.    *)
(* Its promise resolves when the call settles, whether it returns or       *)
(* throws.                                                                 *)
(***************************************************************************)
EXTENDS HashChain, SequencesExt

CONSTANTS
  Emitter,           \* ProofEventEmitter objects sharing one store
  Request,           \* LogProofEventRequest values
  Malformed,         \* requests that validateEvent refuses
  Named,             \* requests that carry a signedBy of their own
  Signers,           \* emitters whose isSigningEnabled() is true
  Anonymous,         \* emitters with neither signedBy nor a signing service
  Production,        \* NODE_ENV === 'production'
  Listener,          \* callbacks that may be subscribed
  Transient,         \* listeners that may unsubscribe again
  AwaitsOwnEmit,     \* whether a listener may await an emit() of its own
  UncertainAppend,   \* whether an append may be stored and yet reported failed
  MaxEmits,          \* bound: emit() calls in a behaviour
  MaxSubscriptions   \* bound: length of an emitter's listener list

ASSUME ParameterTypes ==
  /\ Emitter # {}
  /\ Request # {}
  /\ Malformed \subseteq Request
  /\ Named \subseteq Request
  /\ Signers \subseteq Emitter
  /\ Anonymous \subseteq Emitter
  /\ Transient \subseteq Listener
  /\ {Production, AwaitsOwnEmit, UncertainAppend} \subseteq BOOLEAN
  /\ MaxEmits \in Nat
  /\ MaxSubscriptions \in Nat

\* An emit() call; 0 is the already resolved promise a new emitter starts with.
EmitId == 1..MaxEmits
Resolved == 0

Signature == {"none", "signed"}
Content == [eventId : EmitId, request : Request, signature : Signature]

Settled == {"returned", "rejected"}
Holding == {"reading", "building", "appending", "notifying", "listening"}
Phase == {"idle", "waiting"} \cup Holding \cup Settled

VARIABLES
  events,        \* the store's events, in insertion order
  calls,         \* emit() calls made so far
  emitLock,      \* emitLock[m]: the call that owns m's last promise
  by,            \* by[i]: the emitter call i was made on
  request,       \* request[i]: its argument
  previousLock,  \* previousLock[i]: the promise call i awaits
  pc,            \* pc[i]: where call i is
  previousHash,  \* previousHash[i]: the digest it read from the store
  signature,     \* signature[i]: the signature it obtained
  cursor,        \* cursor[i]: its position in the listener list
  nested,        \* nested[i]: the emit() its current listener awaits, or 0
  listeners,     \* listeners[m]: the live listener list of emitter m
  delivered      \* delivered[l]: the events handed to listener l, in order

lockVars == <<calls, emitLock, by, request, previousLock>>
buildVars == <<previousHash, signature>>
notifyVars == <<cursor, nested, listeners, delivered>>
vars == <<events, lockVars, pc, buildVars, notifyVars>>

TypeOK ==
  /\ events \in Seq(Event(Content))
  /\ calls \in 0..MaxEmits
  /\ emitLock \in [Emitter -> 0..MaxEmits]
  /\ by \in [EmitId -> Emitter]
  /\ request \in [EmitId -> Request]
  /\ previousLock \in [EmitId -> 0..MaxEmits]
  /\ pc \in [EmitId -> Phase]
  /\ previousHash \in [EmitId -> Digest(Content)]
  /\ signature \in [EmitId -> Signature]
  /\ cursor \in [EmitId -> Nat \ {0}]
  /\ nested \in [EmitId -> 0..MaxEmits]
  /\ listeners \in [Emitter -> Seq(Listener)]
  /\ delivered \in [Listener -> Seq(EmitId)]

Init ==
  /\ events = <<>>
  /\ calls = 0
  /\ emitLock = [m \in Emitter |-> Resolved]
  /\ by = [i \in EmitId |-> CHOOSE m \in Emitter : TRUE]
  /\ request = [i \in EmitId |-> CHOOSE r \in Request : TRUE]
  /\ previousLock = [i \in EmitId |-> Resolved]
  /\ pc = [i \in EmitId |-> "idle"]
  /\ previousHash = [i \in EmitId |-> Null]
  /\ signature = [i \in EmitId |-> "none"]
  /\ cursor = [i \in EmitId |-> 1]
  /\ nested = [i \in EmitId |-> 0]
  /\ listeners = [m \in Emitter |-> <<>>]
  /\ delivered = [l \in Listener |-> <<>>]

-----------------------------------------------------------------------------
(***************************************************************************)
(* emit() up to its first await: serializedEmit takes the last promise to  *)
(* wait for and leaves its own in its place.                               *)
(***************************************************************************)
StartEmit(m, r) ==
  /\ calls < MaxEmits
  /\ calls' = calls + 1
  /\ by' = [by EXCEPT ![calls + 1] = m]
  /\ request' = [request EXCEPT ![calls + 1] = r]
  /\ previousLock' = [previousLock EXCEPT ![calls + 1] = emitLock[m]]
  /\ emitLock' = [emitLock EXCEPT ![m] = calls + 1]

\* A caller that is not a listener: a request handler, a batch, logEvent.
Emit(m, r) ==
  /\ StartEmit(m, r)
  /\ pc' = [pc EXCEPT ![calls + 1] = "waiting"]
  /\ UNCHANGED <<events, buildVars, notifyVars>>

\* Mutants of IsResolved: no lock at all; a lock given back once the event is
\* stored; a lock given back on success only, without the finally clause.
NeverWaits(p) == TRUE
ReleasedOnAppend(p) == p # Resolved => pc[p] \in Settled \cup {"notifying", "listening"}
ReleasedOnSuccess(p) == p # Resolved => pc[p] = "returned"

IsResolved(p) == p # Resolved => pc[p] \in Settled

\* Mutant of AcquireLock: a flag instead of the chain of promises.
AnyWaiterProceeds(i) ==
  /\ pc[i] = "waiting"
  /\ \A j \in EmitId : by[j] = by[i] => pc[j] \notin Holding
  /\ pc' = [pc EXCEPT ![i] = "reading"]
  /\ UNCHANGED <<events, lockVars, buildVars, notifyVars>>

\* await previousLock returns; the store is asked for its latest hash.
AcquireLock(i) ==
  /\ pc[i] = "waiting"
  /\ IsResolved(previousLock[i])
  /\ pc' = [pc EXCEPT ![i] = "reading"]
  /\ UNCHANGED <<events, lockVars, buildVars, notifyVars>>

\* Mutant of ReadLatestHash: the store sorts the other way round.
ReadFirstHash(i) ==
  /\ pc[i] = "reading"
  /\ previousHash' = [previousHash EXCEPT ![i] = IF events = <<>> THEN Null ELSE events[1].eventHash]
  /\ pc' = [pc EXCEPT ![i] = "building"]
  /\ UNCHANGED <<events, lockVars, signature, notifyVars>>

ReadLatestHash(i) ==
  /\ pc[i] = "reading"
  /\ previousHash' = [previousHash EXCEPT ![i] = LatestHash(events)]
  /\ pc' = [pc EXCEPT ![i] = "building"]
  /\ UNCHANGED <<events, lockVars, signature, notifyVars>>

\* The event is signed only if somebody is named as its signer.
WantsSignature(i) ==
  /\ by[i] \in Signers
  /\ by[i] \notin Anonymous \/ request[i] \in Named

\* A failed sign() is tolerated outside production only.
SignatureOutcomes(i) ==
  IF ~ WantsSignature(i) THEN {"none"}
  ELSE IF Production THEN {"signed"}
  ELSE {"signed", "none"}

(***************************************************************************)
(* The event is signed, hashed and validated; a malformed request makes    *)
(* the call throw before the store is touched.                             *)
(***************************************************************************)
BuildEvent(i) ==
  /\ pc[i] = "building"
  /\ \E s \in SignatureOutcomes(i) : signature' = [signature EXCEPT ![i] = s]
  /\ pc' = [pc EXCEPT ![i] = IF request[i] \in Malformed THEN "rejected" ELSE "appending"]
  /\ UNCHANGED <<events, lockVars, previousHash, notifyVars>>

SigningFails(i) ==
  /\ pc[i] = "building"
  /\ Production /\ WantsSignature(i)
  /\ pc' = [pc EXCEPT ![i] = "rejected"]
  /\ UNCHANGED <<events, lockVars, buildVars, notifyVars>>

ContentOf(i) ==
  [eventId |-> i, request |-> request[i], signature |-> signature[i]]

\* Mutant of NewEvent: the digests are computed before the event is signed.
HashedBeforeSigning(i) ==
  [SealedEvent(previousHash[i], [ContentOf(i) EXCEPT !.signature = "none"])
     EXCEPT !.content = ContentOf(i)]

NewEvent(i) == SealedEvent(previousHash[i], ContentOf(i))

AppendEvent(i) ==
  /\ pc[i] = "appending"
  /\ events' = Append(events, NewEvent(i))
  /\ pc' = [pc EXCEPT ![i] = "notifying"]
  /\ UNCHANGED <<lockVars, buildVars, notifyVars>>

\* Mutants of StoreFails: a row that a call before left behind is cleared away; the
\* error of the store is logged and passed over.
ClearsLeftover(i) ==
  /\ pc[i] \in {"reading", "appending"}
  /\ pc' = [pc EXCEPT ![i] = "rejected"]
  /\ events' = IF events # <<>> /\ pc[Last(events).content.eventId] = "rejected"
               THEN Front(events) ELSE events
  /\ UNCHANGED <<lockVars, buildVars, notifyVars>>

StoreErrorSwallowed(i) ==
  /\ pc[i] \in {"reading", "appending"}
  /\ pc' = [pc EXCEPT ![i] = "notifying"]
  /\ UNCHANGED <<events, lockVars, buildVars, notifyVars>>

\* getLatestHash or append throws, and nothing was stored.
StoreFails(i) ==
  /\ pc[i] \in {"reading", "appending"}
  /\ pc' = [pc EXCEPT ![i] = "rejected"]
  /\ UNCHANGED <<events, lockVars, buildVars, notifyVars>>

\* The row was inserted, but the answer was lost: append throws STORAGE_ERROR.
AppendUncertain(i) ==
  /\ UncertainAppend
  /\ pc[i] = "appending"
  /\ events' = Append(events, NewEvent(i))
  /\ pc' = [pc EXCEPT ![i] = "rejected"]
  /\ UNCHANGED <<lockVars, buildVars, notifyVars>>

-----------------------------------------------------------------------------
(***************************************************************************)
(* notifyListeners walks the live listener list by position and awaits     *)
(* each listener while the lock is held.  A listener that throws is logged *)
(* and passed over, so returning and throwing are one action.              *)
(***************************************************************************)
CallListener(i) ==
  /\ pc[i] = "notifying"
  /\ cursor[i] <= Len(listeners[by[i]])
  /\ LET l == listeners[by[i]][cursor[i]] IN
       delivered' = [delivered EXCEPT ![l] = Append(@, i)]
  /\ pc' = [pc EXCEPT ![i] = "listening"]
  /\ UNCHANGED <<events, lockVars, buildVars, cursor, nested, listeners>>

\* The running listener calls emit() on its own emitter and awaits the result.
ListenerEmits(i, r) ==
  /\ AwaitsOwnEmit
  /\ pc[i] = "listening"
  /\ nested[i] = 0
  /\ StartEmit(by[i], r)
  /\ nested' = [nested EXCEPT ![i] = calls + 1]
  /\ pc' = [pc EXCEPT ![calls + 1] = "waiting"]
  /\ UNCHANGED <<events, buildVars, cursor, listeners, delivered>>

ListenerSettles(i) ==
  /\ pc[i] = "listening"
  /\ IsResolved(nested[i])
  /\ cursor' = [cursor EXCEPT ![i] = @ + 1]
  /\ nested' = [nested EXCEPT ![i] = 0]
  /\ pc' = [pc EXCEPT ![i] = "notifying"]
  /\ UNCHANGED <<events, lockVars, buildVars, listeners, delivered>>

\* Mutant of Return: the walk ends with a listener that throws.
ListenerErrorEndsWalk(i) ==
  /\ pc[i] = "notifying"
  /\ cursor[i] > 1 \/ cursor[i] > Len(listeners[by[i]])
  /\ pc' = [pc EXCEPT ![i] = "returned"]
  /\ UNCHANGED <<events, lockVars, buildVars, notifyVars>>

\* The walk is over: emit() returns and the finally clause resolves its promise.
Return(i) ==
  /\ pc[i] = "notifying"
  /\ cursor[i] > Len(listeners[by[i]])
  /\ pc' = [pc EXCEPT ![i] = "returned"]
  /\ UNCHANGED <<events, lockVars, buildVars, notifyVars>>

AddListener(m, l) ==
  /\ Len(listeners[m]) < MaxSubscriptions
  /\ listeners' = [listeners EXCEPT ![m] = Append(@, l)]
  /\ UNCHANGED <<events, lockVars, pc, buildVars, cursor, nested, delivered>>

\* indexOf and splice: the first occurrence goes, the ones after it move up.
FirstIndex(s, l) ==
  CHOOSE k \in DOMAIN s : s[k] = l /\ \A j \in DOMAIN s : s[j] = l => k <= j

RemoveListener(m, l) ==
  /\ l \in Transient
  /\ \E k \in DOMAIN listeners[m] : listeners[m][k] = l
  /\ listeners' = [listeners EXCEPT ![m] = RemoveAt(@, FirstIndex(@, l))]
  /\ UNCHANGED <<events, lockVars, pc, buildVars, cursor, nested, delivered>>

-----------------------------------------------------------------------------
\* What call i does by itself once started.
Proceed(i) ==
  \/ AcquireLock(i)
  \/ ReadLatestHash(i)
  \/ BuildEvent(i)
  \/ SigningFails(i)
  \/ AppendEvent(i)
  \/ StoreFails(i)
  \/ AppendUncertain(i)
  \/ CallListener(i)
  \/ ListenerSettles(i)
  \/ Return(i)

Next ==
  \/ \E m \in Emitter, r \in Request : Emit(m, r)
  \/ \E i \in EmitId : Proceed(i)
  \/ \E i \in EmitId, r \in Request : ListenerEmits(i, r)
  \/ \E m \in Emitter, l \in Listener : AddListener(m, l) \/ RemoveListener(m, l)

Spec == Init /\ [][Next]_vars

(***************************************************************************)
(* The event loop runs every ready continuation, and the store, the signer *)
(* and the listeners settle the promises they return.  Nobody is obliged   *)
(* to call emit(), to subscribe or to unsubscribe.                         *)
(***************************************************************************)
Fairness == \A i \in EmitId : WF_vars(Proceed(i))

FairSpec == Spec /\ Fairness

-----------------------------------------------------------------------------
(***************************************************************************)
(* Parts of the inductive invariants.  LockOrder says that the promises of *)
(* an emitter form a chain in call order and that a call leaves "waiting"  *)
(* only when every earlier call of its emitter has settled; it holds for   *)
(* any number of emitters.  Linked and HeadIsFresh need the store to have  *)
(* a single emitter.                                                       *)
(***************************************************************************)
CallsCounted == \A i \in EmitId : pc[i] = "idle" <=> i > calls

LastPromise ==
  \A m \in Emitter :
    /\ emitLock[m] <= calls
    /\ emitLock[m] # Resolved => by[emitLock[m]] = m
    /\ \A i \in 1..calls : by[i] = m => i <= emitLock[m]

PromiseChain ==
  \A i \in 1..calls :
    /\ previousLock[i] < i
    /\ previousLock[i] # Resolved => by[previousLock[i]] = by[i]
    /\ \A j \in 1..(i - 1) : by[j] = by[i] => j <= previousLock[i]

GrantedInOrder ==
  \A i \in 1..calls : \A j \in 1..(i - 1) :
    by[j] = by[i] /\ pc[i] # "waiting" => pc[j] \in Settled

LockOrder == CallsCounted /\ LastPromise /\ PromiseChain /\ GrantedInOrder

Linked ==
  \A k \in DOMAIN events :
    /\ events[k] = SealedEvent(events[k].previousHash, events[k].content)
    /\ VerifyChainLink(events, k)

HeadIsFresh ==
  \A i \in EmitId :
    pc[i] \in {"building", "appending"} => previousHash[i] = LatestHash(events)

OneEmitter == \A m, n \in Emitter : m = n

-----------------------------------------------------------------------------
(***************************************************************************)
(* Properties                                                              *)
(***************************************************************************)

\* Between reading the latest hash and the end of notification an emitter works
\* on one event only, whatever its callers and listeners do meanwhile.
MutualExclusion ==
  \A i, j \in EmitId :
    pc[i] \in Holding /\ pc[j] \in Holding /\ by[i] = by[j] => i = j

\* The store of a single emitter always passes verifyChain, also after failed
\* signatures, refused requests and lost answers of the store.
ChainIsValid == ChainVerifies(events)

\* The latest hash commits to every content in the store, in store order: no
\* event was linked to a stale head and none was left out.
HeadCommitsToHistory == LatestHash(events) = Contents(events)

EventIdAt(k) == events[k].content.eventId

\* The events of an emitter are stored in the order its emit() was called.
CallOrder ==
  \A j, k \in DOMAIN events :
    /\ j < k
    /\ by[EventIdAt(j)] = by[EventIdAt(k)]
    => EventIdAt(j) < EventIdAt(k)

Accepted(i) == pc[i] \in {"notifying", "listening", "returned"}

\* An emit() that got past its append has its event in the store, as the caller
\* will be told, and once only.  The store holds no event of an emit() that has
\* not come that far, nor of one that threw, unless the store's answer was lost.
StoredOnceIfAccepted ==
  \A i \in EmitId :
    /\ Accepted(i) => \E k \in DOMAIN events : events[k] = NewEvent(i)
    /\ \A k \in DOMAIN events : EventIdAt(k) = i =>
         /\ Accepted(i) \/ (UncertainAppend /\ pc[i] = "rejected")
         /\ \A j \in DOMAIN events : EventIdAt(j) = i => j = k

\* Emitters that share a store fork the chain only against each other: an event
\* continues a digest of the store, and every event in between is another
\* emitter's.  The store cannot refuse the second of two events that continue the
\* same digest ("Serializable isolation for chain integrity", cockroach-store.ts:9).
ForksOnlyBetweenEmitters ==
  \A k \in DOMAIN events : \E j \in 0..(k - 1) :
    /\ events[k].previousHash = IF j = 0 THEN Null ELSE events[j].eventHash
    /\ \A n \in (j + 1)..(k - 1) : by[EventIdAt(n)] # by[EventIdAt(k)]

\* A listener is handed events in call order, never an older one after a newer.
DeliveryFollowsChain ==
  \A l \in Listener : \A j, k \in DOMAIN delivered[l] :
    j <= k => delivered[l][j] <= delivered[l][k]

\* Every emit() that was called returns or throws.
EveryEmitSettles == \A i \in EmitId : pc[i] = "waiting" ~> pc[i] \in Settled

\* The digest at the head of the store, unfolded, is the abstract log, and an
\* acknowledgement is an emit() that returned: the emitter implements ProofLog.
Acknowledged == {i \in EmitId : pc[i] = "returned"}

Log == INSTANCE ProofLog WITH
         history <- LatestHash(events), acknowledged <- Acknowledged

ImplementsProofLog == Log!Spec

=============================================================================
