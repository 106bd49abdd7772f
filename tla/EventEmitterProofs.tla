------------------------- MODULE EventEmitterProofs -------------------------
(* Proofs about EventEmitter, EventDelivery and EmitBatch, for every value of *)
(* their constants. *)
EXTENDS EventDelivery, EmitBatch, HashChainProofs, SequenceTheorems, TLAPS

-----------------------------------------------------------------------------
(* Facts about the operators the actions are built from. *)

LEMMA NewEventType ==
  ASSUME TypeOK, NEW i \in EmitId
  PROVE  NewEvent(i) \in Event(Content)
<1>1. ContentOf(i) \in Content
  BY DEF ContentOf, Content, TypeOK
<1>2. previousHash[i] \in Digest(Content)
  BY DEF TypeOK
<1>3. QED BY <1>1, <1>2, SealedEventType DEF NewEvent

\* Removing a listener from a list leaves a list.
LEMMA RemoveListenerType ==
  ASSUME NEW s \in Seq(Listener), NEW l, \E k \in DOMAIN s : s[k] = l
  PROVE  RemoveAt(s, FirstIndex(s, l)) \in Seq(Listener)
<1> DEFINE K == {k \in DOMAIN s : s[k] = l}
<1>1. K \subseteq Nat /\ K # {}
  OBVIOUS
<1>2. \E m \in K : \A k \in K : m <= k
  <2> HIDE DEF K
  <2> QED BY <1>1, LeastNat
<1>3. FirstIndex(s, l) \in DOMAIN s
  BY <1>2 DEF FirstIndex
<1>4. ASSUME NEW k \in DOMAIN s PROVE RemoveAt(s, k) \in Seq(Listener)
  <2>1. SubSeq(s, 1, k - 1) \in Seq(Listener) /\ SubSeq(s, k + 1, Len(s)) \in Seq(Listener)
    OBVIOUS
  <2>2. QED BY <2>1 DEF RemoveAt
<1>5. QED BY <1>3, <1>4

-----------------------------------------------------------------------------
LEMMA TypeInit == Init => TypeOK
<1> SUFFICES ASSUME Init PROVE TypeOK
  OBVIOUS
<1> USE ParameterTypes DEF Init
<1>1. (CHOOSE m \in Emitter : TRUE) \in Emitter /\ (CHOOSE r \in Request : TRUE) \in Request
  OBVIOUS
<1>2. <<>> \in Seq(Event(Content)) /\ Null \in Digest(Content)
  BY DEF Null, Digest
<1>3. QED
  BY <1>1, <1>2 DEF TypeOK, Resolved, Phase, Signature

LEMMA StartEmitType ==
  ASSUME TypeOK, NEW m \in Emitter, NEW r \in Request, StartEmit(m, r)
  PROVE  /\ calls' \in 0..MaxEmits /\ calls + 1 \in EmitId
         /\ emitLock' \in [Emitter -> 0..MaxEmits]
         /\ by' \in [EmitId -> Emitter]
         /\ request' \in [EmitId -> Request]
         /\ previousLock' \in [EmitId -> 0..MaxEmits]
<1>1. calls \in 0..MaxEmits /\ calls < MaxEmits /\ MaxEmits \in Nat
  BY ParameterTypes DEF TypeOK, StartEmit
<1>2. calls + 1 \in EmitId /\ calls' = calls + 1 /\ calls + 1 \in 0..MaxEmits
  BY <1>1 DEF StartEmit, EmitId
<1>3. emitLock[m] \in 0..MaxEmits
  BY DEF TypeOK
<1>4. QED BY <1>2, <1>3 DEF TypeOK, StartEmit

LEMMA TypeNext == TypeOK /\ [Next]_vars => TypeOK'
<1> SUFFICES ASSUME TypeOK, [Next]_vars PROVE TypeOK'
  OBVIOUS
<1> USE DEF vars, lockVars, buildVars, notifyVars
<1>1. ASSUME NEW m \in Emitter, NEW r \in Request, Emit(m, r) PROVE TypeOK'
  <2>1. StartEmit(m, r)
    BY <1>1 DEF Emit
  <2>2. QED
    BY <1>1, <2>1, StartEmitType DEF Emit, TypeOK, Phase
<1>2. ASSUME NEW i \in EmitId, AcquireLock(i) PROVE TypeOK'
  BY <1>2 DEF AcquireLock, TypeOK, Phase, Holding
<1>3. ASSUME NEW i \in EmitId, ReadLatestHash(i) PROVE TypeOK'
  <2>1. LatestHash(events) \in Digest(Content)
    BY LatestHashType DEF TypeOK
  <2>2. QED
    BY <1>3, <2>1 DEF ReadLatestHash, TypeOK, Phase, Holding
<1>4. ASSUME NEW i \in EmitId, BuildEvent(i) PROVE TypeOK'
  BY <1>4 DEF BuildEvent, SignatureOutcomes, TypeOK, Phase, Holding, Settled, Signature
<1>5. ASSUME NEW i \in EmitId, SigningFails(i) PROVE TypeOK'
  BY <1>5 DEF SigningFails, TypeOK, Phase, Settled
<1>6. ASSUME NEW i \in EmitId, AppendEvent(i) PROVE TypeOK'
  <2>1. events' \in Seq(Event(Content))
    BY <1>6, NewEventType DEF AppendEvent, TypeOK
  <2>2. QED
    BY <1>6, <2>1 DEF AppendEvent, TypeOK, Phase, Holding
<1>7. ASSUME NEW i \in EmitId, StoreFails(i) PROVE TypeOK'
  BY <1>7 DEF StoreFails, TypeOK, Phase, Settled
<1>8. ASSUME NEW i \in EmitId, AppendUncertain(i) PROVE TypeOK'
  <2>1. events' \in Seq(Event(Content))
    BY <1>8, NewEventType DEF AppendUncertain, TypeOK
  <2>2. QED
    BY <1>8, <2>1 DEF AppendUncertain, TypeOK, Phase, Settled
<1>9. ASSUME NEW i \in EmitId, CallListener(i) PROVE TypeOK'
  <2> DEFINE l == listeners[by[i]][cursor[i]]
  <2>1. by[i] \in Emitter /\ listeners[by[i]] \in Seq(Listener) /\ cursor[i] \in Nat \ {0}
    BY DEF TypeOK
  <2>2. delivered' \in [Listener -> Seq(EmitId)]
    <3>1. l \in Listener
      <4>1. cursor[i] <= Len(listeners[by[i]])
        BY <1>9 DEF CallListener
      <4>2. cursor[i] \in 1..Len(listeners[by[i]])
        BY <2>1, <4>1
      <4>3. QED BY <2>1, <4>2
    <3>2. delivered' = [delivered EXCEPT ![l] = Append(@, i)]
      BY <1>9 DEF CallListener
    <3> HIDE DEF l
    <3>3. QED BY <3>1, <3>2 DEF TypeOK
  <2>3. QED
    BY <1>9, <2>2 DEF CallListener, TypeOK, Phase, Holding
<1>10. ASSUME NEW i \in EmitId, NEW r \in Request, ListenerEmits(i, r) PROVE TypeOK'
  <2>1. StartEmit(by[i], r) /\ by[i] \in Emitter
    BY <1>10 DEF ListenerEmits, TypeOK
  <2>2. calls + 1 \in 0..MaxEmits
    BY <2>1, StartEmitType DEF StartEmit
  <2>3. QED
    BY <1>10, <2>1, <2>2, StartEmitType DEF ListenerEmits, TypeOK, Phase
<1>11. ASSUME NEW i \in EmitId, ListenerSettles(i) PROVE TypeOK'
  BY <1>11, ParameterTypes DEF ListenerSettles, TypeOK, Phase, Holding
<1>12. ASSUME NEW i \in EmitId, Return(i) PROVE TypeOK'
  BY <1>12 DEF Return, TypeOK, Phase, Settled
<1>13. ASSUME NEW m \in Emitter, NEW l \in Listener, AddListener(m, l) PROVE TypeOK'
  BY <1>13 DEF AddListener, TypeOK
<1>14. ASSUME NEW m \in Emitter, NEW l \in Listener, RemoveListener(m, l) PROVE TypeOK'
  <2>1. RemoveAt(listeners[m], FirstIndex(listeners[m], l)) \in Seq(Listener)
    BY <1>14, RemoveListenerType DEF RemoveListener, TypeOK
  <2>2. QED
    BY <1>14, <2>1 DEF RemoveListener, TypeOK
<1>15. CASE UNCHANGED vars
  BY <1>15 DEF TypeOK
<1>16. QED
  BY <1>1, <1>2, <1>3, <1>4, <1>5, <1>6, <1>7, <1>8, <1>9, <1>10, <1>11, <1>12,
     <1>13, <1>14, <1>15 DEF Next, Proceed

\* Every variable keeps its type.
THEOREM TypeCorrect == Spec => []TypeOK
BY TypeInit, TypeNext, PTL DEF Spec

-----------------------------------------------------------------------------
(***************************************************************************)
(* The lock.  As far as the lock is concerned a step starts a call, grants *)
(* the lock to a waiting call, moves a call that was granted the lock on   *)
(* towards its end, or does nothing.                                       *)
(***************************************************************************)
Starts(m) ==
  /\ calls < MaxEmits
  /\ calls' = calls + 1
  /\ by' = [by EXCEPT ![calls + 1] = m]
  /\ previousLock' = [previousLock EXCEPT ![calls + 1] = emitLock[m]]
  /\ emitLock' = [emitLock EXCEPT ![m] = calls + 1]
  /\ pc' = [pc EXCEPT ![calls + 1] = "waiting"]

Keeps == UNCHANGED <<calls, by, previousLock, emitLock>>

Grants(i) ==
  /\ Keeps
  /\ pc[i] = "waiting" /\ IsResolved(previousLock[i])
  /\ pc' = [pc EXCEPT ![i] = "reading"]

MovesOn(i) ==
  /\ Keeps
  /\ pc[i] \in Holding
  /\ \E p \in Holding \cup Settled : pc' = [pc EXCEPT ![i] = p]

LEMMA LockStep ==
  ASSUME TypeOK, [Next]_vars
  PROVE  \/ \E m \in Emitter : Starts(m)
         \/ \E i \in EmitId : Grants(i)
         \/ \E i \in EmitId : MovesOn(i)
         \/ Keeps /\ pc' = pc
<1> USE DEF lockVars, buildVars, notifyVars, Keeps
<1>1. ASSUME NEW m \in Emitter, NEW r \in Request, Emit(m, r) PROVE Starts(m)
  BY <1>1 DEF Emit, StartEmit, Starts
<1>2. ASSUME NEW i \in EmitId, NEW r \in Request, ListenerEmits(i, r)
      PROVE  \E m \in Emitter : Starts(m)
  <2>1. by[i] \in Emitter
    BY DEF TypeOK
  <2>2. QED BY <1>2, <2>1 DEF ListenerEmits, StartEmit, Starts
<1>3. ASSUME NEW i \in EmitId, AcquireLock(i) PROVE Grants(i)
  BY <1>3 DEF AcquireLock, Grants
<1>4. ASSUME NEW i \in EmitId, Proceed(i), ~ AcquireLock(i) PROVE MovesOn(i)
  BY <1>4 DEF Proceed, ReadLatestHash, BuildEvent, SigningFails, AppendEvent,
     StoreFails, AppendUncertain, CallListener, ListenerSettles, Return,
     MovesOn, Holding, Settled
<1>5. ASSUME NEW m \in Emitter, NEW l \in Listener,
             AddListener(m, l) \/ RemoveListener(m, l)
      PROVE  Keeps /\ pc' = pc
  BY <1>5 DEF AddListener, RemoveListener
<1>6. CASE UNCHANGED vars
  BY <1>6 DEF vars
<1>7. QED
  BY <1>1, <1>2, <1>3, <1>4, <1>5, <1>6 DEF Next

LEMMA LockInit == Init => LockOrder
BY ParameterTypes DEF Init, LockOrder, CallsCounted, LastPromise, PromiseChain,
   GrantedInOrder, EmitId, Resolved

LEMMA LockNext == TypeOK /\ LockOrder /\ [Next]_vars => LockOrder'
<1> SUFFICES ASSUME TypeOK, LockOrder, [Next]_vars PROVE LockOrder'
  OBVIOUS
<1>1. /\ calls \in Nat /\ MaxEmits \in Nat /\ calls <= MaxEmits
      /\ emitLock \in [Emitter -> 0..MaxEmits] /\ by \in [EmitId -> Emitter]
      /\ previousLock \in [EmitId -> 0..MaxEmits] /\ pc \in [EmitId -> Phase]
  BY ParameterTypes DEF TypeOK
<1>2. CallsCounted /\ LastPromise /\ PromiseChain /\ GrantedInOrder
  BY DEF LockOrder
<1>3. ASSUME NEW m \in Emitter, Starts(m) PROVE LockOrder'
  <2> DEFINE n == calls + 1
  <2>1. /\ n \in EmitId /\ calls' = n /\ n \in Nat /\ emitLock[m] <= calls /\ emitLock[m] \in Nat
        /\ by' = [by EXCEPT ![n] = m] /\ emitLock' = [emitLock EXCEPT ![m] = n]
        /\ previousLock' = [previousLock EXCEPT ![n] = emitLock[m]]
        /\ pc' = [pc EXCEPT ![n] = "waiting"]
    BY <1>1, <1>2, <1>3 DEF Starts, EmitId, LastPromise
  <2>2. \A i \in 1..calls : /\ i \in EmitId /\ by'[i] = by[i] /\ pc'[i] = pc[i]
                            /\ previousLock'[i] = previousLock[i]
    BY <1>1, <2>1 DEF EmitId
  <2>3. /\ by'[n] = m /\ pc'[n] = "waiting" /\ previousLock'[n] = emitLock[m]
        /\ emitLock'[m] = n
    BY <1>1, <2>1
  <2>4. \A i \in 1..calls' : i \in 1..calls \/ i = n
    BY <1>1, <2>1
  <2> HIDE DEF n
  <2>5. CallsCounted'
    BY <1>1, <1>2, <2>1 DEF CallsCounted, EmitId, n
  <2>6. LastPromise'
    BY <1>1, <1>2, <2>1, <2>2, <2>3, <2>4 DEF LastPromise, n, Resolved
  <2>7. PromiseChain'
    <3>1. ASSUME NEW i \in 1..calls
          PROVE  /\ previousLock'[i] < i
                 /\ previousLock'[i] # Resolved => by'[previousLock'[i]] = by'[i]
                 /\ \A j \in 1..(i - 1) : by'[j] = by'[i] => j <= previousLock'[i]
      <4>1. previousLock[i] < i /\ previousLock[i] \in Nat
        BY <1>1, <1>2, <2>2 DEF PromiseChain
      <4>2. previousLock[i] # Resolved => previousLock[i] \in 1..calls
        BY <1>1, <4>1 DEF Resolved
      <4>3. QED BY <1>1, <1>2, <2>2, <4>1, <4>2 DEF PromiseChain
    <3>2. /\ previousLock'[n] < n
          /\ previousLock'[n] # Resolved => by'[previousLock'[n]] = by'[n]
          /\ \A j \in 1..(n - 1) : by'[j] = by'[n] => j <= previousLock'[n]
      <4>1. emitLock[m] # Resolved => emitLock[m] \in 1..calls /\ by[emitLock[m]] = m
        BY <1>1, <1>2, <2>1 DEF LastPromise, Resolved
      <4>2. n - 1 = calls
        BY <1>1 DEF n
      <4>3. QED BY <1>1, <1>2, <2>1, <2>2, <2>3, <4>1, <4>2 DEF LastPromise, n
    <3>3. QED BY <2>4, <3>1, <3>2 DEF PromiseChain
  <2>8. GrantedInOrder'
    BY <1>1, <1>2, <2>1, <2>2, <2>3, <2>4 DEF GrantedInOrder, n
  <2>9. QED BY <2>5, <2>6, <2>7, <2>8 DEF LockOrder
<1>4. ASSUME Keeps, NEW i \in EmitId, NEW p \in Phase \ {"idle"}, pc[i] # "idle",
             pc' = [pc EXCEPT ![i] = p]
      PROVE  (CallsCounted /\ LastPromise /\ PromiseChain)'
  BY <1>1, <1>2, <1>4 DEF Keeps, CallsCounted, LastPromise, PromiseChain
<1>5. ASSUME NEW i \in EmitId, Grants(i) PROVE LockOrder'
  <2>1. (CallsCounted /\ LastPromise /\ PromiseChain)'
    BY <1>4, <1>5 DEF Grants, Phase, Holding
  <2>2. \A j \in 1..(i - 1) : by[j] = by[i] => pc[j] \in Settled
    <3>1. i \in 1..calls /\ pc[i] = "waiting"
      BY <1>1, <1>2, <1>5 DEF Grants, CallsCounted, EmitId
    <3>2. TAKE j \in 1..(i - 1)
    <3>3. HAVE by[j] = by[i]
    <3>4. j <= previousLock[i] /\ previousLock[i] \in 1..(i - 1)
      BY <1>1, <1>2, <3>1, <3>3 DEF PromiseChain, EmitId
    <3>5. pc[previousLock[i]] \in Settled /\ by[previousLock[i]] = by[i]
      BY <1>1, <1>2, <1>5, <3>1, <3>4 DEF Grants, IsResolved, Resolved, PromiseChain
    <3>6. CASE j = previousLock[i]
      BY <3>5, <3>6
    <3>7. CASE j < previousLock[i]
      <4> DEFINE p == previousLock[i]
      <4>1. p \in 1..calls /\ j \in 1..(p - 1) /\ pc[p] # "waiting" /\ by[j] = by[p]
        BY <1>1, <3>1, <3>2, <3>3, <3>4, <3>5, <3>7 DEF Settled
      <4> HIDE DEF p
      <4>2. QED BY <1>2, <4>1 DEF GrantedInOrder
    <3>8. QED BY <1>1, <3>4, <3>6, <3>7 DEF EmitId
  <2>3. GrantedInOrder'
    BY <1>1, <1>2, <1>5, <2>2 DEF GrantedInOrder, Grants, Keeps, EmitId, Settled
  <2>4. QED BY <2>1, <2>3 DEF LockOrder
<1>6. ASSUME NEW i \in EmitId, MovesOn(i) PROVE LockOrder'
  <2>1. PICK p \in Holding \cup Settled : pc' = [pc EXCEPT ![i] = p]
    BY <1>6 DEF MovesOn
  <2>2. (CallsCounted /\ LastPromise /\ PromiseChain)'
    BY <1>4, <1>6, <2>1 DEF MovesOn, Phase, Holding, Settled
  <2>3. GrantedInOrder'
    BY <1>1, <1>2, <1>6, <2>1 DEF GrantedInOrder, MovesOn, Keeps, EmitId, Settled, Holding
  <2>4. QED BY <2>2, <2>3 DEF LockOrder
<1>7. CASE Keeps /\ pc' = pc
  BY <1>7 DEF Keeps, LockOrder, CallsCounted, LastPromise, PromiseChain, GrantedInOrder
<1>8. QED
  BY <1>3, <1>5, <1>6, <1>7, LockStep

LEMMA LockCorrect == Spec => []LockOrder
BY TypeInit, TypeNext, LockInit, LockNext, PTL DEF Spec

LEMMA LockExcludes == TypeOK /\ LockOrder => MutualExclusion
<1> SUFFICES ASSUME TypeOK, LockOrder,
                    NEW i \in EmitId, NEW j \in EmitId, pc[i] \in Holding, pc[j] \in Holding,
                    by[i] = by[j], j < i
             PROVE  FALSE
  BY DEF MutualExclusion, EmitId
<1>1. i \in 1..calls
  BY ParameterTypes DEF LockOrder, CallsCounted, TypeOK, EmitId, Holding
<1>2. pc[j] \in Settled
  BY <1>1 DEF LockOrder, GrantedInOrder, EmitId, Holding
<1>3. QED BY <1>2 DEF Holding, Settled

\* However many emitters there are and whatever their listeners do, an emitter
\* never works on two events at a time.
THEOREM EmitterExcludes == Spec => []MutualExclusion
BY TypeCorrect, LockCorrect, LockExcludes, PTL

-----------------------------------------------------------------------------
(***************************************************************************)
(* The store.  A step either adds the event of a call that is appending,   *)
(* or leaves the store, and what is claimed about stored events, alone.    *)
(***************************************************************************)
Writes(i) ==
  /\ pc[i] = "appending"
  /\ events' = Append(events, NewEvent(i))
  /\ \/ pc' = [pc EXCEPT ![i] = "notifying"]
     \/ UncertainAppend /\ pc' = [pc EXCEPT ![i] = "rejected"]
  /\ UNCHANGED <<by, request, signature, previousHash>>

Quiet ==
  /\ events' = events
  /\ \A i \in EmitId :
       /\ pc[i] # "idle" => by'[i] = by[i]
       /\ Accepted(i)' <=> Accepted(i)
       /\ pc[i] = "rejected" => pc'[i] = "rejected"
       /\ Accepted(i) => /\ request'[i] = request[i]
                         /\ signature'[i] = signature[i]
                         /\ previousHash'[i] = previousHash[i]

LEMMA StoreStep ==
  ASSUME TypeOK, LockOrder, [Next]_vars
  PROVE  Quiet \/ \E i \in EmitId : Writes(i)
<1> USE DEF TypeOK, lockVars, buildVars, notifyVars, Accepted
<1>1. ASSUME NEW m \in Emitter, NEW r \in Request, StartEmit(m, r),
             pc' = [pc EXCEPT ![calls + 1] = "waiting"],
             UNCHANGED <<events, signature, previousHash>>
      PROVE  Quiet
  <2>1. calls + 1 \in EmitId /\ pc[calls + 1] = "idle"
    BY <1>1, StartEmitType DEF LockOrder, CallsCounted, EmitId
  <2>2. QED BY <1>1, <2>1 DEF StartEmit, Quiet
<1>2. ASSUME NEW m \in Emitter, NEW r \in Request, Emit(m, r) PROVE Quiet
  BY <1>1, <1>2 DEF Emit
<1>3. ASSUME NEW i \in EmitId, NEW r \in Request, ListenerEmits(i, r) PROVE Quiet
  <2>1. by[i] \in Emitter
    OBVIOUS
  <2>2. QED BY <1>1, <1>3, <2>1 DEF ListenerEmits
<1>4. ASSUME NEW i \in EmitId, AppendEvent(i) \/ AppendUncertain(i) PROVE Writes(i)
  BY <1>4 DEF AppendEvent, AppendUncertain, Writes
<1>5. ASSUME NEW i \in EmitId, AcquireLock(i) \/ ReadLatestHash(i) \/ SigningFails(i)
                               \/ StoreFails(i)
      PROVE  Quiet
  BY <1>5 DEF AcquireLock, ReadLatestHash, SigningFails, StoreFails, Quiet
<1>6. ASSUME NEW i \in EmitId, BuildEvent(i) PROVE Quiet
  BY <1>6 DEF BuildEvent, Quiet
<1>7. ASSUME NEW i \in EmitId, CallListener(i) \/ ListenerSettles(i) \/ Return(i)
      PROVE  Quiet
  BY <1>7 DEF CallListener, ListenerSettles, Return, Quiet
<1>8. ASSUME NEW m \in Emitter, NEW l \in Listener,
             AddListener(m, l) \/ RemoveListener(m, l)
      PROVE  Quiet
  BY <1>8 DEF AddListener, RemoveListener, Quiet
<1>9. CASE UNCHANGED vars
  BY <1>9 DEF vars, Quiet
<1>10. QED
  BY <1>2, <1>3, <1>4, <1>5, <1>6, <1>7, <1>8, <1>9 DEF Next, Proceed

\* What an append does to the store, position by position.
LEMMA AppendedStore ==
  ASSUME TypeOK, NEW i \in EmitId, Writes(i)
  PROVE  \E n \in Nat :
           /\ Len(events) = n
           /\ DOMAIN events = 1..n
           /\ DOMAIN events' = 1..(n + 1)
           /\ Len(events') = n + 1
           /\ events'[n + 1] = NewEvent(i)
           /\ events'[n + 1].content.eventId = i
           /\ \A k \in 1..n : events'[k] = events[k]
<1>1. PICK n \in Nat : n = Len(events)
  BY DEF TypeOK
<1>2. /\ DOMAIN events = 1..n /\ DOMAIN events' = 1..(n + 1) /\ Len(events') = n + 1
      /\ events'[n + 1] = NewEvent(i)
      /\ \A k \in 1..n : events'[k] = events[k]
  BY <1>1 DEF TypeOK, Writes
<1>3. NewEvent(i).content.eventId = i
  BY DEF NewEvent, ContentOf, SealedEvent
<1>4. QED BY <1>1, <1>2, <1>3

LEMMA EventIdType ==
  ASSUME TypeOK PROVE \A k \in DOMAIN events : EventIdAt(k) \in EmitId
<1> TAKE k \in DOMAIN events
<1>1. events[k] \in Event(Content)
  BY DEF TypeOK
<1>2. QED BY <1>1 DEF Event, Content, EventIdAt

StoreInv == CallOrder /\ StoredOnceIfAccepted

LEMMA StoreInit == Init => StoreInv
BY DEF Init, StoreInv, CallOrder, StoredOnceIfAccepted, Accepted

LEMMA StoreNext ==
  TypeOK /\ LockOrder /\ StoreInv /\ [Next]_vars => StoreInv'
<1> SUFFICES ASSUME TypeOK, LockOrder, StoreInv, [Next]_vars PROVE StoreInv'
  OBVIOUS
<1>1. CallOrder /\ StoredOnceIfAccepted
  BY DEF StoreInv
<1>2. \A k \in DOMAIN events : EventIdAt(k) \in EmitId
  BY EventIdType
<1>3. CASE Quiet
  <2>1. CallOrder'
    <3>1. \A k \in DOMAIN events : pc[EventIdAt(k)] # "idle"
      BY <1>1, <1>2 DEF StoredOnceIfAccepted, Accepted
    <3>2. QED BY <1>1, <1>2, <1>3, <3>1 DEF CallOrder, Quiet, EventIdAt
  <2>2. \A i \in EmitId : Accepted(i) => NewEvent(i)' = NewEvent(i)
    BY <1>3 DEF Quiet, NewEvent, ContentOf
  <2>3. StoredOnceIfAccepted'
    BY <1>1, <1>3, <2>2 DEF StoredOnceIfAccepted, Quiet, EventIdAt
  <2>4. QED BY <2>1, <2>3 DEF StoreInv
<1>4. ASSUME NEW i \in EmitId, Writes(i) PROVE StoreInv'
  <2>1. PICK n \in Nat :
          /\ DOMAIN events = 1..n /\ DOMAIN events' = 1..(n + 1)
          /\ events'[n + 1] = NewEvent(i)
          /\ events'[n + 1].content.eventId = i
          /\ \A k \in 1..n : events'[k] = events[k]
    BY <1>4, AppendedStore
  <2>2. \A k \in 1..n : events'[k].content.eventId = EventIdAt(k)
    BY <2>1 DEF EventIdAt
  <2>3. \A k \in 1..(n + 1) : k \in 1..n \/ k = n + 1
    BY <2>1
  <2>4. ASSUME NEW k \in 1..n
        PROVE  EventIdAt(k) # i /\ (by[EventIdAt(k)] = by[i] => EventIdAt(k) < i)
    <3>1. PICK j \in EmitId : j = EventIdAt(k)
      BY <1>2, <2>1
    <3>2. pc[j] \in Settled \cup Holding /\ pc[j] # "appending"
      BY <1>1, <2>1, <3>1 DEF StoredOnceIfAccepted, Accepted, Settled, Holding
    <3>3. pc[i] = "appending"
      BY <1>4 DEF Writes
    <3>4. i \in Nat /\ j \in Nat /\ calls \in Nat /\ 1 <= i
      BY ParameterTypes DEF EmitId, TypeOK
    <3>5. pc[j] # "idle" /\ pc[j] # "waiting" /\ pc[i] \notin Settled
      BY <3>2, <3>3 DEF Settled, Holding
    <3>6. CASE i < j
      <4>1. j <= calls
        BY <3>4, <3>5 DEF LockOrder, CallsCounted
      <4>2. j \in 1..calls /\ i \in 1..(j - 1)
        BY <3>4, <3>6, <4>1
      <4>3. by[i] # by[j]
        BY <3>5, <4>2 DEF LockOrder, GrantedInOrder
      <4>4. QED BY <3>1, <3>6, <3>4, <4>3
    <3>7. i # j
      BY <3>2, <3>3
    <3>8. QED
      BY <3>1, <3>4, <3>6, <3>7
  <2>5. by' = by
    BY <1>4 DEF Writes
  <2>6. CallOrder'
    <3>1. SUFFICES ASSUME NEW j \in 1..(n + 1), NEW k \in 1..(n + 1), j < k,
                          by[events'[j].content.eventId] = by[events'[k].content.eventId]
                   PROVE  events'[j].content.eventId < events'[k].content.eventId
      BY <2>1, <2>5 DEF CallOrder, EventIdAt
    <3>2. j \in 1..n
      BY <3>1, <2>1
    <3>3. CASE k \in 1..n
      BY <1>1, <2>1, <2>2, <3>1, <3>2, <3>3 DEF CallOrder
    <3>4. CASE k = n + 1
      BY <2>1, <2>2, <2>4, <3>1, <3>2, <3>4
    <3>5. QED BY <2>3, <3>3, <3>4
  <2>7. /\ Accepted(i)' \/ (UncertainAppend /\ pc'[i] = "rejected")
        /\ \A j \in EmitId \ {i} : pc'[j] = pc[j]
        /\ \A j \in EmitId : NewEvent(j)' = NewEvent(j)
    BY <1>4 DEF Writes, TypeOK, Accepted, NewEvent, ContentOf
  <2>8. StoredOnceIfAccepted'
    <3>1. ASSUME NEW j \in EmitId, Accepted(j)'
          PROVE  \E k \in 1..(n + 1) : events'[k] = NewEvent(j)'
      <4>1. CASE j = i
        BY <2>1, <2>7, <4>1
      <4>2. CASE j # i
        <5>1. Accepted(j)
          BY <2>7, <3>1, <4>2 DEF Accepted
        <5>2. PICK k \in 1..n : events[k] = NewEvent(j)
          BY <1>1, <2>1, <5>1 DEF StoredOnceIfAccepted
        <5>3. QED BY <2>1, <2>7, <5>2
      <4>3. QED BY <4>1, <4>2
    <3>2. ASSUME NEW j \in EmitId, NEW k \in 1..(n + 1), events'[k].content.eventId = j
          PROVE  /\ Accepted(j)' \/ (UncertainAppend /\ pc'[j] = "rejected")
                 /\ \A h \in 1..(n + 1) : events'[h].content.eventId = j => h = k
      <4>1. CASE j = i
        BY <2>1, <2>2, <2>3, <2>4, <2>7, <3>2, <4>1
      <4>2. CASE j # i
        <5>1. k \in 1..n /\ EventIdAt(k) = j
          BY <2>1, <2>2, <2>3, <3>2, <4>2
        <5>2. /\ Accepted(j) \/ (UncertainAppend /\ pc[j] = "rejected")
              /\ \A h \in 1..n : EventIdAt(h) = j => h = k
          BY <1>1, <2>1, <5>1 DEF StoredOnceIfAccepted
        <5>3. Accepted(j)' \/ (UncertainAppend /\ pc'[j] = "rejected")
          BY <2>7, <4>2, <5>2 DEF Accepted
        <5>4. \A h \in 1..(n + 1) : events'[h].content.eventId = j => h = k
          BY <2>1, <2>2, <2>3, <4>2, <5>2
        <5>5. QED BY <5>3, <5>4
      <4>3. QED BY <4>1, <4>2
    <3>3. QED BY <2>1, <3>1, <3>2 DEF StoredOnceIfAccepted, EventIdAt
  <2>9. QED BY <2>6, <2>8 DEF StoreInv
<1>5. QED
  BY <1>3, <1>4, StoreStep

LEMMA StoreCorrect == Spec => []StoreInv
BY TypeInit, TypeNext, LockInit, LockNext, StoreInit, StoreNext, PTL DEF Spec

\* Events of one emitter are stored in call order, whoever else writes.
THEOREM EventsInCallOrder == Spec => []CallOrder
BY StoreCorrect, PTL DEF StoreInv

\* An accepted emit() has exactly one event in the store, any other has none.
THEOREM AcceptedStoredOnce == Spec => []StoredOnceIfAccepted
BY StoreCorrect, PTL DEF StoreInv

-----------------------------------------------------------------------------
(***************************************************************************)
(* Emitters that share a store.                                            *)
(***************************************************************************)
\* A call holds a digest because it has just read it or has kept it.
LEMMA HeadStep ==
  ASSUME TypeOK, LockOrder, [Next]_vars, NEW i \in EmitId,
         pc'[i] \in {"building", "appending"}
  PROVE  \/ previousHash'[i] = LatestHash(events) /\ events' = events
         \/ pc[i] \in {"building", "appending"} /\ previousHash'[i] = previousHash[i]
<1> USE DEF TypeOK, lockVars, buildVars, notifyVars
<1>1. ASSUME NEW m \in Emitter, NEW r \in Request, StartEmit(m, r),
             pc' = [pc EXCEPT ![calls + 1] = "waiting"], UNCHANGED previousHash
      PROVE  pc[i] \in {"building", "appending"} /\ previousHash'[i] = previousHash[i]
  BY <1>1
<1>2. CASE \E m \in Emitter, r \in Request : Emit(m, r)
  BY <1>1, <1>2 DEF Emit
<1>3. CASE \E j \in EmitId, r \in Request : ListenerEmits(j, r)
  BY <1>1, <1>3 DEF ListenerEmits
<1>4. ASSUME NEW j \in EmitId, ReadLatestHash(j)
      PROVE  \/ previousHash'[i] = LatestHash(events) /\ events' = events
             \/ pc[i] \in {"building", "appending"} /\ previousHash'[i] = previousHash[i]
  BY <1>4 DEF ReadLatestHash
<1>5. ASSUME NEW j \in EmitId,
             AcquireLock(j) \/ BuildEvent(j) \/ SigningFails(j) \/ StoreFails(j)
      PROVE  pc[i] \in {"building", "appending"} /\ previousHash'[i] = previousHash[i]
  BY <1>5 DEF AcquireLock, BuildEvent, SigningFails, StoreFails
<1>6. ASSUME NEW j \in EmitId, AppendEvent(j) \/ AppendUncertain(j)
      PROVE  pc[i] \in {"building", "appending"} /\ previousHash'[i] = previousHash[i]
  BY <1>6 DEF AppendEvent, AppendUncertain
<1>7. ASSUME NEW j \in EmitId, CallListener(j) \/ ListenerSettles(j) \/ Return(j)
      PROVE  pc[i] \in {"building", "appending"} /\ previousHash'[i] = previousHash[i]
  BY <1>7 DEF CallListener, ListenerSettles, Return
<1>8. CASE \E m \in Emitter, l \in Listener : AddListener(m, l) \/ RemoveListener(m, l)
  BY <1>8 DEF AddListener, RemoveListener
<1>9. CASE UNCHANGED vars
  BY <1>9 DEF vars
<1>10. QED
  BY <1>2, <1>3, <1>4, <1>5, <1>6, <1>7, <1>8, <1>9 DEF Next, Proceed

\* A call links its event to a digest that was the head when it read it; what was
\* stored since is of other emitters.
HeldHead ==
  \A i \in EmitId : pc[i] \in {"building", "appending"} =>
    \E j \in 0..Len(events) :
      /\ previousHash[i] = IF j = 0 THEN Null ELSE events[j].eventHash
      /\ \A n \in (j + 1)..Len(events) : by[EventIdAt(n)] # by[i]

ForkInv == ForksOnlyBetweenEmitters /\ HeldHead

LEMMA ForkInit == Init => ForkInv
BY DEF Init, ForkInv, ForksOnlyBetweenEmitters, HeldHead

\* The events stored so far keep their digests and their emitters.
LEMMA StoredKeep ==
  ASSUME TypeOK, LockOrder, StoreInv, [Next]_vars, NEW k \in DOMAIN events
  PROVE  /\ k \in DOMAIN events' /\ events'[k] = events[k]
         /\ by'[EventIdAt(k)] = by[EventIdAt(k)]
<1>1. EventIdAt(k) \in EmitId /\ pc[EventIdAt(k)] # "idle"
  BY EventIdType DEF StoreInv, StoredOnceIfAccepted, Accepted
<1>2. CASE Quiet
  BY <1>1, <1>2 DEF Quiet
<1>3. ASSUME NEW i \in EmitId, Writes(i)
      PROVE  /\ k \in DOMAIN events' /\ events'[k] = events[k]
             /\ by'[EventIdAt(k)] = by[EventIdAt(k)]
  <2>1. PICK n \in Nat :
          /\ DOMAIN events = 1..n /\ DOMAIN events' = 1..(n + 1)
          /\ \A j \in 1..n : events'[j] = events[j]
    BY <1>3, AppendedStore
  <2>2. QED BY <1>3, <2>1 DEF Writes
<1>4. QED BY <1>2, <1>3, StoreStep

LEMMA ForkNext ==
  TypeOK /\ LockOrder /\ MutualExclusion /\ StoreInv /\ ForkInv /\ [Next]_vars => ForkInv'
<1> SUFFICES ASSUME TypeOK, LockOrder, MutualExclusion, StoreInv, ForkInv, [Next]_vars
             PROVE  ForkInv'
  OBVIOUS
<1>1. PICK n \in Nat : Len(events) = n /\ DOMAIN events = 1..n
  BY DEF TypeOK
<1>2. \A k \in 1..n : events'[k] = events[k] /\ by'[EventIdAt(k)'] = by[EventIdAt(k)]
  BY <1>1, StoredKeep DEF EventIdAt
<1>3. ASSUME NEW k \in 1..n
      PROVE  \E j \in 0..(k - 1) :
               /\ events'[k].previousHash = IF j = 0 THEN Null ELSE events'[j].eventHash
               /\ \A h \in (j + 1)..(k - 1) : by'[EventIdAt(h)'] # by'[EventIdAt(k)']
  <2>1. PICK j \in 0..(k - 1) :
          /\ events[k].previousHash = IF j = 0 THEN Null ELSE events[j].eventHash
          /\ \A h \in (j + 1)..(k - 1) : by[EventIdAt(h)] # by[EventIdAt(k)]
    BY <1>1 DEF ForkInv, ForksOnlyBetweenEmitters
  <2>2. (j # 0 => j \in 1..n) /\ \A h \in (j + 1)..(k - 1) : h \in 1..n
    OBVIOUS
  <2>3. QED BY <1>2, <2>1, <2>2
<1>4. ASSUME NEW i \in EmitId, pc[i] \in {"building", "appending"}, by'[i] = by[i]
      PROVE  \E j \in 0..n :
               /\ previousHash[i] = IF j = 0 THEN Null ELSE events'[j].eventHash
               /\ \A h \in (j + 1)..n : by'[EventIdAt(h)'] # by'[i]
  <2>1. PICK j \in 0..n :
          /\ previousHash[i] = IF j = 0 THEN Null ELSE events[j].eventHash
          /\ \A h \in (j + 1)..n : by[EventIdAt(h)] # by[i]
    BY <1>1, <1>4 DEF ForkInv, HeldHead
  <2>2. (j # 0 => j \in 1..n) /\ \A h \in (j + 1)..n : h \in 1..n
    OBVIOUS
  <2>3. QED BY <1>2, <1>4, <2>1, <2>2
<1>5. CASE Quiet
  <2>1. events' = events
    BY <1>5 DEF Quiet
  <2>2. ForksOnlyBetweenEmitters'
    BY <1>1, <1>3, <2>1 DEF ForksOnlyBetweenEmitters
  <2>3. ASSUME NEW i \in EmitId, pc'[i] \in {"building", "appending"}
        PROVE  \E j \in 0..n :
                 /\ previousHash'[i] = IF j = 0 THEN Null ELSE events'[j].eventHash
                 /\ \A h \in (j + 1)..n : by'[EventIdAt(h)'] # by'[i]
    <3>1. CASE previousHash'[i] = LatestHash(events)
      <4>1. previousHash'[i] = IF n = 0 THEN Null ELSE events'[n].eventHash
        BY <1>1, <2>1, <3>1 DEF LatestHash, TypeOK
      <4>2. n \in 0..n /\ (n + 1)..n = {}
        OBVIOUS
      <4>3. QED BY <4>1, <4>2
    <3>2. CASE pc[i] \in {"building", "appending"} /\ previousHash'[i] = previousHash[i]
      <4>1. by'[i] = by[i]
        BY <1>5, <3>2 DEF Quiet
      <4>2. QED BY <1>4, <3>2, <4>1
    <3>3. QED BY <2>3, <3>1, <3>2, HeadStep
  <2>4. HeldHead'
    BY <1>1, <2>1, <2>3 DEF HeldHead
  <2>5. QED BY <2>2, <2>4 DEF ForkInv
<1>6. ASSUME NEW i \in EmitId, Writes(i) PROVE ForkInv'
  <2>1. /\ DOMAIN events' = 1..(n + 1) /\ Len(events') = n + 1
        /\ events'[n + 1] = NewEvent(i) /\ EventIdAt(n + 1)' = i
    BY <1>1, <1>6, AppendedStore DEF EventIdAt
  <2>2. pc[i] = "appending" /\ by' = by /\ previousHash' = previousHash
    BY <1>6 DEF Writes
  <2>3. ForksOnlyBetweenEmitters'
    <3>1. NewEvent(i).previousHash = previousHash[i]
      BY DEF NewEvent, SealedEvent
    <3>2. PICK j \in 0..n :
            /\ previousHash[i] = IF j = 0 THEN Null ELSE events'[j].eventHash
            /\ \A h \in (j + 1)..n : by'[EventIdAt(h)'] # by'[i]
      BY <1>4, <2>2
    <3>3. \E j1 \in 0..((n + 1) - 1) :
            /\ events'[n + 1].previousHash = IF j1 = 0 THEN Null ELSE events'[j1].eventHash
            /\ \A h \in (j1 + 1)..((n + 1) - 1) : by'[EventIdAt(h)'] # by'[EventIdAt(n + 1)']
      <4>1. (n + 1) - 1 = n
        OBVIOUS
      <4>2. QED BY <2>1, <3>1, <3>2, <4>1
    <3>4. \A k \in 1..(n + 1) : k \in 1..n \/ k = n + 1
      OBVIOUS
    <3>5. QED BY <1>3, <2>1, <3>3, <3>4 DEF ForksOnlyBetweenEmitters
  <2>4. ASSUME NEW k \in EmitId, pc'[k] \in {"building", "appending"}
        PROVE  \E j \in 0..(n + 1) :
                 /\ previousHash'[k] = IF j = 0 THEN Null ELSE events'[j].eventHash
                 /\ \A h \in (j + 1)..(n + 1) : by'[EventIdAt(h)'] # by'[k]
    <3>1. k # i /\ pc[k] \in {"building", "appending"}
      BY <1>6, <2>4 DEF Writes, TypeOK
    <3>2. by[k] # by[i]
      BY <2>2, <3>1 DEF MutualExclusion, Holding
    <3>3. PICK j \in 0..n :
            /\ previousHash[k] = IF j = 0 THEN Null ELSE events'[j].eventHash
            /\ \A h \in (j + 1)..n : by'[EventIdAt(h)'] # by'[k]
      BY <1>4, <2>2, <3>1
    <3>4. \A h \in (j + 1)..(n + 1) : h \in (j + 1)..n \/ h = n + 1
      OBVIOUS
    <3>5. QED BY <2>1, <2>2, <3>2, <3>3, <3>4
  <2>5. HeldHead'
    BY <2>1, <2>4 DEF HeldHead
  <2>6. QED BY <2>3, <2>5 DEF ForkInv
<1>7. QED BY <1>5, <1>6, StoreStep

\* However many emitters share the store, an event continues a digest of the store
\* and every event stored in between is of another emitter.
THEOREM ForksNeedTwoEmitters == Spec => []ForksOnlyBetweenEmitters
<1>1. ForkInv => ForksOnlyBetweenEmitters
  BY DEF ForkInv
<1>2. QED
  BY <1>1, ForkInit, ForkNext, TypeCorrect, LockCorrect, EmitterExcludes, StoreCorrect, PTL
  DEF Spec

-----------------------------------------------------------------------------
(***************************************************************************)
(* A store with a single emitter: its chain always verifies, its latest    *)
(* hash commits to everything stored, and the emitter implements ProofLog. *)
(* Mutual exclusion keeps the digest a call has read fresh until it        *)
(* appends, and StoreInv says that the event it appends is not in the      *)
(* store yet.                                                              *)
(***************************************************************************)
ChainInv == Linked /\ HeadCommitsToHistory /\ HeadIsFresh

LEMMA ChainInit == Init => ChainInv
BY DEF Init, ChainInv, Linked, HeadCommitsToHistory, HeadIsFresh, LatestHash, Contents, Null

\* What an append does to the latest hash when the digest read is still fresh.
LEMMA SealedAppend ==
  ASSUME TypeOK, HeadCommitsToHistory, NEW i \in EmitId, Writes(i),
         previousHash[i] = LatestHash(events)
  PROVE  /\ LatestHash(events)' = Append(LatestHash(events), ContentOf(i))
         /\ HeadCommitsToHistory'
<1>1. PICK n \in Nat :
        /\ Len(events) = n /\ Len(events') = n + 1 /\ DOMAIN events = 1..n
        /\ events'[n + 1] = NewEvent(i)
        /\ \A k \in 1..n : events'[k] = events[k]
  BY AppendedStore
<1>2. events' # <<>>
  BY <1>1
<1>3. LatestHash(events)' = NewEvent(i).eventHash
  BY <1>1, <1>2 DEF LatestHash
<1>4. LatestHash(events)' = Append(LatestHash(events), ContentOf(i))
  BY <1>3 DEF NewEvent, SealedEvent
<1>5. NewEvent(i).content = ContentOf(i)
  BY DEF NewEvent, SealedEvent
<1>6. Contents(events)' = Append(Contents(events), ContentOf(i))
  <2>1. \A k \in 1..n : events[k].content \in Content
    <3>1. \A k \in 1..n : events[k] \in Event(Content)
      BY <1>1 DEF TypeOK
    <3>2. QED BY <3>1 DEF Event
  <2>2. ContentOf(i) \in Content
    BY DEF ContentOf, Content, TypeOK
  <2>3. Contents(events) \in Seq(Content) /\ Len(Contents(events)) = n
        /\ \A k \in 1..n : Contents(events)[k] = events[k].content
    BY <1>1, <2>1 DEF Contents
  <2>4. Contents(events)' = [k \in 1..(n + 1) |-> events'[k].content]
    BY <1>1 DEF Contents
  <2>5. \A k \in 1..(n + 1) : events'[k].content =
            IF k \in 1..n THEN events[k].content ELSE ContentOf(i)
    BY <1>1, <1>5
  <2> DEFINE c == Contents(events)
             d == ContentOf(i)
             e == Contents(events)'
  <2>6. e \in Seq(Content) /\ Len(e) = n + 1
    BY <2>1, <2>2, <2>4, <2>5
  <2>7. Append(c, d) \in Seq(Content) /\ Len(Append(c, d)) = n + 1
        /\ (\A k \in 1..n : Append(c, d)[k] = c[k]) /\ Append(c, d)[n + 1] = d
    <3> HIDE DEF c, d
    <3>1. c \in Seq(Content) /\ Len(c) = n /\ d \in Content
      BY <2>2, <2>3 DEF c, d
    <3>2. QED BY <3>1, AppendProperties
  <2>8. \A k \in 1..(n + 1) : e[k] = Append(c, d)[k]
    <3>1. TAKE k \in 1..(n + 1)
    <3>2. e[k] = events'[k].content
      BY <2>4
    <3>3. \A h \in 1..n : c[h] = events[h].content
      BY <2>3
    <3>4. events'[k].content = IF k \in 1..n THEN events[k].content ELSE d
      BY <2>5
    <3> HIDE DEF c, d, e
    <3>5. CASE k \in 1..n
      BY <2>7, <3>2, <3>3, <3>4, <3>5
    <3>6. CASE k = n + 1 /\ k \notin 1..n
      BY <2>7, <3>2, <3>4, <3>6
    <3>7. k \in 1..n \/ (k = n + 1 /\ k \notin 1..n)
      OBVIOUS
    <3>8. QED BY <3>5, <3>6, <3>7
  <2>9. QED
    <3> HIDE DEF c, d, e
    <3>1. e = Append(c, d)
      BY <2>6, <2>7, <2>8, SeqEqual
    <3>2. QED BY <3>1 DEF c, d, e
<1>7. QED BY <1>4, <1>6 DEF HeadCommitsToHistory

LEMMA ChainNext ==
  ASSUME OneEmitter
  PROVE  TypeOK /\ LockOrder /\ MutualExclusion /\ ChainInv /\ [Next]_vars => ChainInv'
<1> SUFFICES ASSUME TypeOK, LockOrder, MutualExclusion, ChainInv, [Next]_vars
             PROVE  ChainInv'
  OBVIOUS
<1>1. Linked /\ HeadCommitsToHistory /\ HeadIsFresh
  BY DEF ChainInv
<1>2. CASE events' = events
  <2>1. Linked' /\ HeadCommitsToHistory'
    BY <1>1, <1>2 DEF Linked, HeadCommitsToHistory, LatestHash, Contents
  <2>2. LatestHash(events)' = LatestHash(events)
    BY <1>2 DEF LatestHash
  <2>3. HeadIsFresh'
    BY <1>1, <2>2, HeadStep DEF HeadIsFresh
  <2>4. QED BY <2>1, <2>3 DEF ChainInv
<1>3. ASSUME NEW i \in EmitId, Writes(i) PROVE ChainInv'
  <2>1. pc[i] = "appending" /\ previousHash[i] = LatestHash(events)
    BY <1>1, <1>3 DEF Writes, HeadIsFresh
  <2>2. HeadCommitsToHistory'
    BY <1>1, <1>3, <2>1, SealedAppend
  <2>3. PICK n \in Nat :
          /\ Len(events) = n /\ DOMAIN events = 1..n /\ DOMAIN events' = 1..(n + 1)
          /\ events'[n + 1] = NewEvent(i)
          /\ \A k \in 1..n : events'[k] = events[k]
    BY <1>3, AppendedStore
  <2>4. Linked'
    <3>1. SUFFICES ASSUME NEW k \in 1..(n + 1)
                   PROVE  /\ events'[k] = SealedEvent(events'[k].previousHash,
                                                      events'[k].content)
                          /\ events'[k].previousHash =
                               IF k = 1 THEN Null ELSE events'[k - 1].eventHash
      BY <2>3 DEF Linked, VerifyChainLink
    <3>2. CASE k \in 1..n
      <4>1. k # 1 => k - 1 \in 1..n
        BY <3>2
      <4>2. QED BY <1>1, <2>3, <3>2, <4>1 DEF Linked, VerifyChainLink
    <3>3. CASE k = n + 1
      <4>1. events'[k] = SealedEvent(LatestHash(events), ContentOf(i))
        BY <2>1, <2>3, <3>3 DEF NewEvent
      <4>2. /\ events'[k].previousHash = LatestHash(events)
            /\ events'[k].content = ContentOf(i)
        BY <4>1 DEF SealedEvent
      <4>3. CASE n = 0
        <5>1. events = <<>>
          BY <2>3, <4>3 DEF TypeOK
        <5>2. QED BY <4>1, <4>2, <5>1, <3>3, <4>3 DEF LatestHash
      <4>4. CASE n # 0
        <5>1. events # <<>> /\ n \in 1..n
          BY <2>3, <4>4
        <5>2. LatestHash(events) = events'[k - 1].eventHash
          BY <2>3, <3>3, <5>1 DEF LatestHash
        <5>3. QED BY <4>1, <4>2, <5>2, <3>3, <4>4
      <4>5. QED BY <4>3, <4>4
    <3>4. QED BY <3>2, <3>3
  <2>5. HeadIsFresh'
    <3>1. SUFFICES ASSUME NEW j \in EmitId, pc'[j] \in {"building", "appending"}
                   PROVE  FALSE
      BY DEF HeadIsFresh
    <3>2. j # i
      BY <1>3, <3>1 DEF Writes, TypeOK
    <3>3. pc[j] \in Holding /\ pc[i] \in Holding
      BY <1>3, <2>1, <3>1, <3>2 DEF Writes, TypeOK, Holding
    <3>4. by[i] = by[j]
      BY OneEmitter DEF TypeOK, OneEmitter
    <3>5. QED BY <3>2, <3>3, <3>4 DEF MutualExclusion
  <2>6. QED BY <2>2, <2>4, <2>5 DEF ChainInv
<1>4. QED
  BY <1>2, <1>3, StoreStep DEF Quiet

LEMMA ChainCorrect ==
  ASSUME OneEmitter PROVE Spec => []ChainInv
BY TypeInit, TypeNext, LockInit, LockNext, LockExcludes, ChainInit, ChainNext, PTL DEF Spec

\* The store of a single emitter passes verifyChain in every reachable state,
\* for any number of calls, listeners, failures and lost answers of the store.
THEOREM SingleEmitterChainValid ==
  ASSUME OneEmitter PROVE Spec => []ChainIsValid
<1>1. TypeOK /\ ChainInv => ChainIsValid
  <2>1. SUFFICES ASSUME TypeOK, Linked, NEW k \in 1..Len(events)
                 PROVE  EventVerifies(events, k)
    BY DEF ChainInv, ChainIsValid, ChainVerifies, BrokenPositions
  <2>2. k \in DOMAIN events
    BY <2>1 DEF TypeOK
  <2>3. /\ events[k] = SealedEvent(events[k].previousHash, events[k].content)
        /\ VerifyChainLink(events, k)
    BY <2>1, <2>2 DEF Linked
  <2>4. QED
    BY <2>3 DEF EventVerifies, VerifyEventHash, VerifyEventHash3, SealedEvent,
                ComputeEventHash, ComputeEventHash3
<1>2. QED BY <1>1, TypeInit, TypeNext, ChainCorrect, PTL DEF Spec

\* The latest hash of a single emitter's store commits to its whole history.
THEOREM SingleEmitterHeadCommits ==
  ASSUME OneEmitter PROVE Spec => []HeadCommitsToHistory
BY ChainCorrect, PTL DEF ChainInv

-----------------------------------------------------------------------------
(***************************************************************************)
(* Refinement.                                                             *)
(***************************************************************************)
LEMMA RecordedInLog ==
  ASSUME TypeOK, HeadCommitsToHistory
  PROVE  Log!RecordedIds = {EventIdAt(k) : k \in DOMAIN events}
<1>1. PICK n \in Nat : Len(events) = n /\ DOMAIN events = 1..n
  BY DEF TypeOK
<1>2. DOMAIN Contents(events) = 1..n
      /\ \A k \in 1..n : Contents(events)[k].eventId = EventIdAt(k)
  BY <1>1 DEF Contents, EventIdAt
<1>3. Log!RecordedIds = {Contents(events)[k].eventId : k \in DOMAIN Contents(events)}
  BY DEF Log!RecordedIds, HeadCommitsToHistory
<1>4. QED BY <1>1, <1>2, <1>3

\* Acknowledgements are only ever added, and only for accepted calls.
LEMMA AcknowledgeStep ==
  ASSUME TypeOK, LockOrder, [Next]_vars
  PROVE  \/ Acknowledged' = Acknowledged
         \/ /\ events' = events
            /\ \E i \in EmitId : Accepted(i) /\ Acknowledged' = Acknowledged \cup {i}
<1> USE DEF TypeOK, lockVars, buildVars, notifyVars, Acknowledged
<1>1. ASSUME NEW m \in Emitter, NEW r \in Request, StartEmit(m, r),
             pc' = [pc EXCEPT ![calls + 1] = "waiting"]
      PROVE  Acknowledged' = Acknowledged
  <2>1. calls + 1 \in EmitId /\ pc[calls + 1] = "idle"
    BY <1>1, StartEmitType DEF LockOrder, CallsCounted, EmitId
  <2>2. QED BY <1>1, <2>1
<1>2. CASE \E m \in Emitter, r \in Request : Emit(m, r)
  BY <1>1, <1>2 DEF Emit
<1>3. CASE \E j \in EmitId, r \in Request : ListenerEmits(j, r)
  BY <1>1, <1>3 DEF ListenerEmits
<1>4. ASSUME NEW j \in EmitId, AcquireLock(j) \/ ReadLatestHash(j) \/ BuildEvent(j)
      PROVE  Acknowledged' = Acknowledged
  BY <1>4 DEF AcquireLock, ReadLatestHash, BuildEvent
<1>5. ASSUME NEW j \in EmitId,
             SigningFails(j) \/ StoreFails(j) \/ AppendEvent(j) \/ AppendUncertain(j)
      PROVE  Acknowledged' = Acknowledged
  BY <1>5 DEF SigningFails, StoreFails, AppendEvent, AppendUncertain
<1>6. ASSUME NEW j \in EmitId, CallListener(j) \/ ListenerSettles(j)
      PROVE  Acknowledged' = Acknowledged
  BY <1>6 DEF CallListener, ListenerSettles
<1>7. ASSUME NEW j \in EmitId, Return(j)
      PROVE  events' = events /\ Accepted(j) /\ Acknowledged' = Acknowledged \cup {j}
  BY <1>7 DEF Return, Accepted
<1>8. CASE \E m \in Emitter, l \in Listener : AddListener(m, l) \/ RemoveListener(m, l)
  BY <1>8 DEF AddListener, RemoveListener
<1>9. CASE UNCHANGED vars
  BY <1>9 DEF vars
<1>10. QED
  BY <1>2, <1>3, <1>4, <1>5, <1>6, <1>7, <1>8, <1>9 DEF Next, Proceed

LEMMA LogInit == Init => Log!Init
BY DEF Init, Log!Init, LatestHash, Null, Acknowledged

LEMMA LogStep ==
  ASSUME OneEmitter
  PROVE  TypeOK /\ LockOrder /\ StoreInv /\ ChainInv /\ [Next]_vars
         => [Log!Next]_<<LatestHash(events), Acknowledged>>
<1> SUFFICES ASSUME TypeOK, LockOrder, StoreInv, ChainInv, [Next]_vars
             PROVE  [Log!Next]_<<LatestHash(events), Acknowledged>>
  OBVIOUS
<1>1. /\ StoredOnceIfAccepted /\ HeadCommitsToHistory /\ HeadIsFresh
      /\ Log!RecordedIds = {EventIdAt(k) : k \in DOMAIN events}
  BY RecordedInLog DEF StoreInv, ChainInv
<1>2. ASSUME NEW i \in EmitId, Writes(i) PROVE Log!Next
  <2>1. pc[i] = "appending" /\ previousHash[i] = LatestHash(events)
    BY <1>1, <1>2 DEF Writes, HeadIsFresh
  <2>2. LatestHash(events)' = Append(LatestHash(events), ContentOf(i))
    BY <1>1, <1>2, <2>1, SealedAppend
  <2>3. i \notin Log!RecordedIds
    BY <1>1, <2>1 DEF StoredOnceIfAccepted, Accepted
  <2>4. ContentOf(i) \in Content /\ ContentOf(i).eventId = i
    BY DEF ContentOf, Content, TypeOK
  <2>5. Acknowledged' = Acknowledged
    BY <1>2 DEF Writes, Acknowledged, TypeOK
  <2>6. Log!Record(ContentOf(i))
    BY <2>2, <2>3, <2>4, <2>5 DEF Log!Record
  <2>7. QED BY <2>4, <2>6 DEF Log!Next
<1>3. CASE events' = events
  <2>1. LatestHash(events)' = LatestHash(events)
    BY <1>3 DEF LatestHash
  <2>2. CASE Acknowledged' = Acknowledged
    BY <2>1, <2>2
  <2>3. CASE \E i \in EmitId : Accepted(i) /\ Acknowledged' = Acknowledged \cup {i}
    <3>1. PICK i \in EmitId : Accepted(i) /\ Acknowledged' = Acknowledged \cup {i}
      BY <2>3
    <3>2. PICK k \in DOMAIN events : events[k] = NewEvent(i)
      BY <1>1, <3>1 DEF StoredOnceIfAccepted
    <3>3. i \in Log!RecordedIds
      BY <1>1, <3>2 DEF EventIdAt, NewEvent, SealedEvent, ContentOf
    <3>4. Log!Acknowledge(i)
      BY <2>1, <3>1, <3>3 DEF Log!Acknowledge
    <3>5. QED BY <3>3, <3>4 DEF Log!Next
  <2>4. QED BY <2>2, <2>3, AcknowledgeStep
<1>4. QED
  BY <1>2, <1>3, StoreStep DEF Quiet

\* A proof plane with one emitter implements the abstract proof log: its head
\* digest only grows by one fresh event at a time, and emit() only returns for
\* an event that the head commits to.
THEOREM EmitterImplementsProofLog ==
  ASSUME OneEmitter PROVE Spec => ImplementsProofLog
BY TypeInit, TypeNext, LockInit, LockNext, StoreInit, StoreNext, ChainCorrect,
   LogInit, LogStep, PTL DEF Spec, ImplementsProofLog, Log!Spec

-----------------------------------------------------------------------------
(***************************************************************************)
(* Delivery.  What a listener was handed is not newer than any call that   *)
(* has not settled, and the lock is given away in call order.              *)
(***************************************************************************)
DeliveredBefore ==
  \A l \in Listener : \A k \in DOMAIN delivered[l] : \A i \in EmitId :
    pc[i] \notin Settled => delivered[l][k] <= i

HandedOver == DeliveryFollowsChain /\ DeliveredBefore

LEMMA DeliveredStep ==
  ASSUME [Next]_vars
  PROVE  \/ delivered' = delivered
         \/ \E i \in EmitId : CallListener(i)
<1> USE DEF vars, notifyVars
<1>1. ASSUME NEW i \in EmitId, Proceed(i), ~ CallListener(i) PROVE delivered' = delivered
  BY <1>1 DEF Proceed, AcquireLock, ReadLatestHash, BuildEvent, SigningFails, AppendEvent,
     StoreFails, AppendUncertain, ListenerSettles, Return
<1>2. QED BY <1>1 DEF Next, Emit, ListenerEmits, AddListener, RemoveListener

\* A call that has settled stays settled.
LEMMA SettledForGood ==
  ASSUME TypeOK, LockOrder, [Next]_vars, NEW i \in EmitId, pc'[i] \notin Settled
  PROVE  pc[i] \notin Settled
<1>1. pc \in [EmitId -> Phase]
  BY DEF TypeOK
<1>2. ASSUME NEW m \in Emitter, Starts(m) PROVE pc[i] \notin Settled
  <2>1. calls + 1 \in EmitId
    BY <1>2, ParameterTypes DEF Starts, TypeOK, EmitId
  <2>2. pc[calls + 1] = "idle"
    BY <2>1, ParameterTypes DEF LockOrder, CallsCounted, TypeOK
  <2>3. QED BY <1>1, <1>2, <2>2 DEF Starts, Settled
<1>3. ASSUME NEW j \in EmitId, Grants(j) \/ MovesOn(j) PROVE pc[i] \notin Settled
  BY <1>1, <1>3 DEF Grants, MovesOn, Settled, Holding
<1>4. QED BY <1>2, <1>3, LockStep

LEMMA HandedOverNext ==
  ASSUME OneEmitter
  PROVE  TypeOK /\ LockOrder /\ HandedOver /\ [Next]_vars => HandedOver'
<1> SUFFICES ASSUME TypeOK, LockOrder, HandedOver, [Next]_vars PROVE HandedOver'
  OBVIOUS
<1>1. CASE delivered' = delivered
  BY <1>1, SettledForGood DEF HandedOver, DeliveryFollowsChain, DeliveredBefore
<1>2. ASSUME NEW i \in EmitId, CallListener(i) PROVE HandedOver'
  <2> DEFINE l == listeners[by[i]][cursor[i]]
  <2>1. /\ pc[i] = "notifying" /\ pc' = [pc EXCEPT ![i] = "listening"]
        /\ delivered' = [delivered EXCEPT ![l] = Append(@, i)]
    BY <1>2 DEF CallListener
  <2>2. delivered \in [Listener -> Seq(EmitId)] /\ \A j \in EmitId : j \in Nat
    BY DEF TypeOK, EmitId
  <2> HIDE DEF l
  <2>3. \A j \in EmitId : pc[j] \notin Settled => i <= j
    <3>1. SUFFICES ASSUME NEW j \in EmitId, j < i PROVE pc[j] \in Settled
      BY <2>2
    <3>2. i \in 1..calls /\ j \in 1..(i - 1)
      BY <2>1, <2>2, <3>1, ParameterTypes DEF LockOrder, CallsCounted, TypeOK, EmitId
    <3>3. by[j] = by[i]
      BY OneEmitter DEF TypeOK, OneEmitter
    <3>4. QED BY <2>1, <3>2, <3>3 DEF LockOrder, GrantedInOrder
  <2>4. \A j \in EmitId : pc'[j] \notin Settled => pc[j] \notin Settled
    BY SettledForGood
  <2>5. ASSUME NEW h \in Listener, NEW k \in DOMAIN delivered'[h]
        PROVE  \/ k \in DOMAIN delivered[h] /\ delivered'[h][k] = delivered[h][k]
               \/ h = l /\ k = Len(delivered[h]) + 1 /\ delivered'[h][k] = i
    <3>1. delivered[h] \in Seq(EmitId)
      BY <2>2
    <3>2. CASE h = l
      <4>1. delivered'[h] = Append(delivered[h], i)
        BY <2>1, <2>2, <3>2
      <4>2. k \in 1..(Len(delivered[h]) + 1)
        BY <3>1, <4>1
      <4>3. QED BY <3>1, <3>2, <4>1, <4>2
    <3>3. CASE h # l
      BY <2>1, <2>2, <3>3
    <3>4. QED BY <3>2, <3>3
  <2>6. DeliveredBefore'
    BY <2>3, <2>4, <2>5 DEF HandedOver, DeliveredBefore
  <2>7. DeliveryFollowsChain'
    <3>1. SUFFICES ASSUME NEW h \in Listener,
                          NEW j \in DOMAIN delivered'[h], NEW k \in DOMAIN delivered'[h], j <= k
                   PROVE  delivered'[h][j] <= delivered'[h][k]
      BY DEF DeliveryFollowsChain
    <3>2. delivered[h] \in Seq(EmitId)
      BY <2>2
    <3>3. CASE k \in DOMAIN delivered[h] /\ delivered'[h][k] = delivered[h][k]
      <4>1. j \in DOMAIN delivered[h] /\ delivered'[h][j] = delivered[h][j]
        BY <2>5, <3>1, <3>2, <3>3
      <4>2. QED BY <3>1, <3>3, <4>1 DEF HandedOver, DeliveryFollowsChain
    <3>4. CASE delivered'[h][k] = i
      <4>1. CASE j \in DOMAIN delivered[h] /\ delivered'[h][j] = delivered[h][j]
        BY <2>1, <3>4, <4>1 DEF HandedOver, DeliveredBefore, Settled
      <4>2. CASE delivered'[h][j] = i
        BY <2>2, <3>4, <4>2
      <4>3. QED BY <2>5, <4>1, <4>2
    <3>5. QED BY <2>5, <3>3, <3>4
  <2>8. QED BY <2>6, <2>7 DEF HandedOver
<1>3. QED BY <1>1, <1>2, DeliveredStep

\* With one emitter, a listener is never handed an older event after a newer one,
\* however the listeners come and go while an event is handed out.
THEOREM SingleEmitterDeliveryOrder ==
  ASSUME OneEmitter PROVE Spec => []DeliveryFollowsChain
<1>1. Init => HandedOver
  BY DEF Init, HandedOver, DeliveryFollowsChain, DeliveredBefore
<1>2. HandedOver => DeliveryFollowsChain
  BY DEF HandedOver
<1>3. QED BY <1>1, <1>2, HandedOverNext, TypeCorrect, LockCorrect, PTL DEF Spec

-----------------------------------------------------------------------------
(***************************************************************************)
(* EventDelivery.  Whom the walk of an event has not told yet and not left *)
(* behind is still ahead of it in the listener list.                       *)
(***************************************************************************)
Early == {"idle", "waiting", "reading", "building", "appending"}

Ahead(i, l) ==
  \E p \in DOMAIN listeners[by[i]] : p >= NextPlace(i) /\ listeners[by[i]][p] = l

Reached(i) ==
  /\ pc[i] \in Early => cursor[i] = 1
  /\ Walking(i) =>
       /\ audience[i] \subseteq Subscribed(by[i])
       /\ \A l \in audience[i] \ overtaken[i] : Told(i, l) \/ Ahead(i, l)
  /\ pc[i] = "returned" => \A l \in audience[i] \ overtaken[i] : Told(i, l) /\ l \in Listener

AllReached == \A i \in EmitId : Reached(i)

\* What a listener was told it has been told for good.
LEMMA ToldForGood ==
  ASSUME TypeOK, [Next]_vars, NEW i, NEW l \in Listener, Told(i, l)
  PROVE  Told(i, l)'
<1>1. CASE delivered' = delivered
  BY <1>1 DEF Told
<1>2. ASSUME NEW j \in EmitId, CallListener(j) PROVE Told(i, l)'
  <2>1. PICK h : delivered' = [delivered EXCEPT ![h] = Append(delivered[h], j)]
    BY <1>2 DEF CallListener
  <2>2. delivered \in [Listener -> Seq(EmitId)] /\ delivered[l] \in Seq(EmitId)
    BY DEF TypeOK
  <2>3. delivered'[l] = delivered[l] \/ delivered'[l] = Append(delivered[l], j)
    BY <2>1, <2>2
  <2>4. PICK k \in DOMAIN delivered[l] : delivered[l][k] = i
    BY DEF Told, Range
  <2>5. k \in DOMAIN delivered'[l] /\ delivered'[l][k] = i
    <3>1. CASE delivered'[l] = delivered[l]
      BY <2>4, <3>1
    <3>2. CASE delivered'[l] = Append(delivered[l], j)
      <4> DEFINE s == delivered[l]
      <4>1. s \in Seq(EmitId) /\ k \in DOMAIN s /\ s[k] = i
        BY <2>2, <2>4
      <4> HIDE DEF s
      <4>2. k \in DOMAIN Append(s, j) /\ Append(s, j)[k] = i
        BY <1>2, <4>1
      <4>3. QED BY <3>2, <4>2 DEF s
    <3>3. QED BY <2>3, <3>1, <3>2
  <2>6. QED BY <2>5 DEF Told, Range
<1>3. QED BY <1>1, <1>2, DeliveredStep

\* A step of the emitter as call i sees it.
LEMMA WalkStep ==
  ASSUME TypeOK, LockOrder, Next, NEW i \in EmitId
  PROVE  \/ /\ pc'[i] = pc[i] /\ cursor'[i] = cursor[i] /\ by'[i] = by[i]
            /\ listeners'[by[i]] = listeners[by[i]]
         \/ /\ pc[i] \in Early /\ pc'[i] \in Early \cup {"rejected"}
            /\ cursor'[i] = cursor[i] /\ listeners' = listeners
         \/ AppendEvent(i)
         \/ CallListener(i)
         \/ ListenerSettles(i)
         \/ Return(i)
         \/ \E l \in Listener : AddListener(by[i], l) \/ RemoveListener(by[i], l)
<1> USE DEF lockVars, buildVars, notifyVars
<1>1. /\ pc \in [EmitId -> Phase] /\ cursor \in [EmitId -> Nat \ {0}]
      /\ by \in [EmitId -> Emitter] /\ listeners \in [Emitter -> Seq(Listener)]
  BY DEF TypeOK
<1>2. ASSUME NEW m \in Emitter, NEW r \in Request, StartEmit(m, r),
             pc' = [pc EXCEPT ![calls + 1] = "waiting"], cursor' = cursor, listeners' = listeners
      PROVE  \/ pc'[i] = pc[i] /\ by'[i] = by[i]
             \/ pc[i] \in Early /\ pc'[i] \in Early
  <2>1. calls + 1 \in EmitId /\ pc[calls + 1] = "idle"
    BY <1>2, ParameterTypes DEF StartEmit, TypeOK, EmitId, LockOrder, CallsCounted
  <2>2. CASE i = calls + 1
    BY <1>1, <1>2, <2>1, <2>2 DEF Early
  <2>3. CASE i # calls + 1
    BY <1>1, <1>2, <2>1, <2>3 DEF StartEmit
  <2>4. QED BY <2>2, <2>3
<1>3. ASSUME NEW m \in Emitter, NEW r \in Request, Emit(m, r)
      PROVE  \/ pc'[i] = pc[i] /\ by'[i] = by[i] /\ cursor' = cursor /\ listeners' = listeners
             \/ /\ pc[i] \in Early /\ pc'[i] \in Early
                /\ cursor' = cursor /\ listeners' = listeners
  BY <1>2, <1>3 DEF Emit
<1>4. ASSUME NEW j \in EmitId, NEW r \in Request, ListenerEmits(j, r)
      PROVE  \/ pc'[i] = pc[i] /\ by'[i] = by[i] /\ cursor' = cursor /\ listeners' = listeners
             \/ /\ pc[i] \in Early /\ pc'[i] \in Early
                /\ cursor' = cursor /\ listeners' = listeners
  BY <1>1, <1>2, <1>4 DEF ListenerEmits
<1>5. ASSUME NEW j \in EmitId, j # i, Proceed(j)
      PROVE  pc'[i] = pc[i] /\ by'[i] = by[i] /\ cursor'[i] = cursor[i] /\ listeners' = listeners
  BY <1>1, <1>5 DEF Proceed, AcquireLock, ReadLatestHash, BuildEvent, SigningFails, AppendEvent,
     StoreFails, AppendUncertain, CallListener, ListenerSettles, Return
<1>6. ASSUME AcquireLock(i) \/ ReadLatestHash(i) \/ BuildEvent(i) \/ SigningFails(i)
               \/ StoreFails(i) \/ AppendUncertain(i)
      PROVE  /\ pc[i] \in Early /\ pc'[i] \in Early \cup {"rejected"}
             /\ cursor'[i] = cursor[i] /\ listeners' = listeners
  BY <1>1, <1>6 DEF AcquireLock, ReadLatestHash, BuildEvent, SigningFails, StoreFails,
     AppendUncertain, Early
<1>7. ASSUME NEW m \in Emitter, NEW l \in Listener, m # by[i],
             AddListener(m, l) \/ RemoveListener(m, l)
      PROVE  /\ pc'[i] = pc[i] /\ by'[i] = by[i] /\ cursor'[i] = cursor[i]
             /\ listeners'[by[i]] = listeners[by[i]]
  BY <1>1, <1>7 DEF AddListener, RemoveListener
<1>8. CASE \E j \in EmitId : Proceed(j)
  BY <1>5, <1>6, <1>8 DEF Proceed
<1>9. CASE \E m \in Emitter, l \in Listener : AddListener(m, l) \/ RemoveListener(m, l)
  BY <1>7, <1>9
<1>10. QED BY <1>3, <1>4, <1>8, <1>9 DEF Next

\* t is s without its first l, at place r: what was behind it is moved up.
Spliced(s, l, r, t) ==
  /\ Len(s) \in Nat /\ DOMAIN s = 1..Len(s)
  /\ r \in 1..Len(s) /\ s[r] = l /\ \A j \in 1..(r - 1) : s[j] # l
  /\ DOMAIN t = 1..(Len(s) - 1)
  /\ \A p \in 1..(r - 1) : t[p] = s[p]
  /\ \A p \in r..(Len(s) - 1) : t[p] = s[p + 1]

\* What indexOf and splice leave of a list.
LEMMA RemovedPlaces ==
  ASSUME NEW s \in Seq(Listener), NEW l, \E k \in DOMAIN s : s[k] = l
  PROVE  Spliced(s, l, FirstIndex(s, l), RemoveAt(s, FirstIndex(s, l)))
<1>0. PICK r, n, t : r = FirstIndex(s, l) /\ n = Len(s) /\ t = RemoveAt(s, r)
  OBVIOUS
<1>1. n \in Nat /\ DOMAIN s = 1..n
  BY <1>0
<1>2. r \in 1..n /\ s[r] = l /\ \A j \in 1..n : s[j] = l => r <= j
  <2> DEFINE K == {k \in 1..n : s[k] = l}
  <2>1. K \subseteq Nat /\ K # {}
    BY <1>1
  <2>2. \E m \in K : \A k \in K : m <= k
    <3> HIDE DEF K
    <3> QED BY <2>1, LeastNat
  <2>3. \E m \in DOMAIN s : s[m] = l /\ \A j \in DOMAIN s : s[j] = l => m <= j
    BY <1>1, <2>2
  <2>4. QED BY <1>0, <1>1, <2>3 DEF FirstIndex
<1>3. \A j \in 1..(r - 1) : s[j] # l
  BY <1>1, <1>2
<1> DEFINE a == SubSeq(s, 1, r - 1)
           b == SubSeq(s, r + 1, n)
<1>4. a \in Seq(Listener) /\ Len(a) = r - 1 /\ \A p \in 1..(r - 1) : a[p] = s[p]
  BY <1>1, <1>2, SubSeqProperties
<1>5. b \in Seq(Listener) /\ Len(b) = n - r /\ \A p \in 1..(n - r) : b[p] = s[r + p]
  BY <1>1, <1>2, SubSeqProperties
<1>6. t = a \o b
  BY <1>0 DEF RemoveAt
<1> HIDE DEF a, b
<1>7. /\ DOMAIN t = 1..(n - 1)
      /\ \A p \in 1..(n - 1) : t[p] = IF p <= r - 1 THEN a[p] ELSE b[p - (r - 1)]
  <2>1. /\ t \in Seq(Listener) /\ Len(t) = Len(a) + Len(b)
        /\ \A p \in 1..(Len(a) + Len(b)) : t[p] = IF p <= Len(a) THEN a[p] ELSE b[p - Len(a)]
    <3>1. a \in Seq(Listener) /\ b \in Seq(Listener)
      BY <1>4, <1>5
    <3>2. QED BY ONLY <1>6, <3>1, ConcatProperties
  <2>2. Len(a) + Len(b) = n - 1
    BY <1>1, <1>2, <1>4, <1>5
  <2>3. QED BY <1>4, <2>1, <2>2
<1>8. \A p \in 1..(r - 1) : t[p] = s[p]
  BY <1>1, <1>2, <1>4, <1>7
<1>9. \A p \in r..(n - 1) : t[p] = s[p + 1]
  <2>1. TAKE p \in r..(n - 1)
  <2>2. p \in 1..(n - 1) /\ ~ (p <= r - 1) /\ p - (r - 1) \in 1..(n - r)
          /\ r + (p - (r - 1)) = p + 1
    BY <1>1, <1>2
  <2>3. t[p] = b[p - (r - 1)] /\ b[p - (r - 1)] = s[r + (p - (r - 1))]
    BY <1>5, <1>7, <2>2
  <2>4. QED BY <2>2, <2>3
<1>10. Spliced(s, l, r, t)
  BY <1>0, <1>1, <1>2, <1>3, <1>7, <1>8, <1>9 DEF Spliced
<1>11. QED BY <1>0, <1>10

\* A listener ahead of a place stays ahead of it when another place is spliced
\* out, unless it is the next one and moves up behind it.
LEMMA AheadOfSplice ==
  ASSUME NEW s \in Seq(Listener), NEW h, \E k \in DOMAIN s : s[k] = h,
         NEW t, t = RemoveAt(s, FirstIndex(s, h)),
         NEW next \in Nat, NEW p \in DOMAIN s, p >= next,
         s[p] \in Range(t),
         next \in DOMAIN s /\ s[next] = s[p] => next \in DOMAIN t /\ t[next] = s[next]
  PROVE  \E q \in DOMAIN t : q >= next /\ t[q] = s[p]
<1>0. PICK r, n : r = FirstIndex(s, h) /\ n = Len(s)
  OBVIOUS
<1>1. /\ n \in Nat /\ DOMAIN s = 1..n /\ r \in 1..n
      /\ s[r] = h /\ \A j \in 1..(r - 1) : s[j] # h
      /\ DOMAIN t = 1..(n - 1)
      /\ \A q \in 1..(r - 1) : t[q] = s[q]
      /\ \A q \in r..(n - 1) : t[q] = s[q + 1]
  <2>1. Spliced(s, h, r, t)
    BY <1>0, RemovedPlaces
  <2>2. QED BY <1>0, <2>1 DEF Spliced
<1>2. CASE p = next
  BY <1>1, <1>2
<1>3. CASE p # next /\ p < r
  BY <1>1, <1>3
<1>4. CASE p # next /\ p > r
  <2>1. p - 1 \in r..(n - 1) /\ p - 1 >= next /\ (p - 1) + 1 = p
    BY <1>1, <1>4
  <2>2. t[p - 1] = s[p] /\ p - 1 \in DOMAIN t
    BY <1>1, <2>1
  <2>3. QED BY <2>1, <2>2
<1>5. CASE p # next /\ p = r
  <2>1. PICK q \in DOMAIN t : t[q] = s[p]
    BY DEF Range
  <2>2. q \notin 1..(r - 1)
    BY <1>1, <1>5, <2>1
  <2>3. q >= r
    BY <1>1, <2>1, <2>2
  <2>4. QED BY <1>1, <1>5, <2>1, <2>3
<1>6. QED BY <1>1, <1>2, <1>3, <1>4, <1>5

\* A step that keeps the walk of call i at its place: who was ahead is so still
\* or has been left behind.
LEMMA ReachedStep ==
  ASSUME TypeOK, LockOrder, AllReached, DeliveryNext, NEW i \in EmitId
  PROVE  Reached(i)'
<1>0. Next /\ [Next]_vars
  BY DEF DeliveryNext
<1>1. /\ pc \in [EmitId -> Phase] /\ cursor \in [EmitId -> Nat \ {0}]
      /\ by \in [EmitId -> Emitter] /\ listeners \in [Emitter -> Seq(Listener)]
      /\ by[i] \in Emitter /\ listeners[by[i]] \in Seq(Listener) /\ Reached(i)
      /\ cursor[i] \in Nat
  BY DEF TypeOK, AllReached
<1>2. audience'[i] = AudienceOf(i) /\ overtaken'[i] = overtaken[i] \cup Displaced(i)
  BY DEF DeliveryNext
<1>3. \A l \in Subscribed(by[i]) : Told(i, l) => Told(i, l)'
  <2>1. Subscribed(by[i]) \subseteq Listener
    BY <1>1 DEF Subscribed, Range
  <2>2. QED BY <1>0, <2>1, ToldForGood
\* The audience shrinks and those left behind become more.
<1>4. ASSUME Walking(i)
      PROVE  /\ audience'[i] = audience[i] \cap Subscribed(by[i])'
             /\ audience[i] \subseteq Subscribed(by[i])
             /\ \A l \in audience'[i] \ overtaken'[i] :
                  /\ l \in audience[i] \ overtaken[i] /\ l \notin Displaced(i)
                  /\ l \in Subscribed(by[i])'
                  /\ Told(i, l)' \/ Ahead(i, l)
  <2>1. audience'[i] = audience[i] \cap Subscribed(by[i])'
    BY <1>2, <1>4 DEF AudienceOf, Walking
  <2>2. audience[i] \subseteq Subscribed(by[i])
    BY <1>1, <1>4 DEF Reached
  <2>3. ASSUME NEW l \in audience'[i] \ overtaken'[i]
        PROVE  /\ l \in audience[i] \ overtaken[i] /\ l \notin Displaced(i)
               /\ l \in Subscribed(by[i])'
               /\ Told(i, l)' \/ Ahead(i, l)
    <3>1. /\ l \in audience[i] \ overtaken[i] /\ l \notin Displaced(i)
          /\ l \in Subscribed(by[i])'
      BY <1>2, <2>1, <2>3
    <3>2. Told(i, l) \/ Ahead(i, l)
      BY <1>1, <1>4, <3>1 DEF Reached
    <3>3. QED BY <1>3, <2>2, <3>1, <3>2
  <2>4. QED BY <2>1, <2>2, <2>3
\* A walking call that keeps walking: only who is ahead is to be looked at.
<1>5. ASSUME Walking(i), Walking(i)', by'[i] = by[i],
             \A l \in audience'[i] \ overtaken'[i] : Ahead(i, l) => Told(i, l)' \/ Ahead(i, l)'
      PROVE  Reached(i)'
  BY <1>4, <1>5 DEF Reached, Walking, Early
<1>6. CASE /\ pc'[i] = pc[i] /\ cursor'[i] = cursor[i] /\ by'[i] = by[i]
           /\ listeners'[by[i]] = listeners[by[i]]
  <2>1. CASE Walking(i)
    BY <1>5, <1>6, <2>1 DEF Walking, Ahead, NextPlace
  <2>2. CASE pc[i] = "returned"
    <3>1. audience'[i] = audience[i] /\ overtaken'[i] = overtaken[i]
      BY <1>2, <2>2 DEF AudienceOf, Walking, Displaced
    <3>2. \A l \in audience[i] \ overtaken[i] : Told(i, l) /\ l \in Listener
      BY <1>1, <2>2 DEF Reached
    <3>3. \A l \in Listener : Told(i, l) => Told(i, l)'
      BY <1>0, ToldForGood
    <3>4. QED BY <1>6, <2>2, <3>1, <3>2, <3>3 DEF Reached, Walking, Early
  <2>3. CASE pc[i] \in Early \cup {"rejected"}
    BY <1>1, <1>6, <2>3 DEF Reached, Walking, Early
  <2>4. QED BY <1>1, <2>1, <2>2, <2>3 DEF Walking, Early, Phase, Holding, Settled
<1>7. CASE /\ pc[i] \in Early /\ pc'[i] \in Early \cup {"rejected"}
           /\ cursor'[i] = cursor[i] /\ listeners' = listeners
  BY <1>1, <1>7 DEF Reached, Walking, Early
<1>8. CASE AppendEvent(i)
  <2>1. /\ pc[i] = "appending" /\ pc'[i] = "notifying" /\ by' = by
        /\ listeners' = listeners /\ cursor' = cursor /\ cursor[i] = 1
    BY <1>1, <1>8 DEF AppendEvent, lockVars, notifyVars, Reached, Early
  <2>2. audience'[i] = Subscribed(by[i])
    BY <1>2, <2>1 DEF AudienceOf, Walking
  <2>3. \A l \in Subscribed(by[i]) : Ahead(i, l)'
    <3>1. TAKE l \in Subscribed(by[i])
    <3>2. PICK p \in DOMAIN listeners[by[i]] : listeners[by[i]][p] = l
      BY DEF Subscribed, Range
    <3>3. p >= 1
      BY <1>1, <3>2
    <3>4. NextPlace(i)' = 1
      BY <2>1 DEF NextPlace
    <3>5. QED BY <2>1, <3>2, <3>3, <3>4 DEF Ahead
  <2>4. QED BY <2>1, <2>2, <2>3 DEF Reached, Walking, Early, Subscribed
<1>9. CASE CallListener(i)
  <2>0. PICK h : h = listeners[by[i]][cursor[i]]
    OBVIOUS
  <2>1. /\ pc[i] = "notifying" /\ pc'[i] = "listening" /\ by' = by
        /\ listeners' = listeners /\ cursor' = cursor
        /\ cursor[i] <= Len(listeners[by[i]])
        /\ delivered' = [delivered EXCEPT ![h] = Append(delivered[h], i)]
    BY <1>1, <1>9, <2>0 DEF CallListener, lockVars
  <2>2. Told(i, h)'
    <3>1. h \in Listener
      <4>1. cursor[i] \in 1..Len(listeners[by[i]])
        BY <1>1, <2>1
      <4>2. QED BY <1>1, <2>0, <4>1
    <3>2. delivered \in [Listener -> Seq(EmitId)] /\ delivered[h] \in Seq(EmitId)
      BY <3>1 DEF TypeOK
    <3>3. delivered'[h] = Append(delivered[h], i)
      BY <2>1, <3>1, <3>2
    <3> DEFINE d == delivered[h]
    <3>4. d \in Seq(EmitId)
      BY <3>2
    <3> HIDE DEF d
    <3>5. Len(d) + 1 \in DOMAIN Append(d, i) /\ Append(d, i)[Len(d) + 1] = i
      BY <3>4
    <3>6. QED BY <3>3, <3>5 DEF Told, Range, d
  <2>3. ASSUME NEW l, Ahead(i, l) PROVE Told(i, l)' \/ Ahead(i, l)'
    <3>1. PICK p \in DOMAIN listeners[by[i]] : p >= cursor[i] /\ listeners[by[i]][p] = l
      BY <2>1, <2>3 DEF Ahead, NextPlace
    <3>2. CASE p = cursor[i]
      BY <2>0, <2>2, <3>1, <3>2
    <3>3. CASE p # cursor[i]
      <4>1. p >= cursor[i] + 1
        BY <1>1, <3>1, <3>3
      <4>2. QED BY <2>1, <3>1, <4>1 DEF Ahead, NextPlace
    <3>4. QED BY <3>2, <3>3
  <2>4. QED BY <1>5, <2>1, <2>3 DEF Walking
<1>10. CASE ListenerSettles(i)
  <2>1. /\ pc[i] = "listening" /\ pc'[i] = "notifying" /\ by' = by
        /\ listeners' = listeners /\ cursor'[i] = cursor[i] + 1
    BY <1>1, <1>10 DEF ListenerSettles, lockVars
  <2>2. QED BY <1>5, <2>1 DEF Walking, Ahead, NextPlace
<1>11. CASE Return(i)
  <2>1. /\ pc[i] = "notifying" /\ pc'[i] = "returned" /\ by' = by
        /\ listeners' = listeners /\ cursor[i] > Len(listeners[by[i]])
    BY <1>1, <1>11 DEF Return, lockVars, notifyVars
  <2>2. \A l : ~ Ahead(i, l)
    BY <1>1, <2>1 DEF Ahead, NextPlace
  <2>3. Subscribed(by[i]) \subseteq Listener
    BY <1>1 DEF Subscribed, Range
  <2>4. QED BY <1>4, <2>1, <2>2, <2>3 DEF Reached, Walking, Early
<1>12. ASSUME NEW h \in Listener, AddListener(by[i], h) PROVE Reached(i)'
  <2> DEFINE s == listeners[by[i]]
  <2>1. /\ pc' = pc /\ by' = by /\ cursor' = cursor
        /\ listeners'[by[i]] = Append(s, h)
    BY <1>1, <1>12 DEF AddListener, lockVars
  <2>2. s \in Seq(Listener)
    BY <1>1
  <2> HIDE DEF s
  <2>3. \A p \in DOMAIN s : p \in DOMAIN Append(s, h) /\ Append(s, h)[p] = s[p]
    BY <2>2
  <2>4. \A l : Ahead(i, l) => Ahead(i, l)'
    BY <2>1, <2>3 DEF Ahead, NextPlace, s
  <2>5. CASE Walking(i)
    BY <1>5, <2>1, <2>4, <2>5 DEF Walking
  <2>6. CASE pc[i] = "returned"
    <3>1. audience'[i] = audience[i] /\ overtaken'[i] = overtaken[i]
      BY <1>2, <2>6 DEF AudienceOf, Walking, Displaced
    <3>2. delivered' = delivered
      BY <1>12 DEF AddListener
    <3>3. QED BY <1>1, <2>1, <2>6, <3>1, <3>2 DEF Reached, Walking, Early, Told
  <2>7. CASE pc[i] \in Early \cup {"rejected"}
    BY <1>1, <2>1, <2>7 DEF Reached, Walking, Early
  <2>8. QED BY <1>1, <2>5, <2>6, <2>7 DEF Walking, Early, Phase, Holding, Settled
<1>13. ASSUME NEW h \in Listener, RemoveListener(by[i], h) PROVE Reached(i)'
  <2> DEFINE s == listeners[by[i]]
             t == listeners'[by[i]]
             n == NextPlace(i)
  <2>1. /\ pc' = pc /\ by' = by /\ cursor' = cursor
        /\ t = RemoveAt(s, FirstIndex(s, h))
        /\ \E k \in DOMAIN s : s[k] = h
    BY <1>1, <1>13 DEF RemoveListener, lockVars
  <2>2. s \in Seq(Listener) /\ n \in Nat
    BY <1>1 DEF NextPlace
  <2>3. CASE Walking(i)
    <3>1. SUFFICES ASSUME NEW l \in audience'[i] \ overtaken'[i], Ahead(i, l)
                   PROVE  Ahead(i, l)'
      BY <1>5, <2>1, <2>3 DEF Walking
    <3>2. PICK p \in DOMAIN s : p >= n /\ s[p] = l
      BY <3>1 DEF Ahead
    <3>3. l \in Range(t) /\ l \notin Displaced(i)
      BY <1>4, <2>1, <2>3, <3>1 DEF Subscribed
    <3>4. n \in DOMAIN s /\ s[n] = l => n \in DOMAIN t /\ t[n] = s[n]
      BY <2>1, <2>3, <3>3 DEF Displaced
    <3> HIDE DEF s, t, n
    <3>5. \E q \in DOMAIN t : q >= n /\ t[q] = s[p]
      BY <2>1, <2>2, <3>2, <3>3, <3>4, AheadOfSplice
    <3>6. NextPlace(i)' = n
      BY <2>1 DEF NextPlace, n
    <3>7. QED BY <2>1, <3>2, <3>5, <3>6 DEF Ahead, t
  <2>4. CASE pc[i] = "returned"
    <3>1. audience'[i] = audience[i] /\ overtaken'[i] = overtaken[i]
      BY <1>2, <2>4 DEF AudienceOf, Walking, Displaced
    <3>2. delivered' = delivered
      BY <1>13 DEF RemoveListener
    <3>3. QED BY <1>1, <2>1, <2>4, <3>1, <3>2 DEF Reached, Walking, Early, Told
  <2>5. CASE pc[i] \in Early \cup {"rejected"}
    BY <1>1, <2>1, <2>5 DEF Reached, Walking, Early
  <2>6. QED BY <1>1, <2>3, <2>4, <2>5 DEF Walking, Early, Phase, Holding, Settled
<1>14. QED
  BY <1>0, <1>6, <1>7, <1>8, <1>9, <1>10, <1>11, <1>12, <1>13, WalkStep

\* notifyListeners, subscribe() and the function it returns, with any number of
\* emitters and listeners: whoever stays subscribed from before an event is stored
\* until its emit() returns hears of it, unless a splice moved it behind the walk.
THEOREM StayingSubscribersAreTold == DeliverySpec => []SubscribersAreTold
<1>1. DeliveryInit => TypeOK /\ LockOrder /\ AllReached
  <2>1. DeliveryInit => AllReached
    BY DEF DeliveryInit, Init, AllReached, Reached, Walking
  <2>2. QED BY <2>1, TypeInit, LockInit DEF DeliveryInit
<1>2. /\ TypeOK /\ LockOrder /\ AllReached /\ [DeliveryNext]_deliveryVars
      => (TypeOK /\ LockOrder /\ AllReached)'
  <2>1. SUFFICES ASSUME TypeOK, LockOrder, AllReached, [DeliveryNext]_deliveryVars
                 PROVE  (TypeOK /\ LockOrder /\ AllReached)'
    OBVIOUS
  <2>2. [Next]_vars
    BY <2>1 DEF DeliveryNext, deliveryVars
  <2>3. TypeOK' /\ LockOrder'
    BY <2>1, <2>2, TypeNext, LockNext
  <2>4. CASE DeliveryNext
    <3>1. AllReached'
      BY <2>1, <2>4, ReachedStep DEF AllReached
    <3>2. QED BY <2>3, <3>1
  <2>5. CASE UNCHANGED deliveryVars
    <3>1. /\ UNCHANGED <<by, pc, cursor, listeners, delivered>>
          /\ UNCHANGED <<audience, overtaken>>
      BY <2>5 DEF deliveryVars, vars, lockVars, notifyVars
    <3>2. AllReached'
      BY <2>1, <3>1 DEF AllReached, Reached, Walking, Ahead, NextPlace, Told, Subscribed
    <3>3. QED BY <2>3, <3>2
  <2>6. QED BY <2>1, <2>4, <2>5
<1>3. TypeOK /\ LockOrder /\ AllReached => SubscribersAreTold
  BY DEF AllReached, Reached, SubscribersAreTold
<1>4. QED BY <1>1, <1>2, <1>3, PTL DEF DeliverySpec

-----------------------------------------------------------------------------
(***************************************************************************)
(* EmitBatch.  What a batch has gathered of its first k requests.          *)
(***************************************************************************)
Gathered(s, k) ==
  /\ s \in BatchState
  /\ Len(s.sent) <= Len(s.requests)
  /\ \A n \in DOMAIN s.sent :
       /\ s.sent[n] <= calls /\ request[s.sent[n]] = s.requests[n]
       /\ by[s.sent[n]] = by[s.sent[1]]
  /\ \A m, n \in DOMAIN s.sent : m < n => s.sent[m] < s.sent[n]
  /\ k \in 0..Len(s.sent)
  /\ Len(s.results) + Len(s.errors) = k
  /\ Range(s.results) \cup Range(s.errors) = {s.sent[n] : n \in 1..k}
  /\ \A n \in DOMAIN s.results : pc[s.results[n]] = "returned"
  /\ \A n \in DOMAIN s.errors : pc[s.errors[n]] = "rejected"
  /\ \A m, n \in DOMAIN s.results : m < n => s.results[m] < s.results[n]

\* A batch that was told to stop has at most the last request's error.
StopsAtError(s) == s.stopOnError /\ s.errors # <<>> => s.errors = <<Last(s.sent)>>

BatchOK(s) ==
  \/ s.step = "idle" /\ s = NoBatch
  \/ /\ s.step = "running" /\ s.sent # <<>> /\ Gathered(s, Len(s.sent) - 1)
     /\ s.stopOnError => s.errors = <<>>
  \/ /\ s.step = "done" /\ Gathered(s, Len(s.sent)) /\ StopsAtError(s)
     /\ ~ (s.stopOnError /\ s.errors # <<>>) => Len(s.sent) = Len(s.requests)

BatchesOK == \A b \in Batch : \A s \in {batch[b]} : BatchOK(s)

BatchTypeOK == batch \in [Batch -> BatchState]

\* Calls that were made keep their request and emitter, and their outcome.
LEMMA CallsKept ==
  ASSUME TypeOK, LockOrder, [Next]_vars
  PROVE  /\ calls' \in Nat /\ calls <= calls'
         /\ \A i \in EmitId : i <= calls => request'[i] = request[i] /\ by'[i] = by[i]
         /\ \A i \in EmitId : pc[i] \in Settled => pc'[i] = pc[i]
<1>1. /\ pc \in [EmitId -> Phase] /\ by \in [EmitId -> Emitter]
      /\ request \in [EmitId -> Request] /\ calls \in Nat
  BY ParameterTypes DEF TypeOK
<1>2. /\ calls' \in Nat /\ calls <= calls'
      /\ \A i \in EmitId : i <= calls => request'[i] = request[i] /\ by'[i] = by[i]
  <2>1. CASE UNCHANGED <<calls, request, by>>
    BY <1>1, <2>1
  <2>2. ASSUME NEW m, NEW r, StartEmit(m, r)
        PROVE  /\ calls' \in Nat /\ calls <= calls'
               /\ \A i \in EmitId : i <= calls => request'[i] = request[i] /\ by'[i] = by[i]
    BY <1>1, <2>2 DEF StartEmit, EmitId
  <2>3. ASSUME NEW i \in EmitId, Proceed(i) PROVE UNCHANGED <<calls, request, by>>
    BY <2>3 DEF Proceed, AcquireLock, ReadLatestHash, BuildEvent, SigningFails, AppendEvent,
       StoreFails, AppendUncertain, CallListener, ListenerSettles, Return, lockVars
  <2>4. QED
    BY <2>1, <2>2, <2>3 DEF Next, Emit, ListenerEmits, AddListener, RemoveListener, lockVars, vars
<1>3. ASSUME NEW i \in EmitId, pc[i] \in Settled PROVE pc'[i] = pc[i]
  <2>1. ASSUME NEW m \in Emitter, Starts(m) PROVE pc'[i] = pc[i]
    <3>1. calls + 1 \in EmitId
      BY <2>1, ParameterTypes DEF Starts, TypeOK, EmitId
    <3>2. pc[calls + 1] = "idle"
      BY <3>1, ParameterTypes DEF LockOrder, CallsCounted, TypeOK
    <3>3. QED BY <1>1, <1>3, <2>1, <3>2 DEF Starts, Settled
  <2>2. ASSUME NEW j \in EmitId, Grants(j) \/ MovesOn(j) PROVE pc'[i] = pc[i]
    BY <1>1, <1>3, <2>2 DEF Grants, MovesOn, Settled, Holding
  <2>3. QED BY <2>1, <2>2, LockStep
<1>4. QED BY <1>2, <1>3

\* A step of the emitter leaves what a batch has gathered.
LEMMA GatheredKept ==
  ASSUME TypeOK, LockOrder, [Next]_vars, NEW s, NEW k, Gathered(s, k)
  PROVE  Gathered(s, k)'
<1>1. /\ s.sent \in Seq(EmitId) /\ s.results \in Seq(EmitId) /\ s.errors \in Seq(EmitId)
  BY DEF Gathered, BatchState
<1>2. /\ \A n \in DOMAIN s.sent : s.sent[n] \in EmitId
      /\ \A n \in DOMAIN s.results : s.results[n] \in EmitId
      /\ \A n \in DOMAIN s.errors : s.errors[n] \in EmitId
      /\ \A n \in DOMAIN s.sent : 1 \in DOMAIN s.sent
  BY <1>1
<1>3. /\ calls \in Nat /\ calls' \in Nat /\ calls <= calls'
      /\ \A i \in EmitId : i \in Nat
      /\ \A i \in EmitId : i <= calls => request'[i] = request[i] /\ by'[i] = by[i]
      /\ \A i \in EmitId : pc[i] \in Settled => pc'[i] = pc[i]
  <2>1. calls \in Nat /\ \A i \in EmitId : i \in Nat
    BY ParameterTypes DEF TypeOK, EmitId
  <2>2. QED BY <2>1, CallsKept
<1>4. \A n \in DOMAIN s.sent :
        /\ s.sent[n] <= calls' /\ request'[s.sent[n]] = s.requests[n]
        /\ by'[s.sent[n]] = by'[s.sent[1]]
  BY <1>2, <1>3 DEF Gathered
<1>5. /\ \A n \in DOMAIN s.results : pc'[s.results[n]] = "returned"
      /\ \A n \in DOMAIN s.errors : pc'[s.errors[n]] = "rejected"
  BY <1>2, <1>3 DEF Gathered, Settled
<1>6. QED BY <1>4, <1>5 DEF Gathered

LEMMA BatchKept ==
  ASSUME TypeOK, LockOrder, [Next]_vars, NEW s, BatchOK(s)
  PROVE  BatchOK(s)'
BY GatheredKept DEF BatchOK, StopsAtError

LEMMA RangeAppended ==
  ASSUME NEW S, NEW s \in Seq(S), NEW x \in S
  PROVE  Range(Append(s, x)) = Range(s) \cup {x}
<1>1. /\ DOMAIN Append(s, x) = 1..(Len(s) + 1) /\ DOMAIN s = 1..Len(s) /\ Len(s) \in Nat
      /\ \A k \in 1..Len(s) : Append(s, x)[k] = s[k]
      /\ Append(s, x)[Len(s) + 1] = x
  OBVIOUS
<1>2. \A k \in 1..(Len(s) + 1) : k \in 1..Len(s) \/ k = Len(s) + 1
  BY <1>1
<1>3. 1..Len(s) \subseteq 1..(Len(s) + 1) /\ Len(s) + 1 \in 1..(Len(s) + 1)
  BY <1>1
<1>4. QED BY <1>1, <1>2, <1>3 DEF Range

\* The loop has gathered all it has sent, and sends the next request.
LEMMA Sending ==
  ASSUME TypeOK, LockOrder, NEW m \in Emitter, NEW s, s.step = "running",
         Gathered(s, Len(s.sent)), s.sent # <<>> => by[s.sent[1]] = m,
         s.stopOnError => s.errors = <<>>, Len(s.sent) # Len(s.requests),
         Emit(m, s.requests[Len(s.sent) + 1]),
         NEW t, t = [s EXCEPT !.sent = Append(@, calls + 1)]
  PROVE  BatchOK(t)' /\ t \in BatchState
<1> DEFINE n == Len(s.sent)
           c == calls + 1
           q == Append(s.sent, c)
<1>1. /\ s \in BatchState /\ s.sent \in Seq(EmitId) /\ s.requests \in Seq(Request)
      /\ n \in Nat /\ n < Len(s.requests) /\ Len(s.requests) \in Nat
      /\ DOMAIN s.sent = 1..n
  BY DEF Gathered, BatchState
<1>2. s.requests[n + 1] \in Request
  BY <1>1
<1>3. [Next]_vars
  BY <1>2 DEF Next
<1>4. /\ calls \in Nat /\ c \in EmitId /\ c \in Nat /\ c > calls /\ calls' = c
      /\ request'[c] = s.requests[n + 1] /\ by'[c] = m
  BY ParameterTypes DEF Emit, StartEmit, TypeOK, EmitId
<1>5. Gathered(s, n)'
  BY <1>3, GatheredKept
<1>6. s.sent # <<>> => by'[s.sent[1]] = m
  <2>1. SUFFICES ASSUME s.sent # <<>> PROVE by'[s.sent[1]] = m
    OBVIOUS
  <2>2. 1 \in DOMAIN s.sent /\ s.sent[1] \in EmitId /\ s.sent[1] <= calls
    BY <1>1, <2>1 DEF Gathered
  <2>3. QED BY <1>3, <2>1, <2>2, CallsKept
<1> HIDE DEF n, c
<1>7. \A k \in 1..n : s.sent[k] \in EmitId /\ s.sent[k] \in Nat /\ s.sent[k] <= calls
  <2>1. \A k \in 1..n : s.sent[k] <= calls
    BY <1>1 DEF Gathered
  <2>2. \A k \in 1..n : s.sent[k] \in EmitId
    BY <1>1
  <2>3. EmitId \subseteq Nat
    BY DEF EmitId
  <2>4. QED BY <2>1, <2>2, <2>3
<1>8. /\ q \in Seq(EmitId) /\ Len(q) = n + 1 /\ DOMAIN q = 1..(n + 1)
      /\ \A k \in 1..n : q[k] = s.sent[k]
      /\ q[n + 1] = c
  BY <1>1, <1>4 DEF n
<1> HIDE DEF q
<1>9. /\ t \in BatchState /\ t.step = "running" /\ t.sent = q /\ t.requests = s.requests
      /\ t.results = s.results /\ t.errors = s.errors /\ t.stopOnError = s.stopOnError
  BY <1>1, <1>8 DEF BatchState, q, c
<1>10. \A k \in 1..(n + 1) : k \in 1..n \/ k = n + 1
  BY <1>1
<1>11. \A k \in DOMAIN q :
         q[k] <= calls' /\ request'[q[k]] = s.requests[k] /\ by'[q[k]] = m
  <2>2. ASSUME NEW k \in 1..n
        PROVE  q[k] <= calls' /\ request'[q[k]] = s.requests[k] /\ by'[q[k]] = m
    <3>1. q[k] = s.sent[k] /\ s.sent # <<>>
      BY <1>1, <1>8
    <3>2. s.sent[k] <= calls' /\ request'[s.sent[k]] = s.requests[k]
            /\ by'[s.sent[k]] = by'[s.sent[1]]
      BY <1>1, <1>5 DEF Gathered
    <3>3. QED BY <1>6, <3>1, <3>2
  <2>3. q[n + 1] <= calls' /\ request'[q[n + 1]] = s.requests[n + 1] /\ by'[q[n + 1]] = m
    BY <1>4, <1>8
  <2>4. QED BY <1>8, <1>10, <2>2, <2>3
<1>12. \A j, k \in DOMAIN q : j < k => q[j] < q[k]
  <2>1. SUFFICES ASSUME NEW j \in 1..(n + 1), NEW k \in 1..(n + 1), j < k PROVE q[j] < q[k]
    BY <1>8
  <2>2. j \in 1..n
    BY <1>1, <2>1
  <2>3. CASE k \in 1..n
    BY <1>1, <1>8, <2>1, <2>2, <2>3 DEF Gathered
  <2>4. CASE k = n + 1
    <3>1. s.sent[j] < c
      BY <1>4, <1>7, <2>2
    <3>2. QED BY <1>8, <2>2, <2>4, <3>1
  <2>5. QED BY <1>10, <2>3, <2>4
<1>13. Gathered(t, n)'
  <2>1. {q[k] : k \in 1..n} = {s.sent[k] : k \in 1..n}
    BY <1>8
  <2>2. n \in 0..Len(q) /\ Len(q) <= Len(s.requests) /\ 1 \in DOMAIN q
    BY <1>1, <1>8
  <2>3. by'[q[1]] = m
    BY <1>11, <2>2
  <2>4. Len(s.results) + Len(s.errors) = n /\ Len(t.sent) = n + 1
    BY <1>8, <1>9 DEF Gathered, n
  <2>5. Range(s.results) \cup Range(s.errors) = {s.sent[k] : k \in 1..n}
    BY DEF Gathered, n
  <2>6. /\ \A k \in DOMAIN s.results : pc'[s.results[k]] = "returned"
        /\ \A k \in DOMAIN s.errors : pc'[s.errors[k]] = "rejected"
        /\ \A j, k \in DOMAIN s.results : j < k => s.results[j] < s.results[k]
    BY <1>5 DEF Gathered
  <2>7. Range(t.results) \cup Range(t.errors) = {t.sent[k] : k \in 1..n}
    BY <1>9, <2>1, <2>5
  <2>8. \A k \in DOMAIN t.sent :
          /\ t.sent[k] <= calls' /\ request'[t.sent[k]] = t.requests[k]
          /\ by'[t.sent[k]] = by'[t.sent[1]]
    BY <1>9, <1>11, <2>3
  <2>9. /\ \A k \in DOMAIN t.results : pc'[t.results[k]] = "returned"
        /\ \A k \in DOMAIN t.errors : pc'[t.errors[k]] = "rejected"
        /\ \A j, k \in DOMAIN t.results : j < k => t.results[j] < t.results[k]
        /\ \A j, k \in DOMAIN t.sent : j < k => t.sent[j] < t.sent[k]
        /\ t \in BatchState /\ Len(t.sent) <= Len(t.requests) /\ n \in 0..Len(t.sent)
        /\ Len(t.results) + Len(t.errors) = n
    BY <1>9, <1>12, <2>2, <2>4, <2>6
  <2>10. QED BY <2>7, <2>8, <2>9 DEF Gathered
<1>14. q # <<>> /\ Len(q) - 1 = n
  BY <1>1, <1>8
<1>15. QED BY <1>9, <1>13, <1>14 DEF BatchOK

\* The awaited call has settled; its result or its error is gathered.
LEMMA Collecting ==
  ASSUME TypeOK, NEW s, s.step = "running", BatchOK(s),
         NEW i, i = Last(s.sent), pc[i] \in Settled, NEW t, t = Collect(s, i)
  PROVE  /\ t.step = "running" /\ Gathered(t, Len(t.sent)) /\ StopsAtError(t)
         /\ t.sent = s.sent /\ i \in EmitId /\ by[s.sent[1]] = by[i] /\ s.sent # <<>>
<1> DEFINE n == Len(s.sent)
<1>1. /\ s.sent # <<>> /\ Gathered(s, n - 1) /\ s \in BatchState
      /\ s.stopOnError => s.errors = <<>>
  BY DEF BatchOK, Gathered
<1>2. /\ s.sent \in Seq(EmitId) /\ s.results \in Seq(EmitId) /\ s.errors \in Seq(EmitId)
      /\ n \in Nat /\ n >= 1 /\ DOMAIN s.sent = 1..n /\ i = s.sent[n] /\ i \in EmitId
  BY <1>1 DEF BatchState, Last
<1> HIDE DEF n
<1>3. /\ Len(s.results) + Len(s.errors) = n - 1
      /\ Range(s.results) \cup Range(s.errors) = {s.sent[k] : k \in 1..(n - 1)}
  BY <1>1 DEF Gathered
<1>4. {s.sent[k] : k \in 1..n} = {s.sent[k] : k \in 1..(n - 1)} \cup {i}
  <2>1. \A k \in 1..n : k \in 1..(n - 1) \/ k = n
    BY <1>2
  <2>2. 1..(n - 1) \subseteq 1..n /\ n \in 1..n
    BY <1>2
  <2>3. QED BY <1>2, <2>1, <2>2
<1>5. \A k \in DOMAIN s.results : s.results[k] < i
  <2>1. TAKE k \in DOMAIN s.results
  <2>2. s.results[k] \in {s.sent[j] : j \in 1..(n - 1)}
    BY <1>3 DEF Range
  <2>3. PICK j \in 1..(n - 1) : s.results[k] = s.sent[j]
    BY <2>2
  <2>4. j < n /\ j \in DOMAIN s.sent /\ n \in DOMAIN s.sent
    BY <1>2
  <2>5. s.sent[j] < s.sent[n]
    BY <1>1, <2>4 DEF Gathered
  <2>6. QED BY <1>2, <2>3, <2>5
<1>6. by[s.sent[1]] = by[i]
  BY <1>1, <1>2 DEF Gathered
\* What is the same of s and of t.
<1>7. ASSUME t \in BatchState, t.sent = s.sent, t.requests = s.requests
      PROVE  /\ Len(t.sent) = n /\ Len(t.sent) <= Len(t.requests) /\ n \in 0..n
             /\ \A k \in DOMAIN t.sent :
                  /\ t.sent[k] <= calls /\ request[t.sent[k]] = t.requests[k]
                  /\ by[t.sent[k]] = by[t.sent[1]]
             /\ \A j, k \in DOMAIN t.sent : j < k => t.sent[j] < t.sent[k]
  <2>1. Len(s.sent) <= Len(s.requests) /\ Len(s.sent) = n /\ n \in 0..n
    BY <1>1, <1>2 DEF Gathered, n
  <2>2. /\ \A k \in DOMAIN s.sent :
             /\ s.sent[k] <= calls /\ request[s.sent[k]] = s.requests[k]
             /\ by[s.sent[k]] = by[s.sent[1]]
        /\ \A j, k \in DOMAIN s.sent : j < k => s.sent[j] < s.sent[k]
    BY <1>1 DEF Gathered
  <2>3. QED BY <1>7, <2>1, <2>2
<1>8. CASE pc[i] = "returned"
  <2> DEFINE q == Append(s.results, i)
  <2>1. t = [s EXCEPT !.results = q]
    BY <1>8 DEF Collect
  <2>2. /\ q \in Seq(EmitId) /\ Len(q) = Len(s.results) + 1
        /\ DOMAIN q = 1..(Len(s.results) + 1) /\ DOMAIN s.results = 1..Len(s.results)
        /\ \A k \in 1..Len(s.results) : q[k] = s.results[k]
        /\ q[Len(s.results) + 1] = i
        /\ Range(q) = Range(s.results) \cup {i}
        /\ Len(s.results) \in Nat /\ Len(s.errors) \in Nat
    BY <1>2, RangeAppended
  <2> HIDE DEF q
  <2>3. /\ t \in BatchState /\ t.step = "running" /\ t.sent = s.sent /\ t.requests = s.requests
        /\ t.results = q /\ t.errors = s.errors /\ t.stopOnError = s.stopOnError
    BY <1>1, <2>1, <2>2 DEF BatchState
  <2>4. Len(t.results) + Len(t.errors) = n
    <3>1. Len(q) + Len(s.errors) = n
      <4>1. n \in Nat /\ Len(s.results) + Len(s.errors) = n - 1
        BY <1>2, <1>3
      <4>2. Len(q) = Len(s.results) + 1 /\ Len(s.results) \in Nat /\ Len(s.errors) \in Nat
        BY <2>2
      <4> DEFINE a == Len(s.results)
                 b == Len(s.errors)
                 c == Len(q)
      <4> HIDE DEF a, b, c
      <4>3. a \in Nat /\ b \in Nat /\ c = a + 1 /\ a + b = n - 1
        BY <4>1, <4>2 DEF a, b, c
      <4>4. c + b = n
        BY <4>1, <4>3
      <4>5. QED BY <4>4 DEF b, c
    <3>2. QED BY <2>3, <3>1
  <2>5. Range(t.results) \cup Range(t.errors) = {t.sent[k] : k \in 1..n}
    <3>1. Range(q) \cup Range(s.errors) = {s.sent[k] : k \in 1..n}
      BY <1>3, <1>4, <2>2
    <3>2. QED BY <2>3, <3>1
  <2>6. \A k \in DOMAIN q : \/ k \in DOMAIN s.results /\ q[k] = s.results[k]
                            \/ k = Len(s.results) + 1 /\ q[k] = i
    <3>1. \A k \in 1..(Len(s.results) + 1) : k \in 1..Len(s.results) \/ k = Len(s.results) + 1
      BY <2>2
    <3>2. QED BY <2>2, <3>1
  <2>7. /\ \A k \in DOMAIN t.results : pc[t.results[k]] = "returned"
        /\ \A k \in DOMAIN t.errors : pc[t.errors[k]] = "rejected"
    BY <1>1, <1>8, <2>3, <2>6 DEF Gathered
  <2>8. \A j, k \in DOMAIN t.results : j < k => t.results[j] < t.results[k]
    <3>1. SUFFICES ASSUME NEW j \in DOMAIN q, NEW k \in DOMAIN q, j < k PROVE q[j] < q[k]
      BY <2>3
    <3>2. j \in DOMAIN s.results /\ q[j] = s.results[j]
      BY <2>2, <2>6, <3>1
    <3>3. CASE k \in DOMAIN s.results /\ q[k] = s.results[k]
      BY <1>1, <3>1, <3>2, <3>3 DEF Gathered
    <3>4. CASE q[k] = i
      BY <1>5, <3>2, <3>4
    <3>5. QED BY <2>6, <3>3, <3>4
  <2>9. Gathered(t, Len(t.sent))
    BY <1>7, <2>3, <2>4, <2>5, <2>7, <2>8 DEF Gathered
  <2>10. QED BY <1>1, <1>2, <1>6, <2>3, <2>9 DEF StopsAtError
<1>9. CASE pc[i] # "returned"
  <2> DEFINE q == Append(s.errors, i)
  <2>1. t = [s EXCEPT !.errors = q] /\ pc[i] = "rejected"
    BY <1>9 DEF Collect, Settled
  <2>2. /\ q \in Seq(EmitId) /\ Len(q) = Len(s.errors) + 1
        /\ DOMAIN q = 1..(Len(s.errors) + 1) /\ DOMAIN s.errors = 1..Len(s.errors)
        /\ \A k \in 1..Len(s.errors) : q[k] = s.errors[k]
        /\ q[Len(s.errors) + 1] = i
        /\ Range(q) = Range(s.errors) \cup {i}
        /\ Len(s.results) \in Nat /\ Len(s.errors) \in Nat
    BY <1>2, RangeAppended
  <2>e. s.errors = <<>> => q = <<i>>
    BY <1>2
  <2> HIDE DEF q
  <2>3. /\ t \in BatchState /\ t.step = "running" /\ t.sent = s.sent /\ t.requests = s.requests
        /\ t.results = s.results /\ t.errors = q /\ t.stopOnError = s.stopOnError
    BY <1>1, <2>1, <2>2 DEF BatchState
  <2>4. Len(t.results) + Len(t.errors) = n
    <3>1. Len(s.results) + Len(q) = n
      <4>1. n \in Nat /\ Len(s.results) + Len(s.errors) = n - 1
        BY <1>2, <1>3
      <4>2. Len(q) = Len(s.errors) + 1 /\ Len(s.results) \in Nat /\ Len(s.errors) \in Nat
        BY <2>2
      <4> DEFINE a == Len(s.results)
                 b == Len(s.errors)
                 c == Len(q)
      <4> HIDE DEF a, b, c
      <4>3. a \in Nat /\ b \in Nat /\ c = b + 1 /\ a + b = n - 1
        BY <4>1, <4>2 DEF a, b, c
      <4>4. a + c = n
        BY <4>1, <4>3
      <4>5. QED BY <4>4 DEF a, c
    <3>2. QED BY <2>3, <3>1
  <2>5. Range(t.results) \cup Range(t.errors) = {t.sent[k] : k \in 1..n}
    <3>1. Range(s.results) \cup Range(q) = {s.sent[k] : k \in 1..n}
      BY <1>3, <1>4, <2>2
    <3>2. QED BY <2>3, <3>1
  <2>6. \A k \in DOMAIN q : (k \in DOMAIN s.errors /\ q[k] = s.errors[k]) \/ q[k] = i
    <3>1. \A k \in 1..(Len(s.errors) + 1) : k \in 1..Len(s.errors) \/ k = Len(s.errors) + 1
      BY <2>2
    <3>2. QED BY <2>2, <3>1
  <2>7. /\ \A k \in DOMAIN t.results : pc[t.results[k]] = "returned"
        /\ \A k \in DOMAIN t.errors : pc[t.errors[k]] = "rejected"
        /\ \A j, k \in DOMAIN t.results : j < k => t.results[j] < t.results[k]
    BY <1>1, <2>1, <2>3, <2>6 DEF Gathered
  <2>8. Gathered(t, Len(t.sent))
    BY <1>7, <2>3, <2>4, <2>5, <2>7 DEF Gathered
  <2>9. StopsAtError(t)
    BY <1>1, <2>e, <2>3 DEF StopsAtError
  <2>10. QED BY <1>1, <1>2, <1>6, <2>3, <2>8, <2>9
<1>10. QED BY <1>8, <1>9

\* The loop is over.
LEMMA Finishing ==
  ASSUME NEW s, NEW t, t = [s EXCEPT !.step = "done"],
         Gathered(s, Len(s.sent)), StopsAtError(s),
         ~ (s.stopOnError /\ s.errors # <<>>) => Len(s.sent) = Len(s.requests)
  PROVE  BatchOK(t) /\ t \in BatchState
<1>1. s \in BatchState
  BY DEF Gathered
<1>2. /\ t \in BatchState /\ t.step = "done" /\ t.requests = s.requests /\ t.sent = s.sent
      /\ t.results = s.results /\ t.errors = s.errors /\ t.stopOnError = s.stopOnError
  BY <1>1 DEF BatchState
<1>3. Gathered(t, Len(t.sent))
  <2>1. /\ Len(s.sent) <= Len(s.requests) /\ Len(s.sent) \in 0..Len(s.sent)
        /\ Len(s.results) + Len(s.errors) = Len(s.sent)
        /\ Range(s.results) \cup Range(s.errors) = {s.sent[n] : n \in 1..Len(s.sent)}
    BY DEF Gathered
  <2>2. /\ \A n \in DOMAIN s.sent :
             /\ s.sent[n] <= calls /\ request[s.sent[n]] = s.requests[n]
             /\ by[s.sent[n]] = by[s.sent[1]]
        /\ \A m, n \in DOMAIN s.sent : m < n => s.sent[m] < s.sent[n]
    BY DEF Gathered
  <2>3. /\ \A n \in DOMAIN s.results : pc[s.results[n]] = "returned"
        /\ \A n \in DOMAIN s.errors : pc[s.errors[n]] = "rejected"
        /\ \A m, n \in DOMAIN s.results : m < n => s.results[m] < s.results[n]
    BY DEF Gathered
  <2>4. /\ Len(t.sent) <= Len(t.requests) /\ Len(t.sent) \in 0..Len(t.sent)
        /\ Len(t.results) + Len(t.errors) = Len(t.sent)
        /\ Range(t.results) \cup Range(t.errors) = {t.sent[n] : n \in 1..Len(t.sent)}
    BY <1>2, <2>1
  <2>5. /\ \A n \in DOMAIN t.sent :
             /\ t.sent[n] <= calls /\ request[t.sent[n]] = t.requests[n]
             /\ by[t.sent[n]] = by[t.sent[1]]
        /\ \A m, n \in DOMAIN t.sent : m < n => t.sent[m] < t.sent[n]
    BY <1>2, <2>2
  <2>6. /\ \A n \in DOMAIN t.results : pc[t.results[n]] = "returned"
        /\ \A n \in DOMAIN t.errors : pc[t.errors[n]] = "rejected"
        /\ \A m, n \in DOMAIN t.results : m < n => t.results[m] < t.results[n]
    BY <1>2, <2>3
  <2>7. QED BY <1>2, <2>4, <2>5, <2>6 DEF Gathered
<1>4. QED BY <1>2, <1>3 DEF BatchOK, StopsAtError

BatchInv == TypeOK /\ LockOrder /\ StoreInv /\ BatchTypeOK /\ BatchesOK

\* What the loop does with a batch that has gathered all it sent.
LEMMA Looping ==
  ASSUME BatchInv, NEW b \in Batch, NEW m \in Emitter, NEW s, s.step = "running",
         Gathered(s, Len(s.sent)), StopsAtError(s), s.sent # <<>> => by[s.sent[1]] = m,
         Loop(b, m, s)
  PROVE  [Next]_vars /\ BatchTypeOK' /\ BatchesOK'
<1>1. TypeOK /\ LockOrder /\ batch \in [Batch -> BatchState] /\ \A a \in Batch : BatchOK(batch[a])
  BY DEF BatchInv, BatchTypeOK, BatchesOK
<1>2. SUFFICES ASSUME NEW t, [Next]_vars, batch' = [batch EXCEPT ![b] = t],
                      BatchOK(t)', t \in BatchState
               PROVE  BatchTypeOK' /\ BatchesOK'
  <2>1. CASE Len(s.sent) = Len(s.requests) \/ (s.stopOnError /\ s.errors # <<>>)
    <3>1. Finish(b, s)
      BY <2>1 DEF Loop
    <3>2. BatchOK([s EXCEPT !.step = "done"]) /\ [s EXCEPT !.step = "done"] \in BatchState
      BY <2>1, Finishing
    <3>3. [Next]_vars
      BY <3>1 DEF Finish
    <3>4. BatchOK([s EXCEPT !.step = "done"])'
      BY <1>1, <3>2, <3>3, BatchKept
    <3>5. QED BY <1>2, <3>1, <3>2, <3>3, <3>4 DEF Finish
  <2>2. CASE ~ (Len(s.sent) = Len(s.requests) \/ (s.stopOnError /\ s.errors # <<>>))
    <3>1. EmitNext(b, m, s)
      BY <2>2 DEF Loop
    <3>2. Emit(m, s.requests[Len(s.sent) + 1])
      BY <3>1 DEF EmitNext
    <3>3. PICK t : t = [s EXCEPT !.sent = Append(@, calls + 1)]
      OBVIOUS
    <3>4. BatchOK(t)' /\ t \in BatchState
      BY <1>1, <2>2, <3>2, <3>3, Sending
    <3>5. [Next]_vars
      <4>1. s.requests[Len(s.sent) + 1] \in Request
        BY <2>2 DEF Gathered, BatchState
      <4>2. QED BY <3>2, <4>1 DEF Next
    <3>6. batch' = [batch EXCEPT ![b] = t]
      BY <3>1, <3>3 DEF EmitNext
    <3>7. QED BY <1>2, <3>4, <3>5, <3>6
  <2>3. QED BY <2>1, <2>2
<1>3. batch' \in [Batch -> BatchState] /\ batch'[b] = t /\ \A a \in Batch : a # b => batch'[a] = batch[a]
  BY <1>1, <1>2
<1>4. ASSUME NEW a \in Batch PROVE \A u \in {batch'[a]} : BatchOK(u)'
  <2>1. CASE a = b
    BY <1>2, <1>3, <2>1
  <2>2. CASE a # b
    <3>1. PICK u : u = batch[a]
      OBVIOUS
    <3>2. BatchOK(u)'
      BY <1>1, <1>2, <3>1, BatchKept
    <3>3. QED BY <1>3, <2>2, <3>1, <3>2
  <2>3. QED BY <2>1, <2>2
<1>5. QED BY <1>3, <1>4 DEF BatchTypeOK, BatchesOK

LEMMA NoBatchOK == NoBatch \in BatchState /\ BatchOK(NoBatch)
BY DEF NoBatch, BatchState, BatchOK

LEMMA BatchStarts == BatchInit => BatchInv
BY TypeInit, LockInit, StoreInit, NoBatchOK DEF BatchInit, BatchInv, BatchTypeOK, BatchesOK

\* A batch that begins has gathered nothing.
LEMMA Beginning ==
  ASSUME NEW requests \in SeqOf(Request, MaxBatch), NEW stop \in BOOLEAN, NEW s,
         s = [NoBatch EXCEPT !.step = "running", !.requests = requests, !.stopOnError = stop]
  PROVE  s.step = "running" /\ s.sent = <<>> /\ Gathered(s, Len(s.sent)) /\ StopsAtError(s)
<1>1. requests \in Seq(Request)
  <2>1. \A n \in 0..MaxBatch : n \in Nat
    BY BatchBound
  <2>2. QED BY <2>1, SeqDef DEF SeqOf
<1>2. /\ s \in BatchState /\ s.step = "running" /\ s.requests = requests
      /\ s.sent = <<>> /\ s.results = <<>> /\ s.errors = <<>>
  <2> DEFINE none == <<>>
  <2>1. s = [step |-> "running", requests |-> requests, stopOnError |-> stop,
             sent |-> none, results |-> none, errors |-> none]
    BY DEF NoBatch
  <2>2. none \in Seq(EmitId)
    OBVIOUS
  <2> HIDE DEF none
  <2>3. s \in BatchState
    BY <1>1, <2>1, <2>2 DEF BatchState
  <2>4. /\ s.step = "running" /\ s.requests = requests
        /\ s.sent = none /\ s.results = none /\ s.errors = none
    BY ONLY <2>1
  <2>5. QED BY <2>3, <2>4 DEF none
<1>3. Range(s.results) \cup Range(s.errors) = {s.sent[n] : n \in 1..0}
  BY <1>2 DEF Range
<1>4. Len(s.sent) = 0 /\ Len(s.requests) \in Nat /\ 0 <= Len(s.requests) /\ 0 \in 0..0
  BY <1>1, <1>2
<1>5. Gathered(s, 0)
  <2>1. DOMAIN s.sent = {} /\ DOMAIN s.results = {} /\ DOMAIN s.errors = {}
    BY <1>2
  <2>2. Len(s.results) = 0 /\ Len(s.errors) = 0 /\ Len(s.sent) = 0
    BY <1>2
  <2>3. s \in BatchState /\ Len(s.sent) <= Len(s.requests) /\ 0 \in 0..Len(s.sent)
        /\ Len(s.results) + Len(s.errors) = 0
    <3>1. Len(s.results) + Len(s.errors) = 0
      <4>1. 0 + 0 = 0
        OBVIOUS
      <4>2. QED BY <2>2, <4>1, Zenon
    <3>2. Len(s.sent) <= Len(s.requests) /\ 0 \in 0..Len(s.sent)
      BY <1>2, <1>4, <2>2
    <3>3. QED BY <1>2, <3>1, <3>2
  <2>4. QED BY <1>3, <2>1, <2>3 DEF Gathered
<1>6. QED BY <1>2, <1>4, <1>5 DEF StopsAtError

LEMMA BatchesNext == BatchInv /\ [BatchNext]_batchVars => BatchInv'
<1>1. SUFFICES ASSUME BatchInv, [BatchNext]_batchVars PROVE BatchInv'
  OBVIOUS
<1>2. /\ TypeOK /\ LockOrder /\ StoreInv /\ batch \in [Batch -> BatchState]
      /\ \A b \in Batch : BatchOK(batch[b])
  BY <1>1 DEF BatchInv, BatchTypeOK, BatchesOK
<1>3. SUFFICES [Next]_vars /\ BatchTypeOK' /\ BatchesOK'
  BY <1>2, TypeNext, LockNext, StoreNext DEF BatchInv
<1>4. ASSUME [Next]_vars, UNCHANGED batch PROVE BatchTypeOK' /\ BatchesOK'
  <2>1. ASSUME NEW b \in Batch PROVE \A u \in {batch'[b]} : BatchOK(u)'
    <3>1. PICK u : u = batch[b]
      OBVIOUS
    <3>2. BatchOK(u)'
      BY <1>2, <1>4, <3>1, BatchKept
    <3>3. QED BY <1>4, <3>1, <3>2
  <2>2. QED BY <1>2, <1>4, <2>1 DEF BatchTypeOK, BatchesOK
<1>5. CASE UNCHANGED batchVars
  <2>1. [Next]_vars /\ UNCHANGED batch
    BY <1>5 DEF batchVars
  <2>2. QED BY <1>4, <2>1
<1>6. CASE \E i \in EmitId : Proceed(i) /\ UNCHANGED batch
  <2>1. [Next]_vars /\ UNCHANGED batch
    BY <1>6 DEF Next
  <2>2. QED BY <1>4, <2>1
<1>7. CASE \E m \in Emitter, r \in Request : Room > 0 /\ Emit(m, r) /\ UNCHANGED batch
  <2>1. [Next]_vars /\ UNCHANGED batch
    BY <1>7 DEF Next
  <2>2. QED BY <1>4, <2>1
<1>8. CASE \E m \in Emitter, l \in Listener : AddListener(m, l) /\ UNCHANGED batch
  <2>1. [Next]_vars /\ UNCHANGED batch
    BY <1>8 DEF Next
  <2>2. QED BY <1>4, <2>1
<1>9. ASSUME NEW b \in Batch, NEW m \in Emitter, NEW requests \in SeqOf(Request, MaxBatch),
             NEW stop \in BOOLEAN, EmitBatch(b, m, requests, stop)
      PROVE  [Next]_vars /\ BatchTypeOK' /\ BatchesOK'
  <2>1. PICK s : s = [NoBatch EXCEPT !.step = "running", !.requests = requests,
                                     !.stopOnError = stop]
    OBVIOUS
  <2>2. Loop(b, m, s)
    BY <1>9, <2>1 DEF EmitBatch
  <2>3. s.step = "running" /\ s.sent = <<>> /\ Gathered(s, Len(s.sent)) /\ StopsAtError(s)
    BY <2>1, Beginning
  <2>4. QED BY <1>1, <2>2, <2>3, Looping
<1>10. ASSUME NEW b \in Batch, BatchContinues(b) PROVE [Next]_vars /\ BatchTypeOK' /\ BatchesOK'
  <2>1. PICK s : s = batch[b]
    OBVIOUS
  <2>2. PICK i : i = Last(s.sent)
    OBVIOUS
  <2>3. PICK t : t = Collect(s, i)
    OBVIOUS
  <2>4. s.step = "running" /\ BatchOK(s) /\ pc[i] \in Settled /\ Loop(b, by[i], t)
    BY <1>2, <1>10, <2>1, <2>2, <2>3 DEF BatchContinues
  <2>5. /\ t.step = "running" /\ Gathered(t, Len(t.sent)) /\ StopsAtError(t)
        /\ t.sent = s.sent /\ i \in EmitId /\ by[s.sent[1]] = by[i]
    BY <1>2, <2>2, <2>3, <2>4, Collecting
  <2>6. by[i] \in Emitter
    BY <1>2, <2>5 DEF TypeOK
  <2>7. QED BY <1>1, <2>4, <2>5, <2>6, Looping
<1>11. QED BY <1>1, <1>5, <1>6, <1>7, <1>8, <1>9, <1>10 DEF BatchNext

LEMMA BatchesCorrect == BatchSpec => []BatchInv
BY BatchStarts, BatchesNext, PTL DEF BatchSpec

LEMMA BatchEmits == BatchInv => EachRequestOnce
<1>1. SUFFICES ASSUME BatchInv, NEW b \in Batch
      PROVE  /\ IsInjective(batch[b].sent)
             /\ \A n \in DOMAIN batch[b].sent :
                  request[batch[b].sent[n]] = batch[b].requests[n]
             /\ batch[b].step = "done" =>
                  /\ Range(batch[b].results) \cup Range(batch[b].errors) = Range(batch[b].sent)
                  /\ Len(batch[b].results) + Len(batch[b].errors) = Len(batch[b].sent)
                  /\ IF batch[b].stopOnError /\ batch[b].errors # <<>>
                     THEN batch[b].errors = <<Last(batch[b].sent)>>
                     ELSE Len(batch[b].sent) = Len(batch[b].requests)
  BY DEF EachRequestOnce
<1>2. PICK s : s = batch[b]
  OBVIOUS
<1>3. BatchOK(s)
  BY <1>1, <1>2 DEF BatchInv, BatchesOK
<1>4. CASE s.step = "idle"
  <2>1. s.sent = <<>>
    BY <1>3, <1>4 DEF BatchOK, NoBatch
  <2>2. QED BY <1>2, <1>4, <2>1 DEF IsInjective
<1>5. CASE s.step # "idle"
  <2>1. PICK k : Gathered(s, k)
    BY <1>3, <1>5 DEF BatchOK
  <2>2. s.sent \in Seq(EmitId) /\ \A n \in DOMAIN s.sent : n \in Nat /\ s.sent[n] \in Nat
    <3>1. s.sent \in Seq(EmitId)
      BY <2>1 DEF Gathered, BatchState
    <3>2. \A n \in DOMAIN s.sent : n \in Nat /\ s.sent[n] \in EmitId
      BY <3>1
    <3>3. QED BY <3>1, <3>2 DEF EmitId
  <2>3. IsInjective(s.sent)
    <3>1. SUFFICES ASSUME NEW m \in DOMAIN s.sent, NEW n \in DOMAIN s.sent,
                          s.sent[m] = s.sent[n]
                   PROVE  m = n
      BY DEF IsInjective
    <3>2. (m < n => s.sent[m] < s.sent[n]) /\ (n < m => s.sent[n] < s.sent[m])
      BY <2>1 DEF Gathered
    <3>3. m \in Nat /\ n \in Nat /\ s.sent[m] \in Nat /\ s.sent[n] \in Nat
      BY <2>2
    <3>4. QED BY <3>1, <3>2, <3>3
  <2>4. \A n \in DOMAIN s.sent : request[s.sent[n]] = s.requests[n]
    BY <2>1 DEF Gathered
  <2>5. ASSUME s.step = "done"
        PROVE  /\ Range(s.results) \cup Range(s.errors) = Range(s.sent)
               /\ Len(s.results) + Len(s.errors) = Len(s.sent)
               /\ IF s.stopOnError /\ s.errors # <<>> THEN s.errors = <<Last(s.sent)>>
                  ELSE Len(s.sent) = Len(s.requests)
    <3>1. Gathered(s, Len(s.sent))
      BY <1>3, <2>5 DEF BatchOK
    <3>2. Range(s.sent) = {s.sent[n] : n \in 1..Len(s.sent)}
      BY <2>2 DEF Range
    <3>3. QED BY <1>3, <2>5, <3>1, <3>2 DEF BatchOK, Gathered, StopsAtError
  <2>6. QED BY <1>2, <2>3, <2>4, <2>5
<1>6. QED BY <1>4, <1>5

LEMMA BatchReports == BatchInv => ReportMatchesStore
<1>1. SUFFICES ASSUME BatchInv, NEW b \in Batch, batch[b].step = "done"
      PROVE  LET results == batch[b].results IN
               /\ \A n \in DOMAIN results : \E k \in DOMAIN events : EventIdAt(k) = results[n]
               /\ \A m, n \in DOMAIN results : \A j, k \in DOMAIN events :
                    EventIdAt(j) = results[m] /\ EventIdAt(k) = results[n] => (m < n <=> j < k)
               /\ \A k \in DOMAIN events : EventIdAt(k) \in Range(batch[b].sent) =>
                    \/ EventIdAt(k) \in Range(results)
                    \/ UncertainAppend /\ EventIdAt(k) \in Range(batch[b].errors)
  BY DEF ReportMatchesStore
<1>2. PICK s : s = batch[b]
  OBVIOUS
<1>3. Gathered(s, Len(s.sent))
  BY <1>1, <1>2 DEF BatchInv, BatchesOK, BatchOK, NoBatch
<1>4. /\ s.sent \in Seq(EmitId) /\ s.results \in Seq(EmitId) /\ s.errors \in Seq(EmitId)
      /\ \A n \in DOMAIN s.results : n \in Nat /\ s.results[n] \in EmitId /\ s.results[n] \in Nat
      /\ \A n \in DOMAIN s.errors : s.errors[n] \in EmitId
      /\ \A k \in DOMAIN events : k \in Nat
  <2>1. s.sent \in Seq(EmitId) /\ s.results \in Seq(EmitId) /\ s.errors \in Seq(EmitId)
    BY <1>3 DEF Gathered, BatchState
  <2>2. events \in Seq(Event(Content)) /\ \A i \in EmitId : i \in Nat
    BY <1>1 DEF BatchInv, TypeOK, EmitId
  <2>3. /\ \A n \in DOMAIN s.results : n \in Nat /\ s.results[n] \in EmitId
        /\ \A n \in DOMAIN s.errors : s.errors[n] \in EmitId
        /\ \A k \in DOMAIN events : k \in Nat
    BY <2>1, <2>2
  <2>4. QED BY <2>1, <2>2, <2>3
<1>5. CallOrder /\ StoredOnceIfAccepted
  BY <1>1 DEF BatchInv, StoreInv
<1>6. Range(s.results) \cup Range(s.errors) = Range(s.sent)
  <2>1. Range(s.sent) = {s.sent[n] : n \in 1..Len(s.sent)}
    BY <1>4 DEF Range
  <2>2. QED BY <1>3, <2>1 DEF Gathered
<1>7. \A n \in DOMAIN s.results : \E k \in DOMAIN events : EventIdAt(k) = s.results[n]
  <2>1. TAKE n \in DOMAIN s.results
  <2>2. Accepted(s.results[n]) /\ s.results[n] \in EmitId
    BY <1>3, <1>4 DEF Gathered, Accepted
  <2>3. PICK k \in DOMAIN events : events[k] = NewEvent(s.results[n])
    BY <1>5, <2>2 DEF StoredOnceIfAccepted
  <2>4. EventIdAt(k) = s.results[n]
    BY <2>3 DEF EventIdAt, NewEvent, ContentOf, SealedEvent
  <2>5. QED BY <2>4
<1>8. \A n \in DOMAIN s.results : by[s.results[n]] = by[s.sent[1]]
  <2>1. TAKE n \in DOMAIN s.results
  <2>2. s.results[n] \in Range(s.sent)
    BY <1>6 DEF Range
  <2>3. PICK j \in DOMAIN s.sent : s.results[n] = s.sent[j]
    BY <2>2 DEF Range
  <2>4. QED BY <1>3, <2>3 DEF Gathered
<1>9. ASSUME NEW m \in DOMAIN s.results, NEW n \in DOMAIN s.results,
             NEW j \in DOMAIN events, NEW k \in DOMAIN events,
             EventIdAt(j) = s.results[m], EventIdAt(k) = s.results[n]
      PROVE  m < n <=> j < k
  <2>1. /\ (m < n => s.results[m] < s.results[n]) /\ (n < m => s.results[n] < s.results[m])
    BY <1>3 DEF Gathered
  <2>2. /\ (j < k => s.results[m] < s.results[n]) /\ (k < j => s.results[n] < s.results[m])
        /\ (j = k => s.results[m] = s.results[n])
    BY <1>5, <1>8, <1>9 DEF CallOrder
  <2>3. /\ m \in Nat /\ n \in Nat /\ j \in Nat /\ k \in Nat
        /\ s.results[m] \in Nat /\ s.results[n] \in Nat /\ (m = n => s.results[m] = s.results[n])
    BY <1>4
  <2>4. QED BY <2>1, <2>2, <2>3
<1>10. ASSUME NEW k \in DOMAIN events, EventIdAt(k) \in Range(s.sent),
              EventIdAt(k) \notin Range(s.results)
       PROVE  UncertainAppend /\ EventIdAt(k) \in Range(s.errors)
  <2>1. PICK n \in DOMAIN s.errors : EventIdAt(k) = s.errors[n]
    BY <1>6, <1>10 DEF Range
  <2>2. pc[EventIdAt(k)] = "rejected" /\ EventIdAt(k) \in EmitId
    BY <1>3, <1>4, <2>1 DEF Gathered
  <2>3. UncertainAppend
    BY <1>5, <2>2 DEF StoredOnceIfAccepted, Accepted
  <2>4. QED BY <1>6, <1>10, <2>3
<1>11. QED BY <1>2, <1>7, <1>9, <1>10

\* Whatever other callers and batches do meanwhile, a batch emits its requests
\* once each and in order, and files each of them under its outcome.
THEOREM BatchEmitsEachOnce == BatchSpec => []EachRequestOnce
BY BatchesCorrect, BatchEmits, PTL

\* What a batch reports is what the store holds of it, in the store's order.
THEOREM BatchReportsTheStore == BatchSpec => []ReportMatchesStore
BY BatchesCorrect, BatchReports, PTL
==============================================================================
