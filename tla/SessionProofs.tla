---------------------------- MODULE SessionProofs ----------------------------
(***************************************************************************)
(* For every set of entities, threads and kinds: the session keeps the     *)
(* promises about closures that zenoh-c documents.                         *)
(***************************************************************************)
EXTENDS Session, TLAPS

(* The descriptors are records with Boolean flags; the only kind with a    *)
(* closure that is undeclared without waiting is the querying subscriber,  *)
(* and the kinds that have listeners wait.                                 *)
LEMMA KindFacts ==
  ASSUME NEW k \in Kinds
  PROVE  /\ k.closure \in BOOLEAN /\ k.waits \in BOOLEAN /\ k.nulls \in BOOLEAN
         /\ k.closure /\ ~k.waits => k.name = "querying_subscriber"
         /\ k.name \in ParentNames => k.waits
<1> USE DEF Descriptor, ParentNames
<1>1. CASE k = Subscriber BY <1>1 DEF Subscriber
<1>2. CASE k = Queryable BY <1>2 DEF Queryable
<1>3. CASE k = LivelinessSubscriber BY <1>3 DEF LivelinessSubscriber
<1>4. CASE k = AdvancedSubscriber BY <1>4 DEF AdvancedSubscriber
<1>5. CASE k = QueryingSubscriber BY <1>5 DEF QueryingSubscriber
<1>6. CASE k = TransportEventsListener BY <1>6 DEF TransportEventsListener
<1>7. CASE k = LinkEventsListener BY <1>7 DEF LinkEventsListener
<1>8. CASE k = MatchingListener BY <1>8 DEF MatchingListener
<1>9. CASE k = SampleMissListener BY <1>9 DEF SampleMissListener
<1>10. CASE k = Publisher BY <1>10 DEF Publisher
<1>11. CASE k = AdvancedPublisher BY <1>11 DEF AdvancedPublisher
<1>12. CASE k = Querier BY <1>12 DEF Querier
<1>13. CASE k = LivelinessToken BY <1>13 DEF LivelinessToken
<1>14. CASE k = PublicationCache BY <1>14 DEF PublicationCache
<1>15. CASE k = PublisherDetector BY <1>15 DEF PublisherDetector
<1>. QED BY <1>1, <1>2, <1>3, <1>4, <1>5, <1>6, <1>7, <1>8, <1>9, <1>10, <1>11, <1>12, <1>13, <1>14,
            <1>15 DEF Kinds

LEMMA ClosuresAreEntities == Closures \subseteq Entity
BY DEF Closures

LEMMA IdleCall == Idle \in Calls /\ Idle.op = "idle" /\ Idle.gone = {} /\ Idle.wait = {} /\ Idle.e = None
BY DEF Idle, Calls

LEMMA InitTypeOK == Init => TypeOK
BY IdleCall DEF Init, TypeOK, SlotState, ClosureState, Phase, NoTask

(* Type correctness: every variable keeps the shape its comment describes. *)
LEMMA NextTypeOK == TypeOK /\ [Next]_vars => TypeOK'
<1> SUFFICES ASSUME TypeOK, [Next]_vars PROVE TypeOK'
  OBVIOUS
<1> USE SessionAssumption, IdleCall, ClosuresAreEntities DEF TypeOK
<1>1. ASSUME NEW t \in Thread, NEW op \in {"declare", "reject", "undeclare", "drop_closure",
               "spawned", "close", "session_drop", "join"},
             NEW e \in Entity \cup {None}, NEW gone \in SUBSET Entity,
             NEW wait \in SUBSET Entity, Enter(t, op, e, gone, wait)
      PROVE  call' \in [Thread -> Calls]
  <2>1. [op |-> op, e |-> e, gone |-> gone, wait |-> wait] \in Calls
    BY <1>1 DEF Calls
  <2>. QED BY <1>1, <2>1 DEF Enter
<1>2. ASSUME NEW t \in Thread, Leave(t) PROVE call' \in [Thread -> Calls]
  BY <1>2 DEF Leave
<1>3. ASSUME NEW t \in Thread, NEW op \in {"close", "session_drop"}, StartClose(t, op)
      PROVE  core' \in {"none", "open", "closed"} /\ registered' \subseteq Entity
             /\ call' \in [Thread -> Calls]
  <2>1. Inside(registered) \in SUBSET Entity
    BY DEF Inside
  <2>2. Enter(t, op, None, Inside(registered), Inside(registered))
    BY <1>3 DEF StartClose
  <2>3. [op |-> op, e |-> None, gone |-> Inside(registered), wait |-> Inside(registered)] \in Calls
    BY <1>3, <2>1 DEF Calls
  <2>4. call' \in [Thread -> Calls]
    BY <2>2, <2>3 DEF Enter
  <2>. QED BY <1>3, <2>4 DEF StartClose
<1>5. CASE Application
  <2> App \subseteq Thread /\ Closer \in Thread
    BY DEF Thread
  <2>1. ASSUME NEW t \in App, Open(t) PROVE TypeOK'
    BY <2>1 DEF Open, SlotState
  <2>2. ASSUME NEW t \in App, Close(t) PROVE TypeOK'
    BY <2>2, <1>3 DEF Close
  <2>3. ASSUME NEW t \in App, CloseConcurrently(t) PROVE TypeOK'
    <3>1. Enter(Closer, "spawned", None, {}, {})
      BY <2>3 DEF CloseConcurrently
    <3>2. call' \in [Thread -> Calls]
      BY <1>1, <3>1
    <3>. QED BY <2>3, <3>2 DEF CloseConcurrently, SlotState
  <2>4. ASSUME NEW t \in App, SessionDrop(t) PROVE TypeOK'
    BY <2>4, <1>3 DEF SessionDrop, SlotState
  <2>5. ASSUME NEW t \in App, HandleWait(t) PROVE TypeOK'
    <3>1. Enter(t, "join", None, {}, {})
      BY <2>5 DEF HandleWait
    <3>2. call' \in [Thread -> Calls]
      BY <1>1, <3>1
    <3>. QED BY <2>5, <3>2 DEF HandleWait, SlotState
  <2>6. ASSUME NEW t \in App, HandleDrop(t) PROVE TypeOK'
    BY <2>6 DEF HandleDrop, SlotState
  <2>7. ASSUME NEW t \in App, NEW e \in Entity, DropOwnClosure(t, e) PROVE TypeOK'
    <3>1. call' \in [Thread -> Calls]
      <4>1. Enter(t, "drop_closure", e, {}, {e})
        BY <2>7 DEF DropOwnClosure
      <4>2. t \in Thread /\ e \in Entity \cup {None} /\ {} \in SUBSET Entity /\ {e} \in SUBSET Entity
        OBVIOUS
      <4>. QED BY <1>1, <4>1, <4>2
    <3>. QED BY <2>7, <3>1 DEF DropOwnClosure, ClosureState
  <2>8. ASSUME NEW t \in App, NEW e \in Entity, Declare(t, e) PROVE TypeOK'
    <3>1. call' \in [Thread -> Calls]
      <4>1. Enter(t, "declare", e, {}, {}) \/ Enter(t, "reject", e, {}, {e})
        BY <2>8 DEF Declare
      <4>2. t \in Thread /\ e \in Entity \cup {None} /\ {} \in SUBSET Entity /\ {e} \in SUBSET Entity
        OBVIOUS
      <4>3. CASE Enter(t, "declare", e, {}, {}) BY <1>1, <4>2, <4>3
      <4>4. CASE Enter(t, "reject", e, {}, {e}) BY <1>1, <4>2, <4>4
      <4>. QED BY <4>1, <4>3, <4>4
    <3>2. closure' \in [Entity -> ClosureState]
      BY <2>8 DEF Declare, ClosureState
    <3>3. registered' \subseteq Entity
      BY <2>8 DEF Declare
    <3>. QED BY <2>8, <3>1, <3>2, <3>3 DEF Declare
  <2>. QED BY <1>5, <2>1, <2>2, <2>3, <2>4, <2>5, <2>6, <2>7, <2>8 DEF Application
<1>6. CASE Returns
  <2> SUFFICES ASSUME NEW t \in Thread,
                      \/ DeclareReturn(t) \/ RejectReturn(t) \/ CallReturn(t)
                      \/ HandleWaitReturn(t) \/ CloseTimeout(t)
               PROVE  TypeOK'
    BY <1>6 DEF Returns
  <2> call[t] \in Calls
    OBVIOUS
  <2>1. CASE DeclareReturn(t) BY <2>1, <1>2 DEF DeclareReturn, SlotState
  <2>2. CASE RejectReturn(t) BY <2>2, <1>2 DEF RejectReturn, SlotState
  <2>3. CASE CallReturn(t) BY <2>3, <1>2 DEF CallReturn, Calls
  <2>4. CASE HandleWaitReturn(t) BY <2>4, <1>2 DEF HandleWaitReturn
  <2>5. CASE CloseTimeout(t) BY <2>5, <1>2 DEF CloseTimeout
  <2>. QED BY <2>1, <2>2, <2>3, <2>4, <2>5
<1>7. CASE Runtime
  <2> Closer \in Thread /\ call[Closer] \in Calls
    BY DEF Thread
  <2>1. CASE CloserStart BY <2>1, <1>3 DEF CloserStart
  <2>2. CASE CloserReturn BY <2>2, <1>2 DEF CloserReturn, Calls
  <2>3. ASSUME NEW w \in Worker, NEW e \in Entity,
               CallStart(w) \/ CallEnd(w) \/ Release(w) \/ Fetch(w, e)
        PROVE  TypeOK'
    BY <2>3 DEF CallStart, CallEnd, Release, Fetch, Phase, NoTask
  <2>4. ASSUME NEW e \in Entity, DropStart(e) \/ DropEnd(e) PROVE TypeOK'
    BY <2>4 DEF DropStart, DropEnd, ClosureState
  <2>5. ASSUME NEW w \in Worker, CallStart(w) \/ CallEnd(w) \/ Release(w)
        PROVE  TypeOK'
    BY <2>5 DEF CallStart, CallEnd, Release, Phase, NoTask
  <2>. QED BY <1>7, <2>1, <2>2, <2>3, <2>4, <2>5 DEF Runtime
<1>8. ASSUME NEW e \in Entity, ConstructClosure(e) PROVE TypeOK'
  BY <1>8 DEF ConstructClosure, ClosureState
<1>9. ASSUME NEW e \in Entity, NEW t \in Thread, Undeclare(t, e) PROVE TypeOK'
  <2>1. Inside(Family(e)) \in SUBSET Entity
    BY DEF Inside, Family
  <2>2. call' \in [Thread -> Calls]
    BY <1>9, <1>1, <2>1 DEF Undeclare
  <2>. QED BY <1>9, <2>2 DEF Undeclare, SlotState
<1>10. CASE UNCHANGED vars
  BY <1>10 DEF vars
<1>. QED BY <1>5, <1>6, <1>7, <1>8, <1>9, <1>10 DEF Next

(* Type correctness of the session, for every value of the constants.      *)
THEOREM SessionTypes == Spec => []TypeOK
BY InitTypeOK, NextTypeOK, PTL DEF Spec

-----------------------------------------------------------------------------
LEMMA InitInv == Init => SessionInv
<1> SUFFICES ASSUME Init PROVE SessionInv
  OBVIOUS
<1> USE IdleCall DEF Init
<1>1. TypeOK
  BY InitTypeOK
<1>2. ReferencedIsLent
  BY DEF ReferencedIsLent, NoTask
<1>3. WaitedFor /\ PendingDeclare
  BY DEF WaitedFor, PendingDeclare
<1>4. OpenMeansRegistered /\ QuietAfterOk /\ NoOrphanCallback
  BY DEF OpenMeansRegistered, QuietAfterOk, NoOrphanCallback
<1>. QED BY <1>1, <1>2, <1>3, <1>4 DEF SessionInv

(* A step changes the references to callbacks in one of these ways only.   *)
LEMMA ReferenceSteps ==
  ASSUME TypeOK, [Next]_vars
  PROVE  \/ UNCHANGED <<task, closure>> /\ registered' \subseteq registered
         \/ \E e \in Entity : ConstructClosure(e) \/ DropStart(e) \/ DropEnd(e)
         \/ \E t \in App, e \in Entity : DropOwnClosure(t, e) \/ Declare(t, e)
         \/ \E w \in Worker : CallStart(w) \/ CallEnd(w) \/ Release(w)
         \/ \E w \in Worker, e \in Entity : Fetch(w, e)
<1> USE DEF TypeOK
<1>1. CASE Application
  BY <1>1 DEF Application, Open, Close, StartClose, CloseConcurrently, SessionDrop, HandleWait, HandleDrop
<1>2. CASE Returns
  BY <1>2 DEF Returns, DeclareReturn, RejectReturn, CallReturn, HandleWaitReturn, CloseTimeout
<1>3. CASE Runtime
  BY <1>3 DEF Runtime, CloserStart, CloserReturn, StartClose
<1>4. CASE \E e \in Entity : ConstructClosure(e) \/ \E t \in Thread : Undeclare(t, e)
  BY <1>4 DEF Undeclare
<1>5. CASE UNCHANGED vars
  BY <1>5 DEF vars
<1>. QED BY <1>1, <1>2, <1>3, <1>4, <1>5 DEF Next

LEMMA NextReferenced ==
  ASSUME SessionInv, [Next]_vars
  PROVE  ReferencedIsLent'
<1> USE SessionAssumption, ClosuresAreEntities DEF SessionInv, TypeOK, ReferencedIsLent
<1>1. CASE UNCHANGED <<task, closure>> /\ registered' \subseteq registered
  BY <1>1
<1>2. ASSUME NEW e \in Entity, ConstructClosure(e) PROVE ReferencedIsLent'
  BY <1>2 DEF ConstructClosure
<1>3. ASSUME NEW e \in Entity, DropStart(e) PROVE ReferencedIsLent'
  BY <1>3 DEF DropStart, Unreferenced
<1>4. ASSUME NEW e \in Entity, DropEnd(e) PROVE ReferencedIsLent'
  BY <1>4 DEF DropEnd
<1>5. ASSUME NEW t \in App, NEW e \in Entity, DropOwnClosure(t, e) PROVE ReferencedIsLent'
  BY <1>5 DEF DropOwnClosure
<1>6. ASSUME NEW t \in App, NEW e \in Entity, Declare(t, e) PROVE ReferencedIsLent'
  BY <1>6 DEF Declare
<1>7. ASSUME NEW w \in Worker, CallStart(w) \/ CallEnd(w) \/ Release(w) PROVE ReferencedIsLent'
  BY <1>7 DEF CallStart, CallEnd, Release, NoTask
<1>8. ASSUME NEW w \in Worker, NEW e \in Entity, Fetch(w, e) PROVE ReferencedIsLent'
  BY <1>8 DEF Fetch
<1>. QED BY ReferenceSteps, <1>1, <1>2, <1>3, <1>4, <1>5, <1>6, <1>7, <1>8

(* A closure never goes back: once inside zenoh-c it stays there until it  *)
(* is dropped, and a dropped closure stays dropped.                        *)
LEMMA ClosureForward ==
  ASSUME SessionInv, [Next]_vars, NEW c \in Entity
  PROVE  /\ closure[c] \in {"lent", "dropping", "dropped"} =>
              closure'[c] \in {"lent", "dropping", "dropped"}
         /\ closure[c] = "dropped" => closure'[c] = "dropped"
<1> USE DEF SessionInv, TypeOK
<1>2. ASSUME NEW e \in Entity, ConstructClosure(e) \/ DropStart(e) \/ DropEnd(e)
      PROVE  /\ closure[c] \in {"lent", "dropping", "dropped"} =>
                  closure'[c] \in {"lent", "dropping", "dropped"}
             /\ closure[c] = "dropped" => closure'[c] = "dropped"
  BY <1>2 DEF ConstructClosure, DropStart, DropEnd
<1>3. ASSUME NEW t \in App, NEW e \in Entity, DropOwnClosure(t, e) \/ Declare(t, e)
      PROVE  /\ closure[c] \in {"lent", "dropping", "dropped"} =>
                  closure'[c] \in {"lent", "dropping", "dropped"}
             /\ closure[c] = "dropped" => closure'[c] = "dropped"
  BY <1>3 DEF DropOwnClosure, Declare
<1>4. ASSUME NEW w \in Worker, CallStart(w) \/ CallEnd(w) \/ Release(w)
      PROVE  closure' = closure
  BY <1>4 DEF CallStart, CallEnd, Release
<1>5. ASSUME NEW w \in Worker, NEW e \in Entity, Fetch(w, e) PROVE closure' = closure
  BY <1>5 DEF Fetch
<1>. QED BY ReferenceSteps, <1>2, <1>3, <1>4, <1>5

(* The closures a call reports gone when it returns are those it found     *)
(* inside zenoh-c when it started, and it waits for all of them, except    *)
(* for the closure of a querying subscriber.                               *)
LEMMA CallSteps ==
  ASSUME SessionInv, [Next]_vars, NEW u \in Thread
  PROVE  \/ call'[u] = call[u]
         \/ call'[u].gone = {}
         \/ \A c \in call'[u].gone :
              /\ c \in Inside(Entity)
              /\ c \in call'[u].wait \/ kind[c].name = "querying_subscriber"
<1> DEFINE P == \/ call'[u] = call[u]
                \/ call'[u].gone = {}
                \/ \A c \in call'[u].gone :
                     /\ c \in Inside(Entity)
                     /\ c \in call'[u].wait \/ kind[c].name = "querying_subscriber"
<1> USE SessionAssumption, IdleCall DEF SessionInv, TypeOK
<1> App \subseteq Thread /\ Closer \in Thread
  BY DEF Thread
<1>1. ASSUME NEW t \in Thread, NEW op, StartClose(t, op) PROVE P
  BY <1>1 DEF StartClose, Enter, Inside
<1>2. ASSUME NEW t \in Thread, NEW e \in Entity, Undeclare(t, e) PROVE P
  <2> DEFINE gone == Inside(Family(e))
  <2>1. CASE UNCHANGED call
    BY <2>1
  <2>2. CASE Enter(t, "undeclare", e, gone, IF kind[e].waits THEN gone ELSE {})
    <3>1. gone \subseteq Inside(Entity)
      BY DEF Inside, Family
    <3>2. ASSUME NEW c \in gone, ~kind[e].waits PROVE kind[c].name = "querying_subscriber"
      <4>1. c = e
        BY <3>2, KindFacts DEF Inside, Family
      <4>2. e \in Closures
        BY <3>2, <4>1 DEF Inside, ReferencedIsLent
      <4>. QED BY <3>2, <4>1, <4>2, KindFacts DEF Closures
    <3>. QED BY <2>2, <3>1, <3>2 DEF Enter
  <2>. QED BY <1>2, <2>1, <2>2 DEF Undeclare
<1>3. CASE Application
  <2>1. ASSUME NEW t \in App, Open(t) \/ HandleDrop(t) PROVE P
    BY <2>1 DEF Open, HandleDrop
  <2>2. ASSUME NEW t \in App, Close(t) PROVE P
    BY <2>2, <1>1 DEF Close
  <2>3. ASSUME NEW t \in App, SessionDrop(t) PROVE P
    BY <2>3, <1>1 DEF SessionDrop
  <2>4. ASSUME NEW t \in App, CloseConcurrently(t) \/ HandleWait(t) PROVE P
    BY <2>4 DEF CloseConcurrently, HandleWait, Enter
  <2>5. ASSUME NEW t \in App, NEW e \in Entity, DropOwnClosure(t, e) \/ Declare(t, e) PROVE P
    BY <2>5 DEF DropOwnClosure, Declare, Enter
  <2>. QED BY <1>3, <2>1, <2>2, <2>3, <2>4, <2>5 DEF Application
<1>4. CASE Returns
  BY <1>4 DEF Returns, DeclareReturn, RejectReturn, CallReturn, HandleWaitReturn, CloseTimeout, Leave
<1>5. CASE Runtime
  <2>1. CASE CloserStart BY <2>1, <1>1 DEF CloserStart
  <2>2. CASE CloserReturn BY <2>2 DEF CloserReturn, Leave
  <2>3. CASE UNCHANGED call BY <2>3
  <2>. QED BY <1>5, <2>1, <2>2, <2>3
       DEF Runtime, CallStart, CallEnd, Release, Fetch, DropStart, DropEnd
<1>6. CASE \E e \in Entity : ConstructClosure(e)
  BY <1>6 DEF ConstructClosure
<1>7. CASE UNCHANGED vars
  BY <1>7 DEF vars
<1>. QED BY <1>2, <1>3, <1>4, <1>5, <1>6, <1>7 DEF Next

LEMMA NextWaitedFor ==
  ASSUME SessionInv, [Next]_vars
  PROVE  WaitedFor'
<1> SUFFICES ASSUME NEW t \in Thread, NEW c \in call'[t].gone
             PROVE  /\ c \in call'[t].wait \/ kind[c].name = "querying_subscriber"
                    /\ closure'[c] \in {"lent", "dropping", "dropped"}
  BY DEF WaitedFor
<1>1. c \in Entity
  <2>1. TypeOK'
    BY NextTypeOK DEF SessionInv
  <2>2. call'[t] \in Calls
    BY <2>1 DEF TypeOK
  <2>. QED BY <2>2 DEF Calls
<1>2. CASE call'[t] = call[t]
  BY <1>1, <1>2, ClosureForward DEF SessionInv, WaitedFor
<1>3. CASE c \in Inside(Entity) /\ (c \in call'[t].wait \/ kind[c].name = "querying_subscriber")
  BY <1>1, <1>3, ClosureForward DEF Inside
<1>. QED BY <1>2, <1>3, CallSteps

(* What a step adds to ack is the `gone' set of a call that has drained.   *)
LEMMA AckSteps ==
  ASSUME SessionInv, [Next]_vars
  PROVE  \/ ack' = ack
         \/ \E t \in Thread : Drained(call[t].wait) /\ ack' = ack \cup call[t].gone
                             /\ closure' = closure /\ task' = task
<1>1. CASE Application
  BY <1>1 DEF Application, Open, Close, SessionDrop, CloseConcurrently, HandleWait, HandleDrop,
              DropOwnClosure, Declare
<1>2. CASE Returns
  BY <1>2 DEF Returns, DeclareReturn, RejectReturn, CallReturn, HandleWaitReturn, CloseTimeout
<1>3. CASE Runtime
  BY <1>3 DEF Runtime, CloserStart, CloserReturn, CallStart, CallEnd, Release, Fetch,
              DropStart, DropEnd, Thread
<1>4. CASE \E e \in Entity : ConstructClosure(e) \/ \E t \in Thread : Undeclare(t, e)
  BY <1>4 DEF ConstructClosure, Undeclare
<1>5. CASE UNCHANGED vars
  BY <1>5 DEF vars
<1>. QED BY <1>1, <1>2, <1>3, <1>4, <1>5 DEF Next

LEMMA NextQuiet ==
  ASSUME SessionInv, [Next]_vars
  PROVE  QuietAfterOk'
<1> SUFFICES ASSUME NEW e \in ack', kind[e].name # "querying_subscriber"
             PROVE  closure'[e] = "dropped" /\ \A w \in Worker : task'[w].on # e
  BY DEF QuietAfterOk
<1>0. TypeOK' /\ e \in Entity
  BY NextTypeOK DEF SessionInv, TypeOK
<1>1. closure'[e] = "dropped"
  <2>1. CASE e \in ack
    BY <2>1, <1>0, ClosureForward DEF SessionInv, QuietAfterOk
  <2>2. ASSUME NEW t \in Thread, Drained(call[t].wait), e \in call[t].gone, closure' = closure
        PROVE  closure'[e] = "dropped"
    BY <2>2 DEF SessionInv, WaitedFor, Drained, Inside
  <2>. QED BY <2>1, <2>2, AckSteps
<1>2. ASSUME NEW w \in Worker PROVE task'[w].on # e
  <2>1. e # None
    BY <1>0, SessionAssumption
  <2>. QED BY <1>1, <2>1, NextReferenced DEF ReferencedIsLent
<1>. QED BY <1>1, <1>2

LEMMA NextPending ==
  ASSUME SessionInv, [Next]_vars
  PROVE  PendingDeclare'
<1> USE SessionAssumption, IdleCall, ClosuresAreEntities DEF SessionInv, TypeOK
<1> App \subseteq Thread /\ Closer \in Thread
  BY DEF Thread
<1>1. ASSUME NEW t \in Thread, slot' = slot, closure' = closure,
             \/ Leave(t)
             \/ \E op \in {"spawned", "close", "session_drop", "join"} : \E g, v : Enter(t, op, None, g, v)
      PROVE  PendingDeclare'
  BY <1>1 DEF PendingDeclare, Leave, Enter
<1>2. ASSUME call' = call, slot' = slot PROVE PendingDeclare'
  BY <1>2, ClosureForward DEF PendingDeclare
<1>3. CASE Application
  <2>1. ASSUME NEW t \in App, Open(t) \/ HandleDrop(t) PROVE PendingDeclare'
    BY <2>1, <1>2 DEF Open, HandleDrop
  <2>2. ASSUME NEW t \in App, Close(t) \/ SessionDrop(t) PROVE PendingDeclare'
    BY <2>2, <1>1 DEF Close, SessionDrop, StartClose
  <2>3. ASSUME NEW t \in App, CloseConcurrently(t) \/ HandleWait(t) PROVE PendingDeclare'
    BY <2>3, <1>1 DEF CloseConcurrently, HandleWait
  <2>4. ASSUME NEW t \in App, NEW e \in Entity, DropOwnClosure(t, e) PROVE PendingDeclare'
    <3>1. e \in Closures
      BY <2>4 DEF DropOwnClosure, ReferencedIsLent
    <3>. QED BY <2>4, <3>1 DEF DropOwnClosure, PendingDeclare, Enter
  <2>5. ASSUME NEW t \in App, NEW e \in Entity, Declare(t, e) PROVE PendingDeclare'
    BY <2>5 DEF Declare, PendingDeclare, Enter
  <2>. QED BY <1>3, <2>1, <2>2, <2>3, <2>4, <2>5 DEF Application
<1>4. CASE Returns
  <2>1. ASSUME NEW t \in Thread, DeclareReturn(t) \/ RejectReturn(t) PROVE PendingDeclare'
    BY <2>1 DEF DeclareReturn, RejectReturn, Leave, PendingDeclare
  <2>2. ASSUME NEW t \in Thread, CallReturn(t) \/ HandleWaitReturn(t) \/ CloseTimeout(t)
        PROVE  PendingDeclare'
    BY <2>2, <1>1 DEF CallReturn, HandleWaitReturn, CloseTimeout
  <2>. QED BY <1>4, <2>1, <2>2 DEF Returns
<1>5. CASE Runtime
  <2>1. CASE CloserStart BY <2>1, <1>1 DEF CloserStart, StartClose
  <2>2. CASE CloserReturn BY <2>2, <1>1 DEF CloserReturn
  <2>3. CASE call' = call /\ slot' = slot BY <2>3, <1>2
  <2>. QED BY <1>5, <2>1, <2>2, <2>3
       DEF Runtime, CallStart, CallEnd, Release, Fetch, DropStart, DropEnd
<1>6. CASE \E e \in Entity : ConstructClosure(e)
  BY <1>6, <1>2 DEF ConstructClosure
<1>7. ASSUME NEW e \in Entity, NEW t \in Thread, Undeclare(t, e) PROVE PendingDeclare'
  BY <1>7 DEF Undeclare, PendingDeclare, Enter
<1>8. CASE UNCHANGED vars
  BY <1>8, <1>2 DEF vars
<1>. QED BY <1>3, <1>4, <1>5, <1>6, <1>7, <1>8 DEF Next

LEMMA NextOpenMeans ==
  ASSUME SessionInv, [Next]_vars
  PROVE  OpenMeansRegistered'
<1> USE SessionAssumption, IdleCall, ClosuresAreEntities DEF SessionInv, TypeOK, OpenMeansRegistered
<1> App \subseteq Thread /\ Closer \in Thread
  BY DEF Thread
<1>1. CASE UNCHANGED <<core, session, registered, slot, call>>
  BY <1>1
<1>2. ASSUME core' = "closed" PROVE OpenMeansRegistered'
  BY <1>2
<1>3. ASSUME NEW t \in Thread, UNCHANGED <<core, session, registered, slot>>,
             \/ Leave(t)
             \/ \E op \in {"spawned", "close", "session_drop", "join", "drop_closure"} : \E f, g, v :
                   Enter(t, op, f, g, v)
      PROVE  OpenMeansRegistered'
  BY <1>3 DEF Leave, Enter
<1>4. CASE Application
  <2>1. ASSUME NEW t \in App, Open(t) PROVE OpenMeansRegistered'
    BY <2>1 DEF Open
  <2>2. ASSUME NEW t \in App, Close(t) \/ SessionDrop(t) PROVE OpenMeansRegistered'
    BY <2>2, <1>2 DEF Close, SessionDrop, StartClose
  <2>3. ASSUME NEW t \in App, CloseConcurrently(t) \/ HandleWait(t) PROVE OpenMeansRegistered'
    BY <2>3, <1>3 DEF CloseConcurrently, HandleWait
  <2>4. ASSUME NEW t \in App, HandleDrop(t) PROVE OpenMeansRegistered'
    BY <2>4, <1>1 DEF HandleDrop
  <2>5. ASSUME NEW t \in App, NEW e \in Entity, DropOwnClosure(t, e) PROVE OpenMeansRegistered'
    BY <2>5, <1>3 DEF DropOwnClosure
  <2>6. ASSUME NEW t \in App, NEW e \in Entity, Declare(t, e) PROVE OpenMeansRegistered'
    BY <2>6 DEF Declare, Enter
  <2>. QED BY <1>4, <2>1, <2>2, <2>3, <2>4, <2>5, <2>6 DEF Application
<1>5. CASE Returns
  <2>1. ASSUME NEW t \in Thread, DeclareReturn(t) \/ RejectReturn(t) PROVE OpenMeansRegistered'
    BY <2>1 DEF DeclareReturn, RejectReturn, Leave, PendingDeclare
  <2>2. ASSUME NEW t \in Thread, CallReturn(t) \/ HandleWaitReturn(t) \/ CloseTimeout(t)
        PROVE  OpenMeansRegistered'
    BY <2>2, <1>3 DEF CallReturn, HandleWaitReturn, CloseTimeout
  <2>. QED BY <1>5, <2>1, <2>2 DEF Returns
<1>6. CASE Runtime
  <2>1. CASE CloserStart BY <2>1, <1>2 DEF CloserStart, StartClose
  <2>2. CASE CloserReturn BY <2>2, <1>3 DEF CloserReturn
  <2>3. CASE UNCHANGED <<core, session, registered, slot, call>> BY <2>3, <1>1
  <2>. QED BY <1>6, <2>1, <2>2, <2>3
       DEF Runtime, CallStart, CallEnd, Release, Fetch, DropStart, DropEnd
<1>7. CASE \E e \in Entity : ConstructClosure(e)
  BY <1>7, <1>1 DEF ConstructClosure
<1>8. ASSUME NEW e \in Entity, NEW t \in Thread, Undeclare(t, e) PROVE OpenMeansRegistered'
  BY <1>8 DEF Undeclare, Enter, Family, PendingDeclare
<1>9. CASE UNCHANGED vars
  BY <1>9, <1>1 DEF vars
<1>. QED BY <1>4, <1>5, <1>6, <1>7, <1>8, <1>9 DEF Next

LEMMA NextNoOrphan ==
  ASSUME SessionInv, [Next]_vars
  PROVE  NoOrphanCallback'
<1> USE SessionAssumption, IdleCall, ClosuresAreEntities DEF SessionInv, TypeOK, NoOrphanCallback
<1> App \subseteq Thread /\ Closer \in Thread
  BY DEF Thread
<1>1. CASE UNCHANGED <<registered, slot, call>>
  BY <1>1
<1>2. ASSUME registered' = {} PROVE NoOrphanCallback'
  BY <1>2
<1>3. ASSUME NEW t \in Thread, call[t].op # "declare", UNCHANGED <<registered, slot>>,
             Leave(t) \/ \E op, f, g, v : Enter(t, op, f, g, v)
      PROVE  NoOrphanCallback'
  BY <1>3 DEF Leave, Enter
<1>4. CASE Application
  <2>1. ASSUME NEW t \in App, Open(t) \/ HandleDrop(t) PROVE NoOrphanCallback'
    BY <2>1, <1>1 DEF Open, HandleDrop
  <2>2. ASSUME NEW t \in App, Close(t) \/ SessionDrop(t) PROVE NoOrphanCallback'
    BY <2>2, <1>2 DEF Close, SessionDrop, StartClose
  <2>3. ASSUME NEW t \in App, CloseConcurrently(t) \/ HandleWait(t) PROVE NoOrphanCallback'
    BY <2>3, <1>3 DEF CloseConcurrently, HandleWait
  <2>4. ASSUME NEW t \in App, NEW e \in Entity, DropOwnClosure(t, e) PROVE NoOrphanCallback'
    BY <2>4, <1>3 DEF DropOwnClosure
  <2>5. ASSUME NEW t \in App, NEW e \in Entity, Declare(t, e) PROVE NoOrphanCallback'
    <3>1. CASE Enter(t, "reject", e, {}, {e}) /\ registered' = registered
      BY <2>5, <3>1, <1>3 DEF Declare
    <3>2. CASE Enter(t, "declare", e, {}, {}) /\ core = "open" /\ registered' = registered \cup {e}
      <4>1. call'[t].op = "declare" /\ call'[t].e = e /\ \A u \in App : u # t => call'[u] = call[u]
        BY <3>2 DEF Enter
      <4>2. call[t].op # "declare" /\ slot' = slot
        BY <2>5 DEF Declare
      <4>3. parent[e] # None => parent[e] \in registered
        BY <2>5, <3>2 DEF Declare, OpenMeansRegistered
      <4>. QED BY <3>2, <4>1, <4>2, <4>3
    <3>. QED BY <2>5, <3>1, <3>2 DEF Declare
  <2>. QED BY <1>4, <2>1, <2>2, <2>3, <2>4, <2>5 DEF Application
<1>5. CASE Returns
  <2>1. ASSUME NEW t \in Thread, DeclareReturn(t) PROVE NoOrphanCallback'
    BY <2>1 DEF DeclareReturn, Leave, PendingDeclare
  <2>2. ASSUME NEW t \in Thread, RejectReturn(t) PROVE NoOrphanCallback'
    BY <2>2 DEF RejectReturn, Leave, PendingDeclare
  <2>3. ASSUME NEW t \in Thread, CallReturn(t) \/ HandleWaitReturn(t) \/ CloseTimeout(t)
        PROVE  NoOrphanCallback'
    BY <2>3, <1>3 DEF CallReturn, HandleWaitReturn, CloseTimeout
  <2>. QED BY <1>5, <2>1, <2>2, <2>3 DEF Returns
<1>6. CASE Runtime
  <2>1. CASE CloserStart BY <2>1, <1>2 DEF CloserStart, StartClose
  <2>2. CASE CloserReturn BY <2>2, <1>3 DEF CloserReturn
  <2>3. CASE UNCHANGED <<registered, slot, call>> BY <2>3, <1>1
  <2>. QED BY <1>6, <2>1, <2>2, <2>3
       DEF Runtime, CallStart, CallEnd, Release, Fetch, DropStart, DropEnd
<1>7. CASE \E e \in Entity : ConstructClosure(e)
  BY <1>7, <1>1 DEF ConstructClosure
<1>8. ASSUME NEW e \in Entity, NEW t \in Thread, Undeclare(t, e) PROVE NoOrphanCallback'
  <2>1. call[t].op # "declare"
    BY <1>8 DEF Undeclare, Free
  <2>2. \A u \in App : call[u].op = "declare" => call'[u] = call[u]
    BY <1>8, <2>1 DEF Undeclare, Enter
  <2>3. registered' = registered \ Family(e) /\ \A f \in Entity : f # e => slot'[f] = slot[f]
    BY <1>8 DEF Undeclare
  <2>. QED BY <2>2, <2>3 DEF Family
<1>9. CASE UNCHANGED vars
  BY <1>9, <1>1 DEF vars
<1>. QED BY <1>4, <1>5, <1>6, <1>7, <1>8, <1>9 DEF Next

LEMMA NextInv == SessionInv /\ [Next]_vars => SessionInv'
<1> SUFFICES ASSUME SessionInv, [Next]_vars PROVE SessionInv'
  OBVIOUS
<1>1. TypeOK'
  BY NextTypeOK DEF SessionInv
<1>. QED BY <1>1, NextReferenced, NextWaitedFor, NextPending, NextOpenMeans, NextQuiet,
            NextNoOrphan DEF SessionInv

LEMMA SessionInvariant == Spec => []SessionInv
BY InitInv, NextInv, PTL DEF Spec

(* For every number of threads and entities: `drop' of a closure never     *)
(* starts while a runtime thread executes its `call'.                      *)
THEOREM CallsPrecedeDrop == Spec => []CallNeverOverlapsDrop
<1>1. SessionInv => CallNeverOverlapsDrop
  <2> SUFFICES ASSUME SessionInv, NEW w \in Worker, task[w].phase = "calling"
               PROVE  closure[task[w].on] = "lent"
    BY DEF CallNeverOverlapsDrop
  <2>1. task[w].on # None
    BY DEF SessionInv, ReferencedIsLent
  <2>. QED BY <2>1 DEF SessionInv, ReferencedIsLent
<1>. QED BY <1>1, SessionInvariant, PTL

(* For every instance: after an undeclare, a drop or a close has returned  *)
(* Z_OK, the closures it was about are dropped and nobody refers to them.  *)
THEOREM OkMeansQuiet == Spec => []QuietAfterOk
<1>1. SessionInv => QuietAfterOk
  BY DEF SessionInv
<1>. QED BY <1>1, SessionInvariant, PTL

(* For every instance: the application can stop every registered callback, *)
(* and a listener is never registered longer than what it listens to.      *)
THEOREM CallbacksCanBeStopped == Spec => []NoOrphanCallback
<1>1. SessionInv => NoOrphanCallback
  BY DEF SessionInv
<1>. QED BY <1>1, SessionInvariant, PTL

-----------------------------------------------------------------------------
(* The executing callbacks, as the contract sees them.                     *)
Running == [e \in Entity |-> {w \in Worker : task[w].on = e /\ task[w].phase = "calling"}]

LEMMA InitContract == Init => Contract!ContractInit
<1> SUFFICES ASSUME Init PROVE Contract!ContractInit
  OBVIOUS
<1>1. \A e \in Entity : {w \in Worker : task[w].on = e /\ task[w].phase = "calling"} = {}
  BY DEF Init, NoTask
<1>. QED BY <1>1 DEF Init, Contract!ContractInit

(* A step of a runtime thread through one callback is a step of the        *)
(* contract or leaves it unchanged.                                        *)
LEMMA CallbackStep ==
  ASSUME SessionInv, NEW w \in Worker,
         CallStart(w) \/ CallEnd(w) \/ Release(w) \/ \E e \in Entity : Fetch(w, e)
  PROVE  [Contract!ContractNext]_(Contract!contractVars)
<1> USE DEF SessionInv, TypeOK
<1>0. closure' = closure
  BY DEF CallStart, CallEnd, Release, Fetch
<1>1. CASE Release(w) \/ \E e \in Entity : Fetch(w, e)
  <2>1. task' \in [Worker -> [on : Entity \cup {None}, phase : Phase]]
    BY <1>1 DEF Release, Fetch, NoTask, Phase
  <2>2. \A v \in Worker : task'[v] = task[v] \/ (task[v].phase # "calling" /\ task'[v].phase # "calling")
    BY <1>1 DEF Release, Fetch, NoTask, ReferencedIsLent
  <2>3. \A e \in Entity : {v \in Worker : task'[v].on = e /\ task'[v].phase = "calling"}
                         = {v \in Worker : task[v].on = e /\ task[v].phase = "calling"}
    BY <2>2
  <2>. QED BY <1>0, <2>3 DEF Contract!contractVars
<1>2. CASE CallStart(w) \/ CallEnd(w)
  <2>1. task[w].on # None
    BY <1>2 DEF CallStart, CallEnd, ReferencedIsLent
  <2>2. PICK f \in Entity : f = task[w].on /\ closure[f] = "lent"
    BY <2>1, ClosuresAreEntities DEF ReferencedIsLent
  <2>3. /\ task'[w].on = f /\ \A v \in Worker : v # w => task'[v] = task[v]
        /\ CallStart(w) => task[w].phase = "fetched" /\ task'[w].phase \in {"calling", "called"}
        /\ CallEnd(w) => task[w].phase = "calling" /\ task'[w].phase = "called"
    BY <1>2, <2>2 DEF CallStart, CallEnd
  <2>4. \A e \in Entity : e # f => Running'[e] = Running[e]
    BY <2>2, <2>3 DEF Running
  <2>5. CASE task'[w].phase = "calling"
    <3>1. Running'[f] = Running[f] \cup {w} /\ w \notin Running[f]
      BY <1>2, <2>1, <2>2, <2>3, <2>5 DEF Running
    <3>2. Running' = [Running EXCEPT ![f] = @ \cup {w}]
      BY <2>1, <2>2, <2>4, <3>1 DEF Running
    <3>3. Contract!StartCall(f, w)
      BY <1>0, <2>1, <2>2, <3>1, <3>2 DEF Contract!StartCall, Running
    <3>. QED BY <3>3 DEF Contract!ContractNext
  <2>6. CASE CallEnd(w)
    <3>1. Running'[f] = Running[f] \ {w} /\ w \in Running[f]
      BY <1>2, <2>1, <2>2, <2>3, <2>6 DEF Running
    <3>2. Running' = [Running EXCEPT ![f] = @ \ {w}]
      BY <2>1, <2>2, <2>4, <3>1 DEF Running
    <3>3. Contract!EndCall(f, w)
      BY <1>0, <2>1, <2>2, <3>1, <3>2 DEF Contract!EndCall, Running
    <3>. QED BY <3>3 DEF Contract!ContractNext
  <2>7. CASE CallStart(w) /\ task'[w].phase = "called"
    <3>1. \A e \in Entity : Running'[e] = Running[e]
      BY <2>2, <2>3, <2>7 DEF Running
    <3>2. Running' = Running
      BY <3>1 DEF Running
    <3>. QED BY <1>0, <3>2 DEF Contract!contractVars, Running
  <2>. QED BY <1>2, <2>3, <2>5, <2>6, <2>7
<1>. QED BY <1>1, <1>2

LEMMA StepContract ==
  ASSUME SessionInv, [Next]_vars
  PROVE  [Contract!ContractNext]_(Contract!contractVars)
<1> USE DEF SessionInv, TypeOK
<1>1. CASE UNCHANGED <<task, closure>>
  BY <1>1 DEF Contract!contractVars
<1>2. ASSUME NEW e \in Entity, task' = task, ConstructClosure(e) PROVE Contract!ContractNext
  BY <1>2 DEF ConstructClosure, Contract!ContractNext, Contract!Construct
<1>3. ASSUME NEW e \in Entity, DropStart(e) PROVE Contract!ContractNext
  <2>1. Running[e] = {}
    BY <1>3 DEF DropStart, Unreferenced, Running
  <2>2. Contract!StartDrop(e)
    BY <1>3, <2>1 DEF DropStart, Contract!StartDrop, Running
  <2>. QED BY <2>2 DEF Contract!ContractNext
<1>4. ASSUME NEW e \in Entity, DropEnd(e) PROVE Contract!ContractNext
  BY <1>4 DEF DropEnd, Contract!ContractNext, Contract!EndDrop
<1>5. ASSUME NEW t \in App, NEW e \in Entity, DropOwnClosure(t, e) PROVE Contract!ContractNext
  <2>1. Running[e] = {}
    BY <1>5, SessionAssumption DEF DropOwnClosure, ReferencedIsLent, Running
  <2>2. Contract!StartDrop(e)
    BY <1>5, <2>1 DEF DropOwnClosure, Contract!StartDrop, Running
  <2>. QED BY <2>2 DEF Contract!ContractNext
<1>6. ASSUME NEW t \in App, NEW e \in Entity, Declare(t, e)
      PROVE  [Contract!ContractNext]_(Contract!contractVars)
  <2>1. CASE e \in Closures
    BY <1>6, <2>1 DEF Declare, Contract!ContractNext, Contract!Lend
  <2>2. CASE e \notin Closures
    BY <1>6, <2>2, <1>1 DEF Declare
  <2>. QED BY <2>1, <2>2
<1>7. ASSUME NEW e \in Entity, ConstructClosure(e) PROVE task' = task
  BY <1>7 DEF ConstructClosure
<1>. QED BY ReferenceSteps, CallbackStep, <1>1, <1>2, <1>3, <1>4, <1>5, <1>6, <1>7

(* Refinement, for every instance: seen through the life of its closures   *)
(* and the callbacks that are executing, a session is a behaviour of       *)
(* ClosureContract.                                                        *)
THEOREM SessionImplementsContract == Spec => ImplementsContract
<1>1. SessionInv /\ [Next]_vars => [Contract!ContractNext]_(Contract!contractVars)
  BY StepContract
<1>. QED BY InitContract, <1>1, SessionInvariant, PTL DEF Spec, ImplementsContract, Contract!ContractSpec

-----------------------------------------------------------------------------
(* Why a blocked undeclare or close can end.  What it waits for has left   *)
(* the tables for good, since a closure is moved into one declaration only. *)
Leaving ==
  \A t \in Thread : \A c \in call[t].wait \cap Closures :
    c \notin registered /\ closure[c] \in {"lent", "dropping", "dropped"}

LEMMA NextLeaving ==
  ASSUME SessionInv, Leaving, [Next]_vars
  PROVE  Leaving'
<1> USE SessionAssumption, IdleCall, ClosuresAreEntities DEF SessionInv, TypeOK
<1> App \subseteq Thread /\ Closer \in Thread
  BY DEF Thread
<1> SUFFICES ASSUME NEW u \in Thread, NEW c \in call'[u].wait \cap Closures
             PROVE  c \notin registered' /\ closure'[c] \in {"lent", "dropping", "dropped"}
  BY DEF Leaving
<1> DEFINE Gone == c \notin registered' /\ closure'[c] \in {"lent", "dropping", "dropped"}
<1>1. \/ registered' \subseteq registered
      \/ \E e \in Entity : registered' = registered \cup {e} /\ (e \in Closures => closure[e] = "owned")
  BY DEF Next, Application, Returns, Runtime, Open, Close, StartClose, CloseConcurrently, SessionDrop,
         HandleWait, HandleDrop, DropOwnClosure, Declare, DeclareReturn, RejectReturn, CallReturn,
         HandleWaitReturn, CloseTimeout, CloserStart, CloserReturn, CallStart, CallEnd, Release,
         Fetch, DropStart, DropEnd, ConstructClosure, Undeclare, vars
<1>2. CASE call'[u].wait = call[u].wait
  <2>1. c \notin registered /\ closure[c] \in {"lent", "dropping", "dropped"}
    BY <1>2 DEF Leaving
  <2>. QED BY <1>1, <2>1, ClosureForward
<1>3. ASSUME NEW t \in Thread, NEW op, StartClose(t, op), closure' = closure PROVE Gone
  <2>1. CASE u = t
    BY <1>3, <2>1 DEF StartClose, Enter, Inside
  <2>2. CASE u # t
    BY <1>2, <1>3, <2>2 DEF StartClose, Enter
  <2>. QED BY <2>1, <2>2
<1>4. ASSUME NEW t \in Thread, Leave(t) PROVE Gone
  BY <1>2, <1>4 DEF Leave
<1>5. ASSUME NEW t \in Thread, NEW e \in Entity, Undeclare(t, e) PROVE Gone
  <2>1. CASE UNCHANGED call
    BY <1>2, <2>1
  <2>2. CASE Enter(t, "undeclare", e, Inside(Family(e)),
                   IF kind[e].waits THEN Inside(Family(e)) ELSE {})
    <3>1. CASE u = t
      <4>1. c \in Inside(Family(e))
        BY <2>2, <3>1 DEF Enter
      <4>. QED BY <1>5, <4>1 DEF Undeclare, Inside
    <3>2. CASE u # t
      BY <1>2, <2>2, <3>2 DEF Enter
    <3>. QED BY <3>1, <3>2
  <2>. QED BY <1>5, <2>1, <2>2 DEF Undeclare
<1>6. ASSUME NEW t \in App, NEW e \in Entity, DropOwnClosure(t, e) PROVE Gone
  <2>1. CASE u = t
    <3>1. c = e
      BY <1>6, <2>1 DEF DropOwnClosure, Enter
    <3>. QED BY <1>6, <3>1 DEF DropOwnClosure, ReferencedIsLent
  <2>2. CASE u # t
    BY <1>2, <1>6, <2>2 DEF DropOwnClosure, Enter
  <2>. QED BY <2>1, <2>2
<1>7. ASSUME NEW t \in App, NEW e \in Entity, Declare(t, e) PROVE Gone
  <2>1. CASE u = t
    <3>1. Enter(t, "reject", e, {}, {e}) /\ registered' = registered /\ c = e
      BY <1>7, <2>1 DEF Declare, Enter
    <3>. QED BY <1>7, <3>1 DEF Declare, ReferencedIsLent
  <2>2. CASE u # t
    BY <1>2, <1>7, <2>2 DEF Declare, Enter
  <2>. QED BY <2>1, <2>2
<1>8. CASE Application
  <2>1. ASSUME NEW t \in App, Open(t) \/ HandleDrop(t) PROVE Gone
    BY <2>1, <1>2 DEF Open, HandleDrop
  <2>2. ASSUME NEW t \in App, Close(t) \/ SessionDrop(t) PROVE Gone
    BY <2>2, <1>3 DEF Close, SessionDrop
  <2>3. ASSUME NEW t \in App, CloseConcurrently(t) \/ HandleWait(t) PROVE Gone
    BY <2>3, <1>2 DEF CloseConcurrently, HandleWait, Enter
  <2>. QED BY <1>6, <1>7, <1>8, <2>1, <2>2, <2>3 DEF Application
<1>9. CASE Returns
  BY <1>4, <1>9 DEF Returns, DeclareReturn, RejectReturn, CallReturn, HandleWaitReturn, CloseTimeout
<1>10. CASE Runtime
  <2>1. CASE CloserStart BY <2>1, <1>3 DEF CloserStart
  <2>2. CASE CloserReturn BY <2>2, <1>4 DEF CloserReturn
  <2>3. CASE UNCHANGED call BY <2>3, <1>2
  <2>. QED BY <1>10, <2>1, <2>2, <2>3
       DEF Runtime, CallStart, CallEnd, Release, Fetch, DropStart, DropEnd
<1>11. CASE \E e \in Entity : ConstructClosure(e)
  BY <1>11, <1>2 DEF ConstructClosure
<1>12. CASE UNCHANGED vars
  BY <1>12, <1>2 DEF vars
<1>. QED BY <1>5, <1>8, <1>9, <1>10, <1>11, <1>12 DEF Next

(* No runtime thread gets a reference to a closure that somebody waits for. *)
NoNewReference ==
  \A w \in Worker, t \in Thread : \A c \in call[t].wait : task'[w].on = c => task[w].on = c

(* While z_undeclare_xxx, z_xxx_drop, z_close or a failed declaration is   *)
(* blocked, the references it waits for only become fewer: the runtime     *)
(* cannot start another callback of the same closure and keep it waiting.  *)
THEOREM WaitsOnlyShrink == Spec => [][NoNewReference]_vars
<1>1. Init => Leaving
  BY IdleCall DEF Init, Leaving
<1>2. SessionInv /\ Leaving /\ [Next]_vars => Leaving'
  BY NextLeaving
<1>3. SessionInv /\ Leaving /\ [Next]_vars => [NoNewReference]_vars
  <2> SUFFICES ASSUME SessionInv, Leaving, [Next]_vars, NEW w \in Worker, NEW t \in Thread,
                      NEW c \in call[t].wait, task'[w].on = c
               PROVE  task[w].on = c
    BY DEF NoNewReference
  <2> USE SessionAssumption DEF SessionInv, TypeOK
  <2>1. c \in Entity
    BY DEF Calls
  <2>2. ASSUME NEW v \in Worker, CallStart(v) \/ CallEnd(v) \/ Release(v) PROVE task[w].on = c
    BY <2>1, <2>2 DEF CallStart, CallEnd, Release, NoTask
  <2>3. ASSUME NEW v \in Worker, NEW e \in Entity, Fetch(v, e) PROVE task[w].on = c
    <3>1. e \in registered \cap Closures
      BY <2>3 DEF Fetch
    <3>2. c # e
      BY <3>1 DEF Leaving
    <3>. QED BY <2>3, <3>2 DEF Fetch
  <2>4. ASSUME task' = task PROVE task[w].on = c
    BY <2>4
  <2>. QED BY <2>2, <2>3, <2>4, ReferenceSteps
       DEF ConstructClosure, DropStart, DropEnd, DropOwnClosure, Declare
<1>. QED BY <1>1, <1>2, <1>3, SessionInvariant, PTL DEF Spec

=============================================================================
