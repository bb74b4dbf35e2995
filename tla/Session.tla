------------------------------- MODULE Session -------------------------------
(***************************************************************************)
(* A zenoh-c session, the entities declared on it and the closures moved   *)
(* into them.  Application threads declare, undeclare, close and drop;     *)
(* threads of the zenoh runtime run the callbacks; the runtime's own       *)
(* bookkeeping (which callbacks are registered, who holds a reference to   *)
(* one, what wait_callbacks() waits for) is external to the repository and *)
(* modelled from how the code uses it.                                     *)
(***************************************************************************)
EXTENDS Naturals

CONSTANTS
  Entity,        \* the declarations of the application, each with a closure of its own
  App,           \* application threads
  Worker,        \* runtime threads
  Closer,        \* the runtime task of a z_close executed in the background
  None,
  kind,          \* kind[e]: the descriptor of entity e, one of those below
  parent,        \* parent[e]: the entity a listener is declared on, or None
  background,    \* the entities declared with the background variant
  HasCall,       \* the entities whose closure has a non-NULL `call`
  MayUndeclare   \* <<a, b>>: the callback of a may undeclare b

-----------------------------------------------------------------------------
(***************************************************************************)
(* One descriptor per kind of entity: what its declare and undeclare       *)
(* functions do differently from those of the other kinds.                 *)
(*   closure: a closure is moved into the declaration;                     *)
(*   waits:   undeclare and drop use wait_callbacks();                     *)
(*   nulls:   a failed declaration writes the gravestone to the owned      *)
(*            variable instead of leaving it uninitialized.                *)
(***************************************************************************)
Descriptor(n, c, w, g) == [name |-> n, closure |-> c, waits |-> w, nulls |-> g]

Subscriber              == Descriptor("subscriber", TRUE, TRUE, TRUE)
Queryable               == Descriptor("queryable", TRUE, TRUE, TRUE)
LivelinessSubscriber    == Descriptor("liveliness_subscriber", TRUE, TRUE, TRUE)
AdvancedSubscriber      == Descriptor("advanced_subscriber", TRUE, TRUE, TRUE)
PublisherDetector       == Descriptor("publisher_detector", TRUE, TRUE, TRUE)
QueryingSubscriber      == Descriptor("querying_subscriber", TRUE, FALSE, TRUE)
TransportEventsListener == Descriptor("transport_events_listener", TRUE, TRUE, FALSE)
LinkEventsListener      == Descriptor("link_events_listener", TRUE, TRUE, FALSE)
MatchingListener        == Descriptor("matching_listener", TRUE, TRUE, TRUE)
SampleMissListener      == Descriptor("sample_miss_listener", TRUE, TRUE, TRUE)
Publisher               == Descriptor("publisher", FALSE, TRUE, TRUE)
AdvancedPublisher       == Descriptor("advanced_publisher", FALSE, TRUE, TRUE)
Querier                 == Descriptor("querier", FALSE, TRUE, TRUE)
LivelinessToken         == Descriptor("liveliness_token", FALSE, FALSE, TRUE)
PublicationCache        == Descriptor("publication_cache", FALSE, FALSE, TRUE)

Kinds == { Subscriber, Queryable, LivelinessSubscriber, AdvancedSubscriber,
           QueryingSubscriber, TransportEventsListener, LinkEventsListener,
           MatchingListener, SampleMissListener, PublisherDetector, Publisher,
           AdvancedPublisher, Querier, LivelinessToken, PublicationCache }

(* The kinds on which listeners are declared.                              *)
ParentNames == {"publisher", "advanced_publisher", "querier", "advanced_subscriber"}

Closures == {e \in Entity : kind[e].closure}

Thread == App \cup Worker \cup {Closer}

ASSUME SessionAssumption ==
  /\ kind \in [Entity -> Kinds]
  /\ parent \in [Entity -> Entity \cup {None}]
  /\ None \notin Entity
  /\ background \subseteq Closures
  /\ HasCall \subseteq Closures
  /\ MayUndeclare \subseteq Entity \X Entity
  /\ \A e \in Entity : parent[e] # None =>
       e \in Closures /\ parent[parent[e]] = None /\ kind[parent[e]].name \in ParentNames
  /\ App \cap Worker = {} /\ Closer \notin App \cup Worker

-----------------------------------------------------------------------------
VARIABLES
  config,      \* the application's z_owned_config_t
  session,     \* the application's z_owned_session_t
  core,        \* the runtime session behind it
  slot,        \* slot[e]: the application's z_owned_xxx_t of entity e
  closure,     \* closure[e]: the closure moved into e
  registered,  \* the entities in the tables of the runtime session
  task,        \* task[w]: the callback worker w has a reference to
  call,        \* call[t]: the blocking API call thread t is in
  handle,      \* the application's zc_owned_concurrent_close_handle_t
  bg,          \* the background close task and its result
  ack          \* the closures that a call returning Z_OK reported gone

vars == <<config, session, core, slot, closure, registered, task, call,
          handle, bg, ack>>

SlotState == {"uninit", "null", "some"}
ClosureState == {"fresh", "owned", "lent", "dropping", "dropped"}
Phase == {"fetched", "calling", "called"}

Idle == [op |-> "idle", e |-> None, gone |-> {}, wait |-> {}]
NoTask == [on |-> None, phase |-> "called"]

Calls == [op : {"idle", "declare", "reject", "undeclare", "drop_closure", "spawned",
                "close", "session_drop", "join"},
          e : Entity \cup {None}, gone : SUBSET Entity, wait : SUBSET Entity]

TypeOK ==
  /\ config \in {"null", "some"}
  /\ session \in SlotState
  /\ core \in {"none", "open", "closed"}
  /\ slot \in [Entity -> SlotState]
  /\ closure \in [Entity -> ClosureState]
  /\ registered \subseteq Entity
  /\ task \in [Worker -> [on : Entity \cup {None}, phase : Phase]]
  /\ call \in [Thread -> Calls]
  /\ handle \in SlotState
  /\ bg \in {"none", "running", "ok", "err"}
  /\ ack \subseteq Entity

Init ==
  /\ config = "some"
  /\ session = "uninit"
  /\ core = "none"
  /\ slot = [e \in Entity |-> "uninit"]
  /\ closure = [e \in Entity |-> "fresh"]
  /\ registered = {}
  /\ task = [w \in Worker |-> NoTask]
  /\ call = [t \in Thread |-> Idle]
  /\ handle = "uninit"
  /\ bg = "none"
  /\ ack = {}

-----------------------------------------------------------------------------
(* Thread t may start an API call that uses entity e: an application       *)
(* thread, or a runtime thread inside a callback that does so.             *)
Free(t, e) ==
  /\ call[t] = Idle
  /\ \/ t \in App
     \/ t \in Worker /\ task[t].phase = "calling" /\ <<task[t].on, e>> \in MayUndeclare

Enter(t, op, e, gone, wait) ==
  call' = [call EXCEPT ![t] = [op |-> op, e |-> e, gone |-> gone, wait |-> wait]]

Leave(t) == call' = [call EXCEPT ![t] = Idle]

(* The closures of S that are inside zenoh-c.                              *)
Inside(S) == {e \in S : closure[e] \in {"lent", "dropping"}}

(* Slip: the listeners of an undeclared entity are forgotten.              *)
FamilyAlone(e) == {e}

(* e and the listeners declared on it.                                     *)
Family(e) == {e} \cup {c \in Entity : parent[c] = e}

(* What wait_callbacks() returns on: every closure of S has been dropped.  *)
Drained(S) == Inside(S) = {}

-----------------------------------------------------------------------------
(* z_open: takes the configuration in every case; the session variable is  *)
(* written in every case, with the gravestone when opening fails.          *)
Open(t) ==
  /\ t \in App /\ call[t] = Idle
  /\ core = "none"
  /\ config' = "null"
  /\ \/ config = "some" /\ session' = "some" /\ core' = "open"
     \/ session' = "null" /\ UNCHANGED core
  /\ UNCHANGED <<slot, closure, registered, task, call, handle, bg, ack>>

(* z_closure_xxx: fills an uninitialized closure variable.                 *)
ConstructClosure(e) ==
  /\ e \in Closures /\ closure[e] = "fresh"
  /\ closure' = [closure EXCEPT ![e] = "owned"]
  /\ UNCHANGED <<config, session, core, slot, registered, task, call, handle, bg, ack>>

(* z_closure_xxx_drop: the application drops a closure it did not move.    *)
DropOwnClosure(t, e) ==
  /\ t \in App /\ call[t] = Idle
  /\ closure[e] = "owned"
  /\ closure' = [closure EXCEPT ![e] = "dropping"]
  /\ Enter(t, "drop_closure", e, {}, {e})
  /\ UNCHANGED <<config, session, core, slot, registered, task, handle, bg, ack>>

(* z_declare_xxx and its background variant.  The closure is taken before  *)
(* anything can fail.  A successful declaration registers the callback     *)
(* before the owned variable is written: callbacks may already run.  A     *)
(* failed one drops the builder, and the closure with it, before returning. *)
Declare(t, e) ==
  /\ t \in App /\ call[t] = Idle
  /\ session = "some"
  /\ slot[e] = "uninit" /\ \A u \in Thread : call[u].e # e
  /\ e \in Closures => closure[e] = "owned"
  /\ parent[e] # None => slot[parent[e]] = "some"
  /\ closure' = IF e \in Closures THEN [closure EXCEPT ![e] = "lent"] ELSE closure
  /\ \/ /\ core = "open"
        /\ registered' = registered \cup {e}
        /\ Enter(t, "declare", e, {}, {})
     \/ /\ Enter(t, "reject", e, {}, {e})
        /\ UNCHANGED registered
  /\ UNCHANGED <<config, session, core, slot, task, handle, bg, ack>>

DeclareReturn(t) ==
  /\ call[t].op = "declare"
  /\ LET e == call[t].e
     IN slot' = IF e \in background THEN slot ELSE [slot EXCEPT ![e] = "some"]
  /\ Leave(t)
  /\ UNCHANGED <<config, session, core, closure, registered, task, handle, bg, ack>>

RejectReturn(t) ==
  /\ call[t].op = "reject" /\ Drained(call[t].wait)
  /\ LET e == call[t].e
     IN slot' = IF e \in background \/ ~kind[e].nulls
                THEN slot ELSE [slot EXCEPT ![e] = "null"]
  /\ Leave(t)
  /\ UNCHANGED <<config, session, core, closure, registered, task, handle, bg, ack>>

(* Slip: undeclare() without wait_callbacks().                             *)
UndeclareNoWait(t, e) ==
  /\ Free(t, e)
  /\ slot[e] = "some"
  /\ slot' = [slot EXCEPT ![e] = "null"]
  /\ registered' = registered \ Family(e)
  /\ Enter(t, "undeclare", e, Inside(Family(e)), {})
  /\ UNCHANGED <<config, session, core, closure, task, handle, bg, ack>>

(* z_undeclare_xxx, and z_xxx_drop, which calls it.  The variable becomes  *)
(* the gravestone first; on a gravestone the functions do nothing.  The    *)
(* runtime may report an error (the session was closed meanwhile), and the *)
(* functions then return without waiting.                                  *)
Undeclare(t, e) ==
  /\ Free(t, e)
  /\ slot[e] = "some"
  /\ \A u \in Thread : call[u].op \in {"declare", "reject"} => parent[call[u].e] # e
  /\ slot' = [slot EXCEPT ![e] = "null"]
  /\ registered' = registered \ Family(e)
  /\ LET gone == Inside(Family(e))
     IN \/ Enter(t, "undeclare", e, gone, IF kind[e].waits THEN gone ELSE {})
        \/ UNCHANGED call
  /\ UNCHANGED <<config, session, core, closure, task, handle, bg, ack>>

(* A blocking call returns Z_OK when what it waits for has been dropped.   *)
CallReturn(t) ==
  /\ call[t].op \in {"undeclare", "drop_closure", "close", "session_drop"}
  /\ t # Closer
  /\ Drained(call[t].wait)
  /\ ack' = ack \cup call[t].gone
  /\ Leave(t)
  /\ UNCHANGED <<config, session, core, slot, closure, registered, task, handle, bg>>

-----------------------------------------------------------------------------
(* Closing removes every remaining callback from the runtime session and   *)
(* waits for those callbacks; a second close finds nothing to remove.      *)
StartClose(t, op) ==
  LET gone == Inside(registered)
  IN /\ core' = "closed"
     /\ registered' = {}
     /\ Enter(t, op, None, gone, gone)

(* z_close without a concurrent handle. *)
Close(t) ==
  /\ t \in App /\ call[t] = Idle
  /\ session = "some"
  /\ StartClose(t, "close")
  /\ UNCHANGED <<config, session, slot, closure, task, handle, bg, ack>>

(* The close timeout, 10 s unless the options say otherwise: z_close       *)
(* returns Z_EGENERIC, z_session_drop discards the error and returns.      *)
CloseTimeout(t) ==
  /\ call[t].op \in {"close", "session_drop"}
  /\ ~Drained(call[t].wait)
  /\ bg' = IF t = Closer THEN "err" ELSE bg
  /\ Leave(t)
  /\ UNCHANGED <<config, session, core, slot, closure, registered, task, handle, ack>>

(* z_close with a concurrent handle: spawns the close and returns at once. *)
CloseConcurrently(t) ==
  /\ t \in App /\ call[t] = Idle
  /\ session = "some"
  /\ handle # "some" /\ call[Closer] = Idle
  /\ \A u \in App : call[u].op # "join"
  /\ handle' = "some"
  /\ bg' = "running"
  /\ Enter(Closer, "spawned", None, {}, {})
  /\ UNCHANGED <<config, session, core, slot, closure, registered, task, ack>>

CloserStart ==
  /\ call[Closer].op = "spawned"
  /\ StartClose(Closer, "close")
  /\ UNCHANGED <<config, session, slot, closure, task, handle, bg, ack>>

CloserReturn ==
  /\ call[Closer].op = "close" /\ Drained(call[Closer].wait)
  /\ bg' = "ok"
  /\ ack' = ack \cup call[Closer].gone
  /\ Leave(Closer)
  /\ UNCHANGED <<config, session, core, slot, closure, registered, task, handle>>

(* zc_concurrent_close_handle_wait: consumes the handle and joins the task. *)
HandleWait(t) ==
  /\ t \in App /\ call[t] = Idle
  /\ handle = "some"
  /\ handle' = "null"
  /\ Enter(t, "join", None, {}, {})
  /\ UNCHANGED <<config, session, core, slot, closure, registered, task, bg, ack>>

(* Slip: the join returns only when the close succeeded.                   *)
HandleWaitForOk(t) ==
  /\ call[t].op = "join" /\ bg = "ok"
  /\ Leave(t)
  /\ UNCHANGED <<config, session, core, slot, closure, registered, task, handle, bg, ack>>

HandleWaitReturn(t) ==
  /\ call[t].op = "join" /\ bg \in {"ok", "err"}
  /\ Leave(t)
  /\ UNCHANGED <<config, session, core, slot, closure, registered, task, handle, bg, ack>>

(* Slip: the dropped handle is not replaced by the gravestone.             *)
HandleDropDangling(t) ==
  /\ t \in App /\ call[t] = Idle
  /\ handle = "some"
  /\ handle' = "dangling"
  /\ UNCHANGED <<config, session, core, slot, closure, registered, task, call, bg, ack>>

(* zc_concurrent_close_handle_drop: the task is detached, not interrupted. *)
HandleDrop(t) ==
  /\ t \in App /\ call[t] = Idle
  /\ handle = "some"
  /\ handle' = "null"
  /\ UNCHANGED <<config, session, core, slot, closure, registered, task, call, bg, ack>>

(* z_session_drop: takes the session and closes it.  No thread may be in a *)
(* call that holds a loan of the session.                                  *)
SessionDrop(t) ==
  /\ t \in App /\ call[t] = Idle
  /\ session = "some"
  /\ \A u \in App : call[u].op \notin {"declare", "reject", "close"}
  /\ session' = "null"
  /\ StartClose(t, "session_drop")
  /\ UNCHANGED <<config, slot, closure, task, handle, bg, ack>>

-----------------------------------------------------------------------------
(* The runtime takes a reference to a registered callback: from here on it *)
(* may call it even if the entity is undeclared in between.                *)
Fetch(w, e) ==
  /\ task[w].on = None
  /\ e \in registered \cap Closures
  /\ task' = [task EXCEPT ![w] = [on |-> e, phase |-> "fetched"]]
  /\ UNCHANGED <<config, session, core, slot, closure, registered, call, handle, bg, ack>>

(* z_closure_xxx_call: runs `call`, or reports an error if there is none.  *)
CallStart(w) ==
  /\ task[w].on # None /\ task[w].phase = "fetched"
  /\ task' = [task EXCEPT ![w].phase = IF task[w].on \in HasCall THEN "calling" ELSE "called"]
  /\ UNCHANGED <<config, session, core, slot, closure, registered, call, handle, bg, ack>>

CallEnd(w) ==
  /\ task[w].phase = "calling" /\ call[w] = Idle
  /\ task' = [task EXCEPT ![w].phase = "called"]
  /\ UNCHANGED <<config, session, core, slot, closure, registered, call, handle, bg, ack>>

Release(w) ==
  /\ task[w].on # None /\ task[w].phase = "called"
  /\ task' = [task EXCEPT ![w] = NoTask]
  /\ UNCHANGED <<config, session, core, slot, closure, registered, call, handle, bg, ack>>

(* The last reference to a moved closure is gone: its Drop runs `drop`.    *)
Unreferenced(e) ==
  e \notin registered /\ \A w \in Worker : task[w].on # e

(* Slip: the Drop of a closure without `call' does nothing.                *)
DropStartIfCall(e) ==
  /\ closure[e] = "lent" /\ Unreferenced(e) /\ e \in HasCall
  /\ closure' = [closure EXCEPT ![e] = "dropping"]
  /\ UNCHANGED <<config, session, core, slot, registered, task, call, handle, bg, ack>>

DropStart(e) ==
  /\ closure[e] = "lent" /\ Unreferenced(e)
  /\ closure' = [closure EXCEPT ![e] = "dropping"]
  /\ UNCHANGED <<config, session, core, slot, registered, task, call, handle, bg, ack>>

(* Slip: `drop' stays set and is run again.                                *)
DropAgain(e) ==
  /\ closure[e] = "dropping"
  /\ closure' = [closure EXCEPT ![e] = "lent"]
  /\ UNCHANGED <<config, session, core, slot, registered, task, call, handle, bg, ack>>

DropEnd(e) ==
  /\ closure[e] = "dropping"
  /\ closure' = [closure EXCEPT ![e] = "dropped"]
  /\ UNCHANGED <<config, session, core, slot, registered, task, call, handle, bg, ack>>

-----------------------------------------------------------------------------
Application ==
  \E t \in App :
    \/ Open(t) \/ Close(t) \/ CloseConcurrently(t) \/ SessionDrop(t)
    \/ HandleWait(t) \/ HandleDrop(t)
    \/ \E e \in Entity : DropOwnClosure(t, e) \/ Declare(t, e)

Returns ==
  \E t \in Thread :
    \/ DeclareReturn(t) \/ RejectReturn(t) \/ CallReturn(t)
    \/ HandleWaitReturn(t) \/ CloseTimeout(t)

Runtime ==
  \/ CloserStart \/ CloserReturn
  \/ \E w \in Worker :
       \/ CallStart(w) \/ CallEnd(w) \/ Release(w)
       \/ \E e \in Entity : Fetch(w, e)
  \/ \E e \in Entity : DropStart(e) \/ DropEnd(e)

Next ==
  \/ Application \/ Returns \/ Runtime
  \/ \E e \in Entity : ConstructClosure(e) \/ \E t \in Thread : Undeclare(t, e)

(***************************************************************************)
(* Fairness: the runtime's threads are scheduled, callbacks and `drop`     *)
(* functions of the application return, and a call whose condition holds   *)
(* returns.  Nothing obliges the application to make a call, the network   *)
(* to deliver, or a timeout to fire.                                       *)
(***************************************************************************)
Fairness ==
  /\ \A t \in Thread : /\ WF_vars(DeclareReturn(t)) /\ WF_vars(RejectReturn(t))
                       /\ WF_vars(CallReturn(t)) /\ WF_vars(HandleWaitReturn(t))
  /\ WF_vars(CloserStart) /\ WF_vars(CloserReturn)
  /\ \A w \in Worker : WF_vars(CallStart(w)) /\ WF_vars(CallEnd(w)) /\ WF_vars(Release(w))
  /\ \A e \in Entity : WF_vars(DropStart(e)) /\ WF_vars(DropEnd(e))

Spec == Init /\ [][Next]_vars

FairSpec == Spec /\ Fairness

-----------------------------------------------------------------------------
(* The guarantee of z_closure_sample and its siblings, as a state          *)
(* predicate: while some thread executes the `call` of a closure, the      *)
(* `drop` of that closure has not started.                                 *)
CallNeverOverlapsDrop ==
  \A w \in Worker : task[w].phase = "calling" => closure[task[w].on] = "lent"

(* Once z_undeclare_xxx, z_xxx_drop or z_close has returned Z_OK, the      *)
(* closures it was about are dropped for good and no runtime thread holds  *)
(* a reference to them: the application may free what they point to.  The  *)
(* deprecated querying subscriber is undeclared without wait_callbacks().  *)
QuietAfterOk ==
  \A e \in ack : kind[e].name # "querying_subscriber" =>
    closure[e] = "dropped" /\ \A w \in Worker : task[w].on # e

(* Every registered callback can be stopped: the application holds, or is  *)
(* about to be given, the variable that undeclares it, or it was declared  *)
(* in the background, and then the entity it was declared on, if any, is   *)
(* still registered too.                                                   *)
NoOrphanCallback ==
  \A e \in registered :
    /\ \/ e \in background \/ slot[e] = "some"
       \/ \E t \in App : call[t].op = "declare" /\ call[t].e = e
    /\ parent[e] # None => parent[e] \in registered

(* A closure that has been moved into zenoh-c and is no longer registered  *)
(* (undeclared, rejected, or its session closed) is eventually dropped,    *)
(* also when the call that unregistered it has timed out.                  *)
MovedClosureIsDropped ==
  \A e \in Entity : (closure[e] = "lent" /\ e \notin registered) ~> (closure[e] = "dropped")

(* Every blocking call returns: no undeclare, close or join waits forever. *)
BlockedCallsReturn ==
  \A t \in Thread : (call[t] # Idle) ~> (call[t] = Idle)

(* The conjuncts that make these invariants inductive.                     *)
ReferencedIsLent ==
  /\ \A w \in Worker : task[w].on # None => task[w].on \in Closures /\ closure[task[w].on] = "lent"
  /\ \A w \in Worker : task[w].on = None => task[w].phase = "called"
  /\ \A e \in registered \cap Closures : closure[e] = "lent"
  /\ \A e \in Entity \ Closures : closure[e] = "fresh"

WaitedFor ==
  \A t \in Thread : \A c \in call[t].gone :
    /\ c \in call[t].wait \/ kind[c].name = "querying_subscriber"
    /\ closure[c] \in {"lent", "dropping", "dropped"}

PendingDeclare ==
  /\ \A t \in Thread : call[t].op \in {"declare", "reject"} =>
       /\ t \in App /\ call[t].e \in Entity /\ slot[call[t].e] = "uninit"
       /\ call[t].e \in Closures => closure[call[t].e] \in {"lent", "dropping", "dropped"}
  /\ \A t, u \in Thread : t # u /\ call[t].op \in {"declare", "reject"} => call[u].e # call[t].e

OpenMeansRegistered ==
  /\ core = "none" =>
       /\ registered = {} /\ session # "some"
       /\ \A e \in Entity : slot[e] # "some"
       /\ \A t \in Thread : call[t].op # "declare"
  /\ core = "open" => \A e \in Entity : parent[e] = None =>
       /\ slot[e] = "some" => e \in registered
       /\ \A t \in Thread : call[t].op = "declare" /\ call[t].e = e => e \in registered

SessionInv ==
  /\ TypeOK /\ ReferencedIsLent /\ WaitedFor /\ PendingDeclare /\ OpenMeansRegistered
  /\ QuietAfterOk /\ NoOrphanCallback

(* The session implements the contract of closures. *)
Contract == INSTANCE ClosureContract WITH
  Closure <- Entity, Caller <- Worker, life <- closure,
  calls <- [e \in Entity |-> {w \in Worker : task[w].on = e /\ task[w].phase = "calling"}]

ImplementsContract == Contract!ContractSpec

=============================================================================
