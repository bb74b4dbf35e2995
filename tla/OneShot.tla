------------------------------- MODULE OneShot -------------------------------
(***************************************************************************)
(* Operations that borrow a closure for their own duration: the queries    *)
(* (z_get, z_querier_get, z_liveliness_get), whose replies are delivered   *)
(* by threads of the runtime until the last reply, the timeout, the close  *)
(* of the session or z_cancellation_token_cancel; z_scout, which sleeps    *)
(* while the runtime calls the closure; and z_info_peers_zid and its       *)
(* siblings, which call it themselves before they return.                  *)
(*                                                                         *)
(* How the runtime ends a query and what a cancellation waits for are      *)
(* external.  Entities with a variable of their own are in Session.        *)
(***************************************************************************)
EXTENDS Naturals, FiniteSets

CONSTANTS
  Thread,          \* threads of the application
  Worker,          \* threads of the runtime
  Op,              \* the operations, each with its closure
  Token,           \* cancellation tokens
  None,
  Kinds,           \* the assignments of functions to the operations that are looked at
  tokenFor,        \* tokenFor[o]: the token in the options of o if it is a query, or None
  timeoutOf,       \* timeoutOf[o]: timeout_ms in the options of o
  DefaultTimeout,  \* the query timeout of the configuration
  MaxTime          \* bound on the time that is counted

ASSUME OneShotAssumption ==
  /\ Thread \cap Worker = {} /\ Op \cap Token = {} /\ None \notin Op \cup Token
  /\ Kinds \subseteq [Op -> {"get", "querier_get", "liveliness_get", "info", "scout"}]
  /\ tokenFor \in [Op -> Token \cup {None}]
  /\ MaxTime \in Nat /\ timeoutOf \in [Op -> 0..MaxTime]
  /\ DefaultTimeout \in 1..MaxTime

VARIABLES
  kindOf,     \* kindOf[o]: the function that o is a call of
  session,    \* whether the session has been closed
  closure,    \* closure[o]: as in ClosureContract
  pending,    \* the operations whose callback the runtime can still look up
  attached,   \* the queries that were submitted with their token
  task,       \* task[w]: the callback that runtime thread w holds
  call,       \* call[t]: the function that application thread t is in
  result,     \* result[o]: what the function returned
  token,      \* token[k]: the application's z_owned_cancellation_token_t
  cancelled,  \* the tokens that have been cancelled
  acked,      \* the tokens whose cancellation returned Z_OK
  age,        \* age[o]: the time since o was submitted, while it is pending
  expired     \* the operations that were ended by their timeout

vars == <<kindOf, session, closure, pending, attached, task, call, result, token, cancelled, acked,
          age, expired>>

Idle == [in |-> "application", of |-> None, at |-> "", res |-> "Z_OK"]
NoTask == [on |-> None, phase |-> "none"]

Queries == {o \in Op : kindOf[o] \in {"get", "querier_get", "liveliness_get"}}

TokenOf(o) == IF o \in Queries THEN tokenFor[o] ELSE None

Results == {"Z_OK", "Z_EINVAL", "Z_ESESSION_CLOSED", "Z_EGENERIC"}
Places == {"loop", "calling", "scouting", "leaving", "sent"}

Calls == {Idle}
         \cup [in : {"operation"}, of : Op, at : Places, res : Results]
         \cup [in : {"cancel"}, of : Token, at : {"waiting"}, res : {"Z_OK"}]

Tasks == [on : Op \cup {None}, phase : {"none", "fetched", "calling"}]

TypeOK ==
  /\ kindOf \in Kinds
  /\ session \in {"open", "closed"}
  /\ closure \in [Op -> {"fresh", "owned", "lent", "dropping", "dropped"}]
  /\ pending \subseteq Op /\ expired \subseteq Op /\ attached \subseteq Op
  /\ task \in [Worker -> Tasks]
  /\ call \in [Thread -> Calls]
  /\ result \in [Op -> Results \cup {"none"}]
  /\ token \in [Token -> {"uninit", "some", "null"}]
  /\ acked \subseteq Token /\ cancelled \subseteq Token
  /\ age \in [Op -> 0..MaxTime]

Init ==
  /\ kindOf \in Kinds
  /\ session = "open"
  /\ closure = [o \in Op |-> "fresh"]
  /\ pending = {} /\ attached = {} /\ expired = {}
  /\ task = [w \in Worker |-> NoTask]
  /\ call = [t \in Thread |-> Idle]
  /\ result = [o \in Op |-> "none"]
  /\ token = [k \in Token |-> "uninit"]
  /\ cancelled = {} /\ acked = {}
  /\ age = [o \in Op |-> 0]

Enter(t, fn, x, where, res) ==
  call' = [call EXCEPT ![t] = [in |-> fn, of |-> x, at |-> where, res |-> res]]

-----------------------------------------------------------------------------
(* z_closure_reply, z_closure_zid, z_closure_hello, ...                    *)
ConstructClosure(o) ==
  /\ closure[o] = "fresh"
  /\ closure' = [closure EXCEPT ![o] = "owned"]
  /\ UNCHANGED <<kindOf, session, pending, attached, task, call, result, token, cancelled, acked, age, expired>>

NewToken(k) ==
  /\ token[k] = "uninit"
  /\ token' = [token EXCEPT ![k] = "some"]
  /\ UNCHANGED <<kindOf, session, closure, pending, attached, task, call, result, cancelled, acked, age, expired>>

(* The clones that queries hold keep the token alive; nothing is cancelled. *)
DropToken(k) ==
  /\ token[k] = "some" /\ \A t \in Thread : call[t].of # k
  /\ token' = [token EXCEPT ![k] = "null"]
  /\ UNCHANGED <<kindOf, session, closure, pending, attached, task, call, result, cancelled, acked, age, expired>>

(* The application calls the function of o: the closure is taken first. A  *)
(* clone of the token is in the options.                                   *)
Take(t, o) ==
  /\ call[t] = Idle
  /\ closure[o] = "owned"
  /\ TokenOf(o) # None => token[TokenOf(o)] = "some"
  /\ closure' = [closure EXCEPT ![o] = "lent"]

(* Slip: parameters that are not valid UTF-8 give a code of another kind.  *)
RejectParse(t, o) ==
  /\ Take(t, o)
  /\ kindOf[o] \in {"get", "querier_get", "scout"}
  /\ Enter(t, "operation", o, "leaving", "Z_EPARSE")
  /\ UNCHANGED <<kindOf, session, pending, attached, task, result, token, cancelled, acked, age, expired>>

(* An early return: the parameters are not valid UTF-8, the configuration  *)
(* of z_scout is a gravestone.  The closure goes out of scope.             *)
Reject(t, o) ==
  /\ Take(t, o)
  /\ kindOf[o] \in {"get", "querier_get", "scout"}
  /\ Enter(t, "operation", o, "leaving", "Z_EINVAL")
  /\ UNCHANGED <<kindOf, session, pending, attached, task, result, token, cancelled, acked, age, expired>>

(* The runtime refuses a query of a closed session; z_liveliness_get does  *)
(* not tell this error from others.                                        *)
SessionClosed(t, o) ==
  /\ Take(t, o)
  /\ o \in Queries /\ session = "closed"
  /\ Enter(t, "operation", o, "leaving",
           IF kindOf[o] = "liveliness_get" THEN "Z_EGENERIC" ELSE "Z_ESESSION_CLOSED")
  /\ UNCHANGED <<kindOf, session, pending, attached, task, result, token, cancelled, acked, age, expired>>

(* A query with a token that is cancelled already is not sent.             *)
AlreadyCancelled(t, o) ==
  /\ Take(t, o)
  /\ session = "open" /\ TokenOf(o) \in cancelled
  /\ \E r \in {"Z_OK", "Z_EGENERIC"} : Enter(t, "operation", o, "leaving", r)
  /\ UNCHANGED <<kindOf, session, pending, attached, task, result, token, cancelled, acked, age, expired>>

(* Slip: the token is taken out of the options and not given to the query. *)
SubmitWithoutToken(t, o) ==
  /\ Take(t, o)
  /\ o \in Queries /\ session = "open" /\ TokenOf(o) \notin cancelled
  /\ pending' = pending \cup {o}
  /\ Enter(t, "operation", o, "sent", "Z_OK")
  /\ UNCHANGED <<kindOf, session, attached, task, result, token, cancelled, acked, age, expired>>

(* The closure is moved into the callback of the query and the token is    *)
(* given to it; replies may be delivered before the function returns.      *)
Submit(t, o) ==
  /\ Take(t, o)
  /\ o \in Queries /\ session = "open" /\ TokenOf(o) \notin cancelled
  /\ pending' = pending \cup {o}
  /\ attached' = attached \cup {q \in {o} : TokenOf(q) # None}
  /\ Enter(t, "operation", o, "sent", "Z_OK")
  /\ UNCHANGED <<kindOf, session, task, result, token, cancelled, acked, age, expired>>

(* wait() comes back; after an error the runtime does not keep the query.  *)
Sent(t) ==
  /\ call[t].at = "sent"
  /\ \/ /\ result' = [result EXCEPT ![call[t].of] = "Z_OK"]
        /\ UNCHANGED pending
     \/ /\ result' = [result EXCEPT ![call[t].of] = "Z_EGENERIC"]
        /\ pending' = pending \ {call[t].of}
  /\ call' = [call EXCEPT ![t] = Idle]
  /\ UNCHANGED <<kindOf, session, closure, attached, task, token, cancelled, acked, age, expired>>

(* z_info_peers_zid, z_info_routers_zid, z_info_transports, z_info_links:  *)
(* the thread calls the closure for every item, then drops it.             *)
Info(t, o) ==
  /\ Take(t, o) /\ kindOf[o] = "info"
  /\ Enter(t, "operation", o, "loop", "Z_OK")
  /\ UNCHANGED <<kindOf, session, pending, attached, task, result, token, cancelled, acked, age, expired>>

InfoCall(t) ==
  /\ call[t].at = "loop" /\ call' = [call EXCEPT ![t].at = "calling"]
  /\ UNCHANGED <<kindOf, session, closure, pending, attached, task, result, token, cancelled, acked, age, expired>>

InfoCallEnd(t) ==
  /\ call[t].at = "calling" /\ call' = [call EXCEPT ![t].at = "loop"]
  /\ UNCHANGED <<kindOf, session, closure, pending, attached, task, result, token, cancelled, acked, age, expired>>

InfoDone(t) ==
  /\ call[t].at = "loop" /\ call' = [call EXCEPT ![t].at = "leaving"]
  /\ UNCHANGED <<kindOf, session, closure, pending, attached, task, result, token, cancelled, acked, age, expired>>

(* z_scout: if scouting starts, the thread sleeps for timeout_ms while the *)
(* runtime calls the closure; then the Scout goes out of scope.            *)
Scout(t, o) ==
  /\ Take(t, o) /\ kindOf[o] = "scout"
  /\ \/ Enter(t, "operation", o, "scouting", "Z_OK") /\ pending' = pending \cup {o}
     \/ Enter(t, "operation", o, "leaving", "Z_EGENERIC") /\ UNCHANGED pending
  /\ UNCHANGED <<kindOf, session, attached, task, result, token, cancelled, acked, age, expired>>

ScoutEnd(t) ==
  /\ call[t].at = "scouting" /\ age[call[t].of] >= timeoutOf[call[t].of]
  /\ pending' = pending \ {call[t].of}
  /\ result' = [result EXCEPT ![call[t].of] = "Z_OK"]
  /\ call' = [call EXCEPT ![t] = Idle]
  /\ UNCHANGED <<kindOf, session, closure, attached, task, token, cancelled, acked, age, expired>>

(* Slip: the closure is handed to the runtime's garbage and not dropped    *)
(* in the scope of the function.                                           *)
LeaveAtOnce(t) ==
  /\ call[t].at = "leaving"
  /\ result' = [result EXCEPT ![call[t].of] = call[t].res]
  /\ call' = [call EXCEPT ![t] = Idle]
  /\ UNCHANGED <<kindOf, session, closure, pending, attached, task, token, cancelled, acked, age, expired>>

(* The end of the scope that owns the closure: its Drop has run `drop'.    *)
Leave(t) ==
  /\ call[t].at = "leaving" /\ closure[call[t].of] = "dropped"
  /\ result' = [result EXCEPT ![call[t].of] = call[t].res]
  /\ call' = [call EXCEPT ![t] = Idle]
  /\ UNCHANGED <<kindOf, session, closure, pending, attached, task, token, cancelled, acked, age, expired>>

-----------------------------------------------------------------------------
With(k) == {o \in attached : TokenOf(o) = k}

(* z_cancellation_token_cancel: the queries with a clone of the token are  *)
(* forgotten, and the call blocks until their callbacks are gone.  It may  *)
(* also fail, with any of them left as they were.                          *)
Cancel(t, k) ==
  /\ call[t] = Idle /\ token[k] = "some"
  /\ cancelled' = cancelled \cup {k}
  /\ \/ pending' = pending \ With(k) /\ Enter(t, "cancel", k, "waiting", "Z_OK")
     \/ \E S \in SUBSET With(k) : pending' = pending \ S /\ UNCHANGED call
  /\ UNCHANGED <<kindOf, session, closure, attached, task, result, token, acked, age, expired>>

(* Slip: operations that have not been started are waited for as well.     *)
CancelReturnWaitsForAll(t) ==
  /\ call[t].at = "waiting"
  /\ \A o \in Op : TokenOf(o) = call[t].of => closure[o] = "dropped"
  /\ acked' = acked \cup {call[t].of}
  /\ call' = [call EXCEPT ![t] = Idle]
  /\ UNCHANGED <<kindOf, session, closure, pending, attached, task, result, token, cancelled, age, expired>>

CancelReturn(t) ==
  /\ call[t].at = "waiting"
  /\ \A o \in With(call[t].of) : closure[o] = "dropped"
  /\ acked' = acked \cup {call[t].of}
  /\ call' = [call EXCEPT ![t] = Idle]
  /\ UNCHANGED <<kindOf, session, closure, pending, attached, task, result, token, cancelled, age, expired>>

(* z_close: no query survives its session.  What z_close waits for is in   *)
(* Session; scouting has no session.                                       *)
Close ==
  /\ session = "open" /\ session' = "closed"
  /\ pending' = pending \ Queries
  /\ UNCHANGED <<kindOf, closure, attached, task, call, result, token, cancelled, acked, age, expired>>

-----------------------------------------------------------------------------
(* Slip: the option is handed on without a look at 0.                      *)
LimitAsGiven(o) == timeoutOf[o]

(* Slip: 0 turns the timeout off.                                          *)
LimitZeroIsNever(o) == IF timeoutOf[o] = 0 THEN MaxTime + 1 ELSE timeoutOf[o]

(* The timeout that the query is given.                                    *)
Limit(o) ==
  IF timeoutOf[o] # 0 \/ kindOf[o] \in {"liveliness_get", "scout"}
  THEN timeoutOf[o]
  ELSE DefaultTimeout

Tick ==
  /\ \E o \in pending : age[o] < MaxTime
  /\ age' = [o \in Op |-> IF o \in pending /\ age[o] < MaxTime THEN age[o] + 1 ELSE age[o]]
  /\ UNCHANGED <<kindOf, session, closure, pending, attached, task, call, result, token, cancelled, acked, expired>>

Timeout(o) ==
  /\ o \in pending \cap Queries /\ age[o] >= Limit(o)
  /\ pending' = pending \ {o} /\ expired' = expired \cup {o}
  /\ UNCHANGED <<kindOf, session, closure, attached, task, call, result, token, cancelled, acked, age>>

FinalReply(o) ==
  /\ o \in pending \cap Queries
  /\ pending' = pending \ {o}
  /\ UNCHANGED <<kindOf, session, closure, attached, task, call, result, token, cancelled, acked, age, expired>>

(* A reply or a hello arrives: a runtime thread takes a reference to the   *)
(* callback and later calls the closure with an object it owns.            *)
Fetch(w, o) ==
  /\ task[w] = NoTask /\ o \in pending
  /\ task' = [task EXCEPT ![w] = [on |-> o, phase |-> "fetched"]]
  /\ UNCHANGED <<kindOf, session, closure, pending, attached, call, result, token, cancelled, acked, age, expired>>

CallStart(w) ==
  /\ task[w].phase = "fetched"
  /\ task' = [task EXCEPT ![w].phase = "calling"]
  /\ UNCHANGED <<kindOf, session, closure, pending, attached, call, result, token, cancelled, acked, age, expired>>

CallEnd(w) ==
  /\ task[w].phase = "calling"
  /\ task' = [task EXCEPT ![w] = NoTask]
  /\ UNCHANGED <<kindOf, session, closure, pending, attached, call, result, token, cancelled, acked, age, expired>>

(* Slip: the callback borrows the closure, which goes with the query.      *)
DropStartBorrowed(o) ==
  /\ closure[o] = "lent" /\ o \notin pending
  /\ \A t \in Thread : call[t].of = o => call[t].at \in {"leaving", "sent"}
  /\ closure' = [closure EXCEPT ![o] = "dropping"]
  /\ UNCHANGED <<kindOf, session, pending, attached, task, call, result, token, cancelled, acked, age, expired>>

(* The last owner of the closure is gone: its Drop runs `drop'.            *)
DropStart(o) ==
  /\ closure[o] = "lent" /\ o \notin pending
  /\ \A w \in Worker : task[w].on # o
  /\ \A t \in Thread : call[t].of = o => call[t].at \in {"leaving", "sent"}
  /\ closure' = [closure EXCEPT ![o] = "dropping"]
  /\ UNCHANGED <<kindOf, session, pending, attached, task, call, result, token, cancelled, acked, age, expired>>

DropEnd(o) ==
  /\ closure[o] = "dropping"
  /\ closure' = [closure EXCEPT ![o] = "dropped"]
  /\ UNCHANGED <<kindOf, session, pending, attached, task, call, result, token, cancelled, acked, age, expired>>

-----------------------------------------------------------------------------
Start(t, o) ==
  Reject(t, o) \/ SessionClosed(t, o) \/ AlreadyCancelled(t, o) \/ Submit(t, o)
  \/ Info(t, o) \/ Scout(t, o)

Return(t) ==
  Sent(t) \/ InfoCallEnd(t) \/ InfoDone(t) \/ ScoutEnd(t) \/ Leave(t) \/ CancelReturn(t)

Run(w) == CallStart(w) \/ CallEnd(w)

Next ==
  \/ \E o \in Op : \/ ConstructClosure(o) \/ Timeout(o) \/ FinalReply(o)
                   \/ DropStart(o) \/ DropEnd(o)
                   \/ \E t \in Thread : Start(t, o)
                   \/ \E w \in Worker : Fetch(w, o)
  \/ \E k \in Token : NewToken(k) \/ DropToken(k) \/ \E t \in Thread : Cancel(t, k)
  \/ \E t \in Thread : Return(t) \/ InfoCall(t)
  \/ \E w \in Worker : Run(w)
  \/ Close \/ Tick

Spec == Init /\ [][Next]_vars

(* Time passes and timers fire; threads are scheduled; the functions of    *)
(* the closures return; the list that z_info_xxx goes through is finite.   *)
(* Nothing says that a reply comes.                                        *)
FairSpec ==
  /\ Spec
  /\ WF_vars(Tick)
  /\ \A o \in Op : WF_vars(Timeout(o)) /\ WF_vars(DropStart(o)) /\ WF_vars(DropEnd(o))
  /\ \A w \in Worker : WF_vars(Run(w))
  /\ \A t \in Thread : WF_vars(Return(t)) /\ SF_vars(InfoDone(t))

-----------------------------------------------------------------------------
(* After z_cancellation_token_cancel returned Z_OK, the closure of every   *)
(* query that was made with the token, before, during or after the         *)
(* cancellation, is dropped as soon as the function has returned.          *)
CancelIsQuiet ==
  \A o \in Op : TokenOf(o) \in acked /\ result[o] # "none" => closure[o] = "dropped"

(* z_info_xxx: the closure is dropped before the function exits.  The same *)
(* holds for the operations that were refused before they began, whose     *)
(* caller has nothing left to wait for.                                    *)
RefusedIsDropped ==
  \A o \in Op :
    result[o] \in (IF kindOf[o] = "info" THEN Results ELSE {"Z_EINVAL", "Z_ESESSION_CLOSED"})
      => closure[o] = "dropped"

(* timeout_ms of the options: a query is not given up before that time has *)
(* passed; 0 stands for the timeout of the configuration.                  *)
TimeoutIsHonoured ==
  \A o \in expired : age[o] >= (IF timeoutOf[o] = 0 THEN DefaultTimeout ELSE timeoutOf[o])

(* The closure of an operation is dropped in the end, whether or not       *)
(* anybody replies, and whatever is cancelled or closed meanwhile.         *)
ClosureIsDropped == \A o \in Op : (closure[o] = "lent") ~> (closure[o] = "dropped")

(* No function keeps its caller for ever: not the cancellation, which      *)
(* waits for callbacks, and not the operations.                            *)
FunctionsReturn == \A t \in Thread : (call[t] # Idle) ~> (call[t] = Idle)

(* Whoever can still reach a closure finds it neither dropped nor being    *)
(* dropped.                                                                *)
ReachableIsLent ==
  /\ \A o \in pending : closure[o] = "lent"
  /\ \A w \in Worker : /\ task[w].phase # "none" => task[w].on \in Op
                       /\ task[w].on \in Op => closure[task[w].on] = "lent"

(* What the functions know about their operation while they execute.       *)
Executing ==
  \A t \in Thread :
    /\ call[t].at \in {"loop", "calling"} => closure[call[t].of] = "lent"
    /\ call[t].at = "scouting" => kindOf[call[t].of] = "scout"
    /\ call[t].at = "sent" => /\ call[t].of \in Queries
                              /\ tokenFor[call[t].of] # None => call[t].of \in attached
    /\ call[t].at = "waiting" => call[t].of \in cancelled

(* A query that has returned was submitted with its token or is over.      *)
ReturnedQueries ==
  /\ acked \subseteq cancelled
  /\ \A o \in attached : o \in Queries /\ (tokenFor[o] \in acked => closure[o] = "dropped")
  /\ \A o \in Queries : result[o] # "none" /\ tokenFor[o] # None
       => o \in attached \/ closure[o] = "dropped"

OneShotInv ==
  TypeOK /\ ReachableIsLent /\ Executing /\ ReturnedQueries /\ RefusedIsDropped

(* The threads that are executing `call' of the closure of o.              *)
Running ==
  [o \in Op |-> {w \in Worker : task[w].on = o /\ task[w].phase = "calling"}
                \cup {t \in Thread : call[t].of = o /\ call[t].at = "calling"}]

Contract == INSTANCE ClosureContract WITH
  Closure <- Op, Caller <- Worker \cup Thread, life <- closure, calls <- Running

(* Replies, hellos and items are delivered within the contract of          *)
(* closures.                                                               *)
DeliversWithinContract == Contract!ContractSpec

=============================================================================
