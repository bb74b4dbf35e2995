---------------------------- MODULE OneShotProofs ----------------------------
(***************************************************************************)
(* For every set of threads, operations and tokens: the operations of      *)
(* OneShot keep the promises about the closures they borrow.               *)
(***************************************************************************)
EXTENDS OneShot, TLAPS

(* The records that stand for a thread's call and for a callback's task.   *)
LEMMA CallFacts ==
  /\ Idle \in Calls /\ Idle.at = "" /\ Idle.of = None
  /\ \A c \in Calls : /\ c = Idle \/ c.at \in Places \cup {"waiting"}
                      /\ c.at \in Places => c.of \in Op /\ c.res \in Results
                      /\ c.at = "waiting" => c.of \in Token
<1>1. Idle.at = "" /\ Idle.of = None
  BY DEF Idle
<1>2. Idle.at \notin Places /\ Idle.at # "waiting"
  BY DEF Idle, Places
<1>3. ASSUME NEW c \in [in : {"operation"}, of : Op, at : Places, res : Results]
      PROVE  c.at \in Places /\ c.at # "waiting" /\ c.of \in Op /\ c.res \in Results
  BY <1>3 DEF Places
<1>4. ASSUME NEW c \in [in : {"cancel"}, of : Token, at : {"waiting"}, res : {"Z_OK"}]
      PROVE  c.at = "waiting" /\ c.at \notin Places /\ c.of \in Token
  BY <1>4 DEF Places
<1>. QED BY <1>1, <1>2, <1>3, <1>4, Zenon DEF Calls

(* A step of z_info_xxx from one place of its loop to another.             *)
LEMMA LoopFacts ==
  ASSUME NEW c \in Calls, c.at \in {"loop", "calling"}, NEW l \in {"loop", "calling", "leaving"}
  PROVE  [c EXCEPT !.at = l] \in Calls /\ [c EXCEPT !.at = l].at = l /\ [c EXCEPT !.at = l].of = c.of
<1>1. c # Idle
  <2>1. Idle.at \notin {"loop", "calling"}
    BY DEF Idle
  <2>. QED BY <2>1, Zenon
<1>2. ASSUME c \in [in : {"cancel"}, of : Token, at : {"waiting"}, res : {"Z_OK"}]
      PROVE  FALSE
  BY <1>2
<1>3. c \in [in : {"operation"}, of : Op, at : Places, res : Results]
  BY <1>1, <1>2, Zenon DEF Calls
<1>. QED BY <1>3 DEF Calls, Places

LEMMA NewOperation ==
  ASSUME NEW t \in Thread, NEW o \in Op, NEW l \in Places, NEW r \in Results,
         call \in [Thread -> Calls], Enter(t, "operation", o, l, r)
  PROVE  /\ call' \in [Thread -> Calls]
         /\ call'[t].at = l /\ call'[t].of = o
         /\ \A u \in Thread : u # t => call'[u] = call[u]
<1>1. [in |-> "operation", of |-> o, at |-> l, res |-> r] \in Calls
  BY DEF Calls
<1>. QED BY <1>1 DEF Enter

LEMMA NewCancel ==
  ASSUME NEW t \in Thread, NEW k \in Token, call \in [Thread -> Calls],
         Enter(t, "cancel", k, "waiting", "Z_OK")
  PROVE  /\ call' \in [Thread -> Calls]
         /\ call'[t].at = "waiting" /\ call'[t].of = k
         /\ \A u \in Thread : u # t => call'[u] = call[u]
<1>1. [in |-> "cancel", of |-> k, at |-> "waiting", res |-> "Z_OK"] \in Calls
  BY DEF Calls
<1>. QED BY <1>1 DEF Enter

LEMMA TaskFacts ==
  /\ NoTask \in Tasks /\ NoTask.phase = "none" /\ NoTask.on = None
  /\ \A o \in Op : LET f == [on |-> o, phase |-> "fetched"]
                   IN  f \in Tasks /\ f.on = o /\ f.phase = "fetched"
  /\ \A c \in Tasks : /\ c.on \in Op \cup {None} /\ c.phase \in {"none", "fetched", "calling"}
                      /\ [c EXCEPT !.phase = "calling"] \in Tasks
                      /\ [c EXCEPT !.phase = "calling"].on = c.on
                      /\ [c EXCEPT !.phase = "calling"].phase = "calling"
BY DEF Tasks, NoTask

LEMMA InitTypeOK == Init => TypeOK
<1>. SUFFICES ASSUME Init PROVE TypeOK
  OBVIOUS
<1>1. age \in [Op -> 0..MaxTime]
  BY OneShotAssumption DEF Init
<1>2. call \in [Thread -> Calls] /\ task \in [Worker -> Tasks]
  BY CallFacts, TaskFacts, Zenon DEF Init
<1>3. result \in [Op -> Results \cup {"none"}] /\ token \in [Token -> {"uninit", "some", "null"}]
  BY DEF Init
<1>. QED BY <1>1, <1>2, <1>3 DEF Init, TypeOK

LEMMA NextTypeOK ==
  ASSUME TypeOK, [Next]_vars
  PROVE  TypeOK'
<1> USE OneShotAssumption DEF TypeOK
<1>1. ASSUME NEW o \in Op, ConstructClosure(o) PROVE TypeOK'
  BY <1>1 DEF ConstructClosure
<1>2. ASSUME NEW o \in Op, Timeout(o) PROVE TypeOK'
  BY <1>2 DEF Timeout
<1>3. ASSUME NEW o \in Op, FinalReply(o) PROVE TypeOK'
  BY <1>3 DEF FinalReply
<1>4. ASSUME NEW o \in Op, DropStart(o) PROVE TypeOK'
  BY <1>4 DEF DropStart
<1>5. ASSUME NEW o \in Op, DropEnd(o) PROVE TypeOK'
  BY <1>5 DEF DropEnd
<1>6. ASSUME NEW t \in Thread, NEW o \in Op, Reject(t, o) PROVE TypeOK'
  BY <1>6, NewOperation DEF Reject, Take, Places, Results
<1>7. ASSUME NEW t \in Thread, NEW o \in Op, SessionClosed(t, o) PROVE TypeOK'
  BY <1>7, NewOperation DEF SessionClosed, Take, Places, Results
<1>8. ASSUME NEW t \in Thread, NEW o \in Op, AlreadyCancelled(t, o) PROVE TypeOK'
  BY <1>8, NewOperation DEF AlreadyCancelled, Take, Places, Results
<1>9. ASSUME NEW t \in Thread, NEW o \in Op, Submit(t, o) PROVE TypeOK'
  BY <1>9, NewOperation DEF Submit, Take, Places, Results
<1>10. ASSUME NEW t \in Thread, NEW o \in Op, Info(t, o) PROVE TypeOK'
  BY <1>10, NewOperation DEF Info, Take, Places, Results
<1>11. ASSUME NEW t \in Thread, NEW o \in Op, Scout(t, o) PROVE TypeOK'
  BY <1>11, NewOperation DEF Scout, Take, Places, Results
<1>12. ASSUME NEW w \in Worker, NEW o \in Op, Fetch(w, o) PROVE TypeOK'
  BY <1>12, TaskFacts DEF Fetch
<1>13. ASSUME NEW k \in Token, NewToken(k) PROVE TypeOK'
  BY <1>13 DEF NewToken
<1>14. ASSUME NEW k \in Token, DropToken(k) PROVE TypeOK'
  BY <1>14 DEF DropToken
<1>15. ASSUME NEW t \in Thread, NEW k \in Token, Cancel(t, k) PROVE TypeOK'
  BY <1>15, NewCancel DEF Cancel, Results
<1>16. ASSUME NEW t \in Thread, Sent(t) PROVE TypeOK'
  <2>1. call[t].of \in Op /\ Idle \in Calls
    BY <1>16, CallFacts DEF Sent, Places
  <2>2. result' \in [Op -> Results \cup {"none"}] /\ pending' \subseteq Op
    BY <1>16, <2>1 DEF Sent, Results
  <2>3. call' \in [Thread -> Calls]
    BY <1>16, <2>1 DEF Sent
  <2>. QED BY <1>16, <2>2, <2>3 DEF Sent
<1>17. ASSUME NEW t \in Thread, InfoCall(t) PROVE TypeOK'
  BY <1>17, LoopFacts DEF InfoCall
<1>18. ASSUME NEW t \in Thread, InfoCallEnd(t) PROVE TypeOK'
  BY <1>18, LoopFacts DEF InfoCallEnd
<1>19. ASSUME NEW t \in Thread, InfoDone(t) PROVE TypeOK'
  BY <1>19, LoopFacts DEF InfoDone
<1>20. ASSUME NEW t \in Thread, ScoutEnd(t) PROVE TypeOK'
  BY <1>20, CallFacts DEF ScoutEnd, Places, Results
<1>21. ASSUME NEW t \in Thread, Leave(t) PROVE TypeOK'
  BY <1>21, CallFacts DEF Leave, Places, Results
<1>22. ASSUME NEW t \in Thread, CancelReturn(t) PROVE TypeOK'
  <2>1. call[t].of \in Token /\ Idle \in Calls
    BY <1>22, CallFacts, Zenon DEF CancelReturn
  <2>2. acked' \subseteq Token /\ call' \in [Thread -> Calls]
    BY <1>22, <2>1 DEF CancelReturn
  <2>. QED BY <1>22, <2>2 DEF CancelReturn
<1>23. ASSUME NEW w \in Worker, CallStart(w) PROVE TypeOK'
  BY <1>23, TaskFacts DEF CallStart
<1>24. ASSUME NEW w \in Worker, CallEnd(w) PROVE TypeOK'
  BY <1>24, TaskFacts DEF CallEnd
<1>25. ASSUME Close PROVE TypeOK'
  BY <1>25 DEF Close
<1>26. ASSUME Tick PROVE TypeOK'
  BY <1>26 DEF Tick
<1>27. CASE UNCHANGED vars
  BY <1>27 DEF vars
<1>. QED
  BY <1>1, <1>2, <1>3, <1>4, <1>5, <1>6, <1>7, <1>8, <1>9, <1>10, <1>11,
     <1>12, <1>13, <1>14, <1>15, <1>16, <1>17, <1>18, <1>19, <1>20, <1>21,
     <1>22, <1>23, <1>24, <1>25, <1>26, <1>27 DEF Next, Start, Return, Run

-----------------------------------------------------------------------------
(* What no step undoes.                                                    *)
LEMMA Forward ==
  ASSUME TypeOK, [Next]_vars
  PROVE  /\ kindOf' = kindOf
         /\ attached \subseteq attached' /\ cancelled \subseteq cancelled' /\ acked \subseteq acked'
         /\ \A o \in Op : /\ closure[o] = "dropped" => closure'[o] = "dropped"
                          /\ closure[o] = "lent" => closure'[o] = "lent" \/ DropStart(o)
<1> USE DEF TypeOK
<1>1. \/ closure' = closure
      \/ \E o \in Op : ConstructClosure(o) \/ DropStart(o) \/ DropEnd(o)
      \/ \E t \in Thread, o \in Op : Take(t, o)
  BY DEF Next, Start, Return, Run, vars, Timeout, FinalReply, Reject, SessionClosed, AlreadyCancelled,
     Submit, Sent, Info, InfoCall, InfoCallEnd, InfoDone, Scout, ScoutEnd, Leave, Cancel, CancelReturn,
     NewToken, DropToken, Fetch, CallStart, CallEnd, Close, Tick
<1>2. \A o \in Op : /\ closure[o] = "dropped" => closure'[o] = "dropped"
                    /\ closure[o] = "lent" => closure'[o] = "lent" \/ DropStart(o)
  BY <1>1 DEF ConstructClosure, DropStart, DropEnd, Take
<1>3. /\ kindOf' = kindOf
      /\ attached \subseteq attached' /\ cancelled \subseteq cancelled' /\ acked \subseteq acked'
  BY DEF Next, Start, Return, Run, vars, ConstructClosure, Timeout, FinalReply, Reject, SessionClosed,
     AlreadyCancelled, Submit, Sent, Info, InfoCall, InfoCallEnd, InfoDone, Scout, ScoutEnd, Leave,
     Cancel, CancelReturn, NewToken, DropToken, Fetch, CallStart, CallEnd, DropStart, DropEnd, Close, Tick
<1>. QED BY <1>2, <1>3

(* The functions that return are the only ones that set a result.          *)
LEMMA ResultStep ==
  ASSUME [Next]_vars
  PROVE  result' = result \/ \E t \in Thread : Sent(t) \/ ScoutEnd(t) \/ Leave(t)
BY DEF Next, Start, Return, Run, vars, ConstructClosure, Timeout, FinalReply, Reject, SessionClosed,
   AlreadyCancelled, Submit, Info, InfoCall, InfoCallEnd, InfoDone, Scout,
   Cancel, CancelReturn, NewToken, DropToken, Fetch, CallStart, CallEnd, DropStart, DropEnd, Close, Tick

(* How a thread of the application can move: it stays, returns, goes       *)
(* through the loop of z_info_xxx, starts an operation or a cancellation.  *)
Moved(u) ==
  \/ call'[u] = call[u]
  \/ call'[u] = Idle
  \/ /\ call[u].at \in {"loop", "calling"} /\ call'[u].of = call[u].of
     /\ call'[u].at \in {"loop", "calling", "leaving"} /\ closure' = closure
  \/ \E o \in Op : /\ call[u] = Idle /\ closure'[o] = "lent" /\ call'[u].of = o
                   /\ \/ call'[u].at \in {"leaving", "loop"}
                      \/ call'[u].at = "scouting" /\ kindOf[o] = "scout"
                      \/ /\ call'[u].at = "sent" /\ o \in Queries
                         /\ tokenFor[o] # None => o \in attached'
  \/ call[u] = Idle /\ call'[u].at = "waiting" /\ call'[u].of \in cancelled'

LEMMA CallStep ==
  ASSUME TypeOK, [Next]_vars, NEW u \in Thread
  PROVE  Moved(u)
<1> USE DEF Moved
<1>0. call \in [Thread -> Calls]
  BY DEF TypeOK
<1>20. ASSUME NEW t \in Thread, NEW o \in Op, NEW l \in Places, NEW r \in Results,
              Take(t, o), Enter(t, "operation", o, l, r),
              \/ l \in {"leaving", "loop"}
              \/ l = "scouting" /\ kindOf[o] = "scout"
              \/ l = "sent" /\ o \in Queries /\ (tokenFor[o] # None => o \in attached')
       PROVE  Moved(u)
  <2>1. /\ call'[t].at = l /\ call'[t].of = o
        /\ \A v \in Thread : v # t => call'[v] = call[v]
    BY <1>0, <1>20, NewOperation
  <2>2. call[t] = Idle /\ closure'[o] = "lent"
    BY <1>20 DEF Take, TypeOK
  <2>3. CASE u # t
    BY <2>1, <2>3
  <2>4. CASE u = t
    <3>1. call[u] = Idle /\ closure'[o] = "lent" /\ call'[u].of = o /\ call'[u].at = l
      BY <2>1, <2>2, <2>4
    <3>. QED BY <1>20, <3>1
  <2>. QED BY <2>3, <2>4
<1> HIDE DEF Moved
<1>1. ASSUME NEW t \in Thread, NEW o \in Op, Reject(t, o) PROVE Moved(u)
  BY <1>1, <1>20 DEF Reject, Places, Results
<1>2. ASSUME NEW t \in Thread, NEW o \in Op, SessionClosed(t, o) PROVE Moved(u)
  BY <1>2, <1>20 DEF SessionClosed, Places, Results
<1>3. ASSUME NEW t \in Thread, NEW o \in Op, AlreadyCancelled(t, o) PROVE Moved(u)
  BY <1>3, <1>20 DEF AlreadyCancelled, Places, Results
<1>4. ASSUME NEW t \in Thread, NEW o \in Op, Submit(t, o) PROVE Moved(u)
  BY <1>4, <1>20 DEF Submit, Places, Results, TokenOf
<1>5. ASSUME NEW t \in Thread, NEW o \in Op, Info(t, o) PROVE Moved(u)
  BY <1>5, <1>20 DEF Info, Places, Results
<1>6. ASSUME NEW t \in Thread, NEW o \in Op, Scout(t, o) PROVE Moved(u)
  BY <1>6, <1>20 DEF Scout, Places, Results
<1> USE DEF Moved
<1>7. ASSUME NEW t \in Thread, NEW k \in Token, Cancel(t, k) PROVE Moved(u)
  <2>1. CASE UNCHANGED call
    BY <2>1
  <2>2. CASE Enter(t, "cancel", k, "waiting", "Z_OK")
    <3>1. /\ call'[t].at = "waiting" /\ call'[t].of = k
          /\ \A v \in Thread : v # t => call'[v] = call[v]
      BY <1>0, <2>2, NewCancel
    <3>2. k \in cancelled' /\ call[t] = Idle
      BY <1>7 DEF Cancel
    <3>3. CASE u # t
      BY <3>1, <3>3
    <3>4. CASE u = t
      BY <3>1, <3>2, <3>4
    <3>. QED BY <3>3, <3>4
  <2>. QED BY <1>7, <2>1, <2>2 DEF Cancel
<1>8. ASSUME NEW t \in Thread, InfoCall(t) PROVE Moved(u)
  BY <1>0, <1>8, LoopFacts DEF InfoCall
<1>9. ASSUME NEW t \in Thread, InfoCallEnd(t) PROVE Moved(u)
  BY <1>0, <1>9, LoopFacts DEF InfoCallEnd
<1>10. ASSUME NEW t \in Thread, InfoDone(t) PROVE Moved(u)
  BY <1>0, <1>10, LoopFacts DEF InfoDone
<1>11. ASSUME NEW t \in Thread, Sent(t) \/ ScoutEnd(t) \/ Leave(t) \/ CancelReturn(t) PROVE Moved(u)
  BY <1>0, <1>11 DEF Sent, ScoutEnd, Leave, CancelReturn
<1>12. CASE call' = call
  BY <1>12
<1> HIDE DEF Moved
<1>13. ASSUME NEW t \in Thread, Return(t) \/ InfoCall(t) PROVE Moved(u)
  BY <1>8, <1>9, <1>10, <1>11, <1>13 DEF Return
<1>14. ASSUME NEW t \in Thread, NEW o \in Op, Start(t, o) PROVE Moved(u)
  BY <1>1, <1>2, <1>3, <1>4, <1>5, <1>6, <1>14 DEF Start
<1>15. \/ call' = call
       \/ \E t \in Thread : Return(t) \/ InfoCall(t)
       \/ \E t \in Thread, o \in Op : Start(t, o)
       \/ \E t \in Thread, k \in Token : Cancel(t, k)
  BY DEF Next, Run, vars, ConstructClosure, Timeout, FinalReply, NewToken, DropToken,
     Fetch, CallStart, CallEnd, DropStart, DropEnd, Close, Tick
<1>. QED
  BY <1>7, <1>12, <1>13, <1>14, <1>15

-----------------------------------------------------------------------------
(* Nobody reaches a closure whose drop has started: the callback is kept   *)
(* by whoever can still look it up or has looked it up.                    *)
LEMMA NextReachable ==
  ASSUME TypeOK, ReachableIsLent, [Next]_vars
  PROVE  ReachableIsLent'
<1> USE OneShotAssumption DEF TypeOK, ReachableIsLent
<1>1. ASSUME closure' = closure, task' = task, pending' \subseteq pending PROVE ReachableIsLent'
  BY <1>1
<1>2. ASSUME NEW o \in Op, ConstructClosure(o) PROVE ReachableIsLent'
  BY <1>2 DEF ConstructClosure
<1>3. ASSUME NEW o \in Op, DropStart(o) PROVE ReachableIsLent'
  BY <1>3 DEF DropStart
<1>4. ASSUME NEW o \in Op, DropEnd(o) PROVE ReachableIsLent'
  BY <1>4 DEF DropEnd
<1>5. ASSUME NEW t \in Thread, NEW o \in Op, Take(t, o), task' = task, pending' \subseteq pending \cup {o}
      PROVE  ReachableIsLent'
  BY <1>5 DEF Take
<1>6. ASSUME NEW w \in Worker, NEW o \in Op, Fetch(w, o) PROVE ReachableIsLent'
  BY <1>6, TaskFacts DEF Fetch
<1>7. ASSUME NEW w \in Worker, CallStart(w) PROVE ReachableIsLent'
  BY <1>7, TaskFacts DEF CallStart
<1>8. ASSUME NEW w \in Worker, CallEnd(w) PROVE ReachableIsLent'
  BY <1>8, TaskFacts DEF CallEnd
<1> HIDE DEF TypeOK, ReachableIsLent
<1>9. ASSUME NEW t \in Thread, NEW o \in Op, Start(t, o)
      PROVE  Take(t, o) /\ task' = task /\ pending' \subseteq pending \cup {o}
  BY <1>9 DEF Start, Reject, SessionClosed, AlreadyCancelled, Submit, Info, Scout
<1>10. \/ closure' = closure /\ task' = task /\ pending' \subseteq pending
       \/ \E o \in Op : ConstructClosure(o) \/ DropStart(o) \/ DropEnd(o)
       \/ \E t \in Thread, o \in Op : Start(t, o)
       \/ \E w \in Worker, o \in Op : Fetch(w, o)
       \/ \E w \in Worker : CallStart(w) \/ CallEnd(w)
  BY DEF Next, Return, Run, vars, Timeout, FinalReply, Sent, InfoCall, InfoCallEnd, InfoDone,
     ScoutEnd, Leave, Cancel, CancelReturn, NewToken, DropToken, Close, Tick
<1>. QED BY <1>1, <1>2, <1>3, <1>4, <1>5, <1>6, <1>7, <1>8, <1>9, <1>10

(* The loop of z_info_xxx keeps its closure; a query that was sent carries *)
(* its token; who waits for a cancellation has cancelled.                  *)
LEMMA NextExecuting ==
  ASSUME TypeOK, Executing, [Next]_vars
  PROVE  Executing'
<1> SUFFICES ASSUME NEW u \in Thread
             PROVE  (/\ call[u].at \in {"loop", "calling"} => closure[call[u].of] = "lent"
                     /\ call[u].at = "scouting" => kindOf[call[u].of] = "scout"
                     /\ call[u].at = "sent" => /\ call[u].of \in Queries
                                               /\ tokenFor[call[u].of] # None => call[u].of \in attached
                     /\ call[u].at = "waiting" => call[u].of \in cancelled)'
  BY DEF Executing
<1>1. /\ kindOf' = kindOf /\ attached \subseteq attached' /\ cancelled \subseteq cancelled'
      /\ \A o \in Op : closure[o] = "lent" => closure'[o] = "lent" \/ DropStart(o)
  BY Forward
<1>2. Queries' = Queries
  BY <1>1 DEF Queries
<1>3. CASE call'[u] = call[u]
  <2>1. call[u].at \in {"loop", "calling"} => call[u].of \in Op
    BY CallFacts DEF TypeOK, Places
  <2>2. ASSUME call[u].at \in {"loop", "calling"} PROVE closure'[call[u].of] = "lent"
    <3>1. closure[call[u].of] = "lent"
      BY <2>2 DEF Executing
    <3>2. ~ DropStart(call[u].of)
      BY <2>2 DEF DropStart
    <3>. QED BY <1>1, <2>1, <2>2, <3>1, <3>2
  <2>. QED BY <1>1, <1>2, <1>3, <2>2 DEF Executing
<1>4. CASE call'[u] = Idle
  BY <1>4, CallFacts
<1>5. CASE /\ call[u].at \in {"loop", "calling"} /\ call'[u].of = call[u].of
           /\ call'[u].at \in {"loop", "calling", "leaving"} /\ closure' = closure
  BY <1>5 DEF Executing
<1>6. ASSUME NEW o \in Op, closure'[o] = "lent", call'[u].of = o,
             \/ call'[u].at \in {"leaving", "loop"}
             \/ call'[u].at = "scouting" /\ kindOf[o] = "scout"
             \/ /\ call'[u].at = "sent" /\ o \in Queries
                /\ tokenFor[o] # None => o \in attached'
      PROVE  (/\ call[u].at \in {"loop", "calling"} => closure[call[u].of] = "lent"
              /\ call[u].at = "scouting" => kindOf[call[u].of] = "scout"
              /\ call[u].at = "sent" => /\ call[u].of \in Queries
                                        /\ tokenFor[call[u].of] # None => call[u].of \in attached
              /\ call[u].at = "waiting" => call[u].of \in cancelled)'
  BY <1>1, <1>2, <1>6
<1>7. CASE call'[u].at = "waiting" /\ call'[u].of \in cancelled'
  BY <1>7
<1>8. Moved(u)
  BY CallStep
<1>. QED BY <1>3, <1>4, <1>5, <1>6, <1>7, <1>8 DEF Moved

(* A function that is refused has dropped the closure when it returns.     *)
LEMMA NextRefused ==
  ASSUME TypeOK, Executing, RefusedIsDropped, [Next]_vars
  PROVE  RefusedIsDropped'
<1>1. kindOf' = kindOf /\ \A o \in Op : closure[o] = "dropped" => closure'[o] = "dropped"
  BY Forward
<1>2. CASE result' = result
  BY <1>1, <1>2 DEF RefusedIsDropped
<1>3. ASSUME NEW t \in Thread, Sent(t) PROVE RefusedIsDropped'
  <2>1. call[t].of \in Op /\ kindOf[call[t].of] # "info"
    BY <1>3 DEF Sent, Executing, Queries
  <2>. QED BY <1>1, <1>3, <2>1 DEF Sent, RefusedIsDropped, TypeOK
<1>4. ASSUME NEW t \in Thread, ScoutEnd(t) PROVE RefusedIsDropped'
  <2>1. call[t].of \in Op /\ kindOf[call[t].of] # "info"
    BY <1>4, CallFacts DEF ScoutEnd, Executing, Places, TypeOK
  <2>. QED BY <1>1, <1>4, <2>1 DEF ScoutEnd, RefusedIsDropped, TypeOK
<1>5. ASSUME NEW t \in Thread, Leave(t) PROVE RefusedIsDropped'
  BY <1>1, <1>5 DEF Leave, RefusedIsDropped, TypeOK
<1>. QED BY ResultStep, <1>2, <1>3, <1>4, <1>5

(* What a cancellation that has returned can rely on.                      *)
LEMMA NextReturned ==
  ASSUME TypeOK, Executing, ReturnedQueries, [Next]_vars
  PROVE  ReturnedQueries'
<1>1. /\ kindOf' = kindOf /\ attached \subseteq attached' /\ cancelled \subseteq cancelled'
      /\ \A o \in Op : closure[o] = "dropped" => closure'[o] = "dropped"
  BY Forward
<1>2. Queries' = Queries /\ Queries \subseteq Op /\ attached \subseteq Op
  BY <1>1 DEF Queries, TypeOK
<1>3. \/ acked' = acked /\ attached' = attached
      \/ \E t \in Thread : CancelReturn(t)
      \/ \E t \in Thread, o \in Op : Submit(t, o)
  BY DEF Next, Start, Return, Run, vars, ConstructClosure, Timeout, FinalReply, Reject, SessionClosed,
     AlreadyCancelled, Sent, Info, InfoCall, InfoCallEnd, InfoDone, Scout, ScoutEnd, Leave,
     Cancel, NewToken, DropToken, Fetch, CallStart, CallEnd, DropStart, DropEnd, Close, Tick
<1>4. ASSUME NEW t \in Thread, CancelReturn(t) PROVE acked' \subseteq cancelled
  BY <1>4 DEF CancelReturn, ReturnedQueries, Executing
<1>5. (acked \subseteq cancelled)'
  BY <1>1, <1>3, <1>4 DEF ReturnedQueries, Submit
<1>6. \A o \in attached' : o \in Queries /\ (tokenFor[o] \in acked' => closure'[o] = "dropped")
  <2>1. CASE acked' = acked /\ attached' = attached
    BY <1>1, <1>2, <2>1 DEF ReturnedQueries
  <2>2. ASSUME NEW t \in Thread, CancelReturn(t), NEW o \in attached'
        PROVE  o \in Queries /\ (tokenFor[o] \in acked' => closure'[o] = "dropped")
    <3>1. tokenFor[o] = call[t].of => closure[o] = "dropped"
      BY <2>2 DEF CancelReturn, With, TokenOf, ReturnedQueries
    <3>. QED BY <1>1, <1>2, <2>2, <3>1 DEF CancelReturn, ReturnedQueries
  <2>3. ASSUME NEW t \in Thread, NEW p \in Op, Submit(t, p), NEW o \in attached'
        PROVE  o \in Queries /\ (tokenFor[o] \in acked' => closure'[o] = "dropped")
    <3>1. tokenFor[p] \notin acked /\ p \in Queries
      BY <2>3 DEF Submit, TokenOf, ReturnedQueries
    <3>2. attached' \subseteq attached \cup {p} /\ acked' = acked
      BY <2>3 DEF Submit
    <3>. QED BY <1>1, <1>2, <3>1, <3>2 DEF ReturnedQueries
  <2>. QED BY <1>3, <2>1, <2>2, <2>3
<1>7. (\A o \in Queries : result[o] # "none" /\ tokenFor[o] # None
         => o \in attached \/ closure[o] = "dropped")'
  <2>1. CASE result' = result
    BY <1>1, <1>2, <2>1 DEF ReturnedQueries
  <2>2. ASSUME NEW t \in Thread, NEW o \in Queries, Sent(t), result'[o] # "none", tokenFor[o] # None
        PROVE  o \in attached' \/ closure'[o] = "dropped"
    <3>1. CASE o = call[t].of
      BY <1>1, <2>2, <3>1 DEF Sent, Executing
    <3>2. CASE o # call[t].of
      BY <1>1, <1>2, <2>2, <3>2 DEF Sent, ReturnedQueries, TypeOK
    <3>. QED BY <3>1, <3>2
  <2>3. ASSUME NEW t \in Thread, NEW o \in Queries, ScoutEnd(t), result'[o] # "none", tokenFor[o] # None
        PROVE  o \in attached' \/ closure'[o] = "dropped"
    <3>1. o # call[t].of
      BY <2>3 DEF ScoutEnd, Executing, Queries
    <3>. QED BY <1>1, <1>2, <2>3, <3>1 DEF ScoutEnd, ReturnedQueries, TypeOK
  <2>4. ASSUME NEW t \in Thread, NEW o \in Queries, Leave(t), result'[o] # "none", tokenFor[o] # None
        PROVE  o \in attached' \/ closure'[o] = "dropped"
    BY <1>1, <1>2, <2>4 DEF Leave, ReturnedQueries, TypeOK
  <2>. QED BY <1>2, ResultStep, <2>1, <2>2, <2>3, <2>4
<1>. QED BY <1>2, <1>5, <1>6, <1>7 DEF ReturnedQueries

LEMMA InitInv == Init => OneShotInv
<1>. SUFFICES ASSUME Init PROVE OneShotInv
  OBVIOUS
<1>1. TypeOK
  BY InitTypeOK
<1>2. ReachableIsLent
  BY OneShotAssumption, TaskFacts DEF Init, ReachableIsLent
<1>3. Executing
  BY CallFacts DEF Init, Executing
<1>4. ReturnedQueries /\ RefusedIsDropped
  BY DEF Init, ReturnedQueries, RefusedIsDropped, Queries, Results
<1>. QED BY <1>1, <1>2, <1>3, <1>4 DEF OneShotInv

LEMMA NextInv == OneShotInv /\ [Next]_vars => OneShotInv'
BY NextTypeOK, NextReachable, NextExecuting, NextReturned, NextRefused DEF OneShotInv

(* The invariant from which everything else follows.                       *)
THEOREM OneShotInvariant == Spec => []OneShotInv
<1>. QED BY InitInv, NextInv, PTL DEF Spec

(* Type correctness: every variable keeps the shape its comment describes. *)
THEOREM OneShotTypes == Spec => []TypeOK
<1>1. OneShotInv => TypeOK
  BY DEF OneShotInv
<1>. QED BY <1>1, OneShotInvariant, PTL

(* For any number of threads, queries and tokens: once a cancellation has  *)
(* returned Z_OK, the closure of a query with that token that has returned *)
(* is dropped.                                                             *)
THEOREM CancellationIsQuiet == Spec => []CancelIsQuiet
<1>1. OneShotInv => CancelIsQuiet
  <2>1. SUFFICES ASSUME OneShotInv, NEW o \in Op, TokenOf(o) \in acked, result[o] # "none"
                 PROVE  closure[o] = "dropped"
    BY DEF CancelIsQuiet
  <2>2. o \in Queries /\ tokenFor[o] \in acked /\ tokenFor[o] # None
    BY <2>1, OneShotAssumption DEF TokenOf, OneShotInv, TypeOK
  <2>. QED BY <2>1, <2>2 DEF OneShotInv, ReturnedQueries
<1>. QED BY <1>1, OneShotInvariant, PTL

(* z_info_xxx, and every operation that is refused, have dropped the       *)
(* closure before they return.                                             *)
THEOREM RefusalDropsClosure == Spec => []RefusedIsDropped
<1>1. OneShotInv => RefusedIsDropped
  BY DEF OneShotInv
<1>. QED BY <1>1, OneShotInvariant, PTL

-----------------------------------------------------------------------------
(* Only CallStart, CallEnd, InfoCall and InfoCallEnd change who executes   *)
(* the functions of closures.                                              *)
LEMMA RunningSteps ==
  ASSUME TypeOK, [Next]_vars
  PROVE  \/ Running' = Running
         \/ \E w \in Worker : CallStart(w) \/ CallEnd(w)
         \/ \E t \in Thread : InfoCall(t) \/ InfoCallEnd(t)
<1>1. ASSUME NEW t \in Thread, call[t].at # "calling", call'[t].at # "calling", task' = task,
             \A u \in Thread : u # t => call'[u] = call[u]
      PROVE  Running' = Running
  BY <1>1 DEF Running
<1>2. ASSUME NEW w \in Worker, NEW o \in Op, Fetch(w, o) PROVE Running' = Running
  <2>1. task[w].phase # "calling" /\ task'[w].phase # "calling"
    BY <1>2, TaskFacts DEF Fetch, TypeOK
  <2>2. call' = call /\ \A v \in Worker : v # w => task'[v] = task[v]
    BY <1>2 DEF Fetch, TypeOK
  <2>. QED BY <2>1, <2>2 DEF Running
<1>3. ASSUME NEW t \in Thread, NEW o \in Op, Start(t, o) PROVE Running' = Running
  <2>1. PICK l \in Places \ {"calling"}, r \in Results : Enter(t, "operation", o, l, r)
    BY <1>3 DEF Start, Reject, SessionClosed, AlreadyCancelled, Submit, Info, Scout, Places, Results
  <2>2. call'[t].at # "calling" /\ \A u \in Thread : u # t => call'[u] = call[u]
    BY <2>1, NewOperation DEF TypeOK
  <2>3. call[t].at # "calling" /\ task' = task
    BY <1>3, CallFacts
       DEF Start, Take, Reject, SessionClosed, AlreadyCancelled, Submit, Info, Scout
  <2>. QED BY <1>1, <2>2, <2>3
<1>4. ASSUME NEW t \in Thread, NEW k \in Token, Cancel(t, k) PROVE Running' = Running
  <2>1. CASE UNCHANGED call
    BY <1>4, <2>1 DEF Cancel, Running
  <2>2. CASE Enter(t, "cancel", k, "waiting", "Z_OK")
    <3>1. call'[t].at # "calling" /\ \A u \in Thread : u # t => call'[u] = call[u]
      BY <2>2, NewCancel DEF TypeOK
    <3>2. call[t].at # "calling" /\ task' = task
      BY <1>4, CallFacts DEF Cancel
    <3>. QED BY <1>1, <3>1, <3>2
  <2>. QED BY <1>4, <2>1, <2>2 DEF Cancel
<1>5. ASSUME NEW t \in Thread, Sent(t) \/ ScoutEnd(t) \/ Leave(t) \/ CancelReturn(t)
      PROVE  Running' = Running
  <2>1. call'[t].at # "calling" /\ \A u \in Thread : u # t => call'[u] = call[u]
    BY <1>5, CallFacts DEF TypeOK, Sent, ScoutEnd, Leave, CancelReturn
  <2>2. call[t].at # "calling" /\ task' = task
    BY <1>5 DEF Sent, ScoutEnd, Leave, CancelReturn
  <2>. QED BY <1>1, <2>1, <2>2
<1>6. ASSUME NEW t \in Thread, InfoDone(t) PROVE Running' = Running
  <2>1. call'[t].at # "calling" /\ \A u \in Thread : u # t => call'[u] = call[u]
    BY <1>6, LoopFacts DEF TypeOK, InfoDone
  <2>. QED BY <1>1, <1>6, <2>1 DEF InfoDone
<1>7. CASE call' = call /\ task' = task
  BY <1>7 DEF Running
<1>8. \/ call' = call /\ task' = task
      \/ \E t \in Thread, o \in Op : Start(t, o)
      \/ \E w \in Worker, o \in Op : Fetch(w, o)
      \/ \E t \in Thread, k \in Token : Cancel(t, k)
      \/ \E t \in Thread : Return(t) \/ InfoCall(t)
      \/ \E w \in Worker : Run(w)
  BY DEF Next, vars, ConstructClosure, Timeout, FinalReply, NewToken, DropToken, DropStart, DropEnd,
     Close, Tick
<1>. QED BY <1>2, <1>3, <1>4, <1>5, <1>6, <1>7, <1>8 DEF Return, Run

(* Every step is a step of the contract, or none that it can see.          *)
LEMMA StepContract ==
  ASSUME OneShotInv, [Next]_vars
  PROVE  [Contract!ContractNext]_(Contract!contractVars)
<1> USE DEF OneShotInv, TypeOK
<1>1. ASSUME NEW w \in Worker, CallStart(w) PROVE Contract!ContractNext
  <2> DEFINE o == task[w].on
  <2>1. o \in Op /\ closure[o] = "lent" /\ closure' = closure /\ call' = call
    BY <1>1 DEF CallStart, ReachableIsLent
  <2>2. task'[w].on = o /\ task'[w].phase = "calling" /\ \A v \in Worker : v # w => task'[v] = task[v]
    BY <1>1, TaskFacts DEF CallStart
  <2>3. w \notin Running[o]
    BY <1>1, <2>1, OneShotAssumption DEF CallStart, Running
  <2>4. Running' = [Running EXCEPT ![o] = @ \cup {w}]
    <3>1. Running'[o] = Running[o] \cup {w}
      BY <2>1, <2>2, OneShotAssumption DEF Running
    <3>2. \A p \in Op : p # o => Running'[p] = Running[p]
      BY <2>1, <2>2, OneShotAssumption DEF Running
    <3>3. Running = [p \in Op |-> Running[p]] /\ Running' = [p \in Op |-> Running'[p]]
      BY DEF Running
    <3>. QED BY <2>1, <3>1, <3>2, <3>3
  <2>. QED BY <2>1, <2>3, <2>4 DEF Contract!ContractNext, Contract!StartCall
<1>2. ASSUME NEW w \in Worker, CallEnd(w) PROVE Contract!ContractNext
  <2> DEFINE o == task[w].on
  <2>1. o \in Op /\ closure' = closure /\ call' = call
    BY <1>2 DEF CallEnd, ReachableIsLent
  <2>2. task'[w].phase # "calling" /\ \A v \in Worker : v # w => task'[v] = task[v]
    BY <1>2, TaskFacts DEF CallEnd
  <2>3. w \in Running[o]
    BY <1>2, <2>1 DEF CallEnd, Running
  <2>4. Running' = [Running EXCEPT ![o] = @ \ {w}]
    <3>1. Running'[o] = Running[o] \ {w}
      BY <2>1, <2>2, OneShotAssumption DEF Running
    <3>2. \A p \in Op : p # o => Running'[p] = Running[p]
      BY <2>1, <2>2, OneShotAssumption DEF Running
    <3>3. Running = [p \in Op |-> Running[p]] /\ Running' = [p \in Op |-> Running'[p]]
      BY DEF Running
    <3>. QED BY <2>1, <3>1, <3>2, <3>3
  <2>. QED BY <2>1, <2>3, <2>4 DEF Contract!ContractNext, Contract!EndCall
<1>3. ASSUME NEW t \in Thread, InfoCall(t) PROVE Contract!ContractNext
  <2> DEFINE o == call[t].of
  <2>1. o \in Op /\ closure[o] = "lent" /\ closure' = closure /\ task' = task
    BY <1>3, CallFacts DEF InfoCall, Executing, Places
  <2>2. call'[t].of = o /\ call'[t].at = "calling" /\ \A u \in Thread : u # t => call'[u] = call[u]
    BY <1>3, LoopFacts DEF InfoCall
  <2>3. t \notin Running[o]
    BY <1>3, <2>1, OneShotAssumption DEF InfoCall, Running
  <2>4. Running' = [Running EXCEPT ![o] = @ \cup {t}]
    <3>1. Running'[o] = Running[o] \cup {t}
      BY <2>1, <2>2, OneShotAssumption DEF Running
    <3>2. \A p \in Op : p # o => Running'[p] = Running[p]
      BY <2>1, <2>2, OneShotAssumption DEF Running
    <3>3. Running = [p \in Op |-> Running[p]] /\ Running' = [p \in Op |-> Running'[p]]
      BY DEF Running
    <3>. QED BY <2>1, <3>1, <3>2, <3>3
  <2>. QED BY <2>1, <2>3, <2>4 DEF Contract!ContractNext, Contract!StartCall
<1>4. ASSUME NEW t \in Thread, InfoCallEnd(t) PROVE Contract!ContractNext
  <2> DEFINE o == call[t].of
  <2>1. o \in Op /\ closure' = closure /\ task' = task
    BY <1>4, CallFacts DEF InfoCallEnd, Places
  <2>2. call'[t].at # "calling" /\ \A u \in Thread : u # t => call'[u] = call[u]
    BY <1>4, LoopFacts DEF InfoCallEnd
  <2>3. t \in Running[o]
    BY <1>4, <2>1 DEF InfoCallEnd, Running
  <2>4. Running' = [Running EXCEPT ![o] = @ \ {t}]
    <3>1. Running'[o] = Running[o] \ {t}
      BY <2>1, <2>2, OneShotAssumption DEF Running
    <3>2. \A p \in Op : p # o => Running'[p] = Running[p]
      BY <2>1, <2>2, OneShotAssumption DEF Running
    <3>3. Running = [p \in Op |-> Running[p]] /\ Running' = [p \in Op |-> Running'[p]]
      BY DEF Running
    <3>. QED BY <2>1, <3>1, <3>2, <3>3
  <2>. QED BY <2>1, <2>3, <2>4 DEF Contract!ContractNext, Contract!EndCall
<1>5. ASSUME Running' = Running PROVE [Contract!ContractNext]_(Contract!contractVars)
  <2>1. CASE closure' = closure
    BY <1>5, <2>1 DEF Contract!contractVars
  <2>2. ASSUME NEW o \in Op, ConstructClosure(o) PROVE Contract!ContractNext
    BY <1>5, <2>2 DEF ConstructClosure, Contract!ContractNext, Contract!Construct
  <2>3. ASSUME NEW t \in Thread, NEW o \in Op, Take(t, o) PROVE Contract!ContractNext
    BY <1>5, <2>3 DEF Take, Contract!ContractNext, Contract!Lend
  <2>4. ASSUME NEW o \in Op, DropStart(o) PROVE Contract!ContractNext
    <3>1. Running[o] = {}
      BY <2>4 DEF DropStart, Running
    <3>. QED BY <1>5, <2>4, <3>1 DEF DropStart, Contract!ContractNext, Contract!StartDrop
  <2>5. ASSUME NEW o \in Op, DropEnd(o) PROVE Contract!ContractNext
    BY <1>5, <2>5 DEF DropEnd, Contract!ContractNext, Contract!EndDrop
  <2>6. \/ closure' = closure
        \/ \E o \in Op : ConstructClosure(o) \/ DropStart(o) \/ DropEnd(o)
        \/ \E t \in Thread, o \in Op : Take(t, o)
    BY DEF Next, Start, Return, Run, vars, Timeout, FinalReply, Reject, SessionClosed, AlreadyCancelled,
       Submit, Sent, Info, InfoCall, InfoCallEnd, InfoDone, Scout, ScoutEnd, Leave, Cancel, CancelReturn,
       NewToken, DropToken, Fetch, CallStart, CallEnd, Close, Tick
  <2>. QED BY <2>1, <2>2, <2>3, <2>4, <2>5, <2>6
<1>. QED BY RunningSteps, <1>1, <1>2, <1>3, <1>4, <1>5

LEMMA InitContract == Init => Contract!ContractInit
<1>. SUFFICES ASSUME Init PROVE Contract!ContractInit
  OBVIOUS
<1>1. Running = [o \in Op |-> {}]
  <2>1. \A t \in Thread : call[t].at # "calling"
    BY CallFacts DEF Init
  <2>2. \A w \in Worker : task[w].phase # "calling"
    BY TaskFacts DEF Init
  <2>. QED BY <2>1, <2>2 DEF Running
<1>. QED BY <1>1 DEF Init, Contract!ContractInit

(* Refinement, for every instance: seen through the life of its closures   *)
(* and the threads that execute them, the one-shot operations are a        *)
(* behaviour of ClosureContract.                                           *)
THEOREM OneShotImplementsContract == Spec => DeliversWithinContract
<1>1. OneShotInv /\ [Next]_vars => [Contract!ContractNext]_(Contract!contractVars)
  BY StepContract
<1>. QED BY InitContract, <1>1, OneShotInvariant, PTL DEF Spec, DeliversWithinContract, Contract!ContractSpec

(* A query never expires before its timeout, whichever functions and        *)
(* timeouts are looked at, provided that z_liveliness_get is not given 0:   *)
(* that one hands the 0 on (the finding of the run oneshot_timeout).        *)
THEOREM TimeoutsAreHonoured ==
  ASSUME \A kinds \in Kinds : \A o \in Op : kinds[o] = "liveliness_get" => timeoutOf[o] # 0
  PROVE  Spec => []TimeoutIsHonoured
<1>1. Init => TimeoutIsHonoured
  BY DEF Init, TimeoutIsHonoured
<1>2. TypeOK /\ TimeoutIsHonoured /\ [Next]_vars => TimeoutIsHonoured'
  <2> SUFFICES ASSUME TypeOK, TimeoutIsHonoured, [Next]_vars PROVE TimeoutIsHonoured'
    OBVIOUS
  <2>1. CASE UNCHANGED <<age, expired>>
    BY <2>1 DEF TimeoutIsHonoured
  <2>2. CASE Tick
    <3>1. \A o \in Op : age[o] \in Nat /\ age'[o] \in Nat /\ age'[o] >= age[o]
      BY <2>2, OneShotAssumption DEF Tick, TypeOK
    <3>2. \A o \in Op : timeoutOf[o] \in Nat /\ DefaultTimeout \in Nat
      BY OneShotAssumption
    <3>3. expired' = expired /\ expired \subseteq Op
      BY <2>2 DEF Tick, TypeOK
    <3>. QED BY <3>1, <3>2, <3>3 DEF TimeoutIsHonoured
  <2>3. ASSUME NEW o \in Op, Timeout(o) PROVE TimeoutIsHonoured'
    <3>1. Limit(o) = IF timeoutOf[o] = 0 THEN DefaultTimeout ELSE timeoutOf[o]
      BY <2>3 DEF Timeout, Queries, Limit, TypeOK
    <3>2. age[o] >= Limit(o) /\ age' = age /\ expired' = expired \cup {o}
      BY <2>3 DEF Timeout
    <3>. QED BY <3>1, <3>2 DEF TimeoutIsHonoured
  <2>4. \/ UNCHANGED <<age, expired>> \/ Tick \/ \E o \in Op : Timeout(o)
    BY DEF Next, Start, Return, Run, vars, FinalReply, Reject, SessionClosed, AlreadyCancelled,
       Submit, Sent, Info, InfoCall, InfoCallEnd, InfoDone, Scout, ScoutEnd, Leave, Cancel, CancelReturn,
       NewToken, DropToken, Fetch, CallStart, CallEnd, Close, ConstructClosure, DropStart, DropEnd
  <2>. QED BY <2>1, <2>2, <2>3, <2>4
<1>. QED BY <1>1, <1>2, OneShotTypes, PTL DEF Spec

-----------------------------------------------------------------------------
(* Why a cancellation that waits can end.  The runtime has forgotten the   *)
(* queries it waits for, and a cancelled token gets no others.             *)
Forgotten ==
  \A t \in Thread : call[t].at = "waiting" =>
    \A o \in attached : tokenFor[o] = call[t].of => o \notin pending

LEMMA WaitingStep ==
  ASSUME TypeOK, [Next]_vars, NEW u \in Thread, call'[u].at = "waiting"
  PROVE  \/ call'[u] = call[u]
         \/ \E k \in Token : /\ call'[u].of = k /\ attached' = attached
                             /\ pending' = pending \ With(k)
<1>1. call \in [Thread -> Calls]
  BY DEF TypeOK
<1>2. CASE call' = call
  BY <1>2
<1>3. ASSUME NEW t \in Thread, InfoCall(t) \/ InfoCallEnd(t) \/ InfoDone(t) PROVE call'[u] = call[u]
  <2>1. CASE u = t
    <3>1. PICK l \in {"loop", "calling", "leaving"} : call' = [call EXCEPT ![t].at = l]
      BY <1>3 DEF InfoCall, InfoCallEnd, InfoDone
    <3>2. PICK c \in Calls : c = call[t]
      BY <1>1
    <3>3. c.at \in {"loop", "calling"}
      BY <1>3, <3>2 DEF InfoCall, InfoCallEnd, InfoDone
    <3>4. call'[t] = [c EXCEPT !.at = l]
      BY <1>1, <3>1, <3>2
    <3>5. call'[t].at = l
      BY <3>3, <3>4, LoopFacts
    <3>. QED BY <2>1, <3>5
  <2>2. CASE u # t
    BY <1>1, <1>3, <2>2 DEF InfoCall, InfoCallEnd, InfoDone
  <2>. QED BY <2>1, <2>2
<1>4. ASSUME NEW t \in Thread, Sent(t) \/ ScoutEnd(t) \/ Leave(t) \/ CancelReturn(t)
      PROVE  call'[u] = call[u]
  <2>1. CASE u = t
    <3>1. call'[t] = Idle
      BY <1>1, <1>4 DEF Sent, ScoutEnd, Leave, CancelReturn
    <3>. QED BY <2>1, <3>1, CallFacts
  <2>2. CASE u # t
    BY <1>1, <1>4, <2>2 DEF Sent, ScoutEnd, Leave, CancelReturn
  <2>. QED BY <2>1, <2>2
<1>5. ASSUME NEW t \in Thread, NEW o \in Op, Start(t, o) PROVE call'[u] = call[u]
  <2>1. PICK l \in Places, r \in Results : Enter(t, "operation", o, l, r)
    BY <1>5 DEF Start, Reject, SessionClosed, AlreadyCancelled, Submit, Info, Scout, Places, Results
  <2>2. call'[t].at = l /\ \A v \in Thread : v # t => call'[v] = call[v]
    BY <1>1, <2>1, NewOperation
  <2>3. l # "waiting"
    BY DEF Places
  <2>. QED BY <2>2, <2>3
<1>6. ASSUME NEW t \in Thread, NEW k \in Token, Cancel(t, k)
      PROVE  \/ call'[u] = call[u]
             \/ call'[u].of = k /\ attached' = attached /\ pending' = pending \ With(k)
  <2>1. CASE UNCHANGED call
    BY <2>1
  <2>2. CASE pending' = pending \ With(k) /\ Enter(t, "cancel", k, "waiting", "Z_OK")
    <3>1. call'[t].of = k /\ \A v \in Thread : v # t => call'[v] = call[v]
      BY <1>1, <2>2, NewCancel
    <3>. QED BY <1>6, <2>2, <3>1 DEF Cancel
  <2>. QED BY <1>6, <2>1, <2>2 DEF Cancel
<1>7. \/ call' = call
      \/ \E t \in Thread : Return(t) \/ InfoCall(t)
      \/ \E t \in Thread, o \in Op : Start(t, o)
      \/ \E t \in Thread, k \in Token : Cancel(t, k)
  BY DEF Next, Run, vars, ConstructClosure, Timeout, FinalReply, NewToken, DropToken,
     Fetch, CallStart, CallEnd, DropStart, DropEnd, Close, Tick
<1>. QED BY <1>2, <1>3, <1>4, <1>5, <1>6, <1>7 DEF Return

(* What a step can add to the queries of a token and to what is pending.   *)
LEMMA QueriesStep ==
  ASSUME OneShotInv, [Next]_vars, NEW k \in cancelled, NEW o \in attached', tokenFor[o] = k
  PROVE  o \in attached /\ (o \in pending' => o \in pending)
<1>1. \/ attached' = attached /\ pending' \subseteq pending
      \/ \E t \in Thread, p \in Op : Submit(t, p) \/ Scout(t, p)
  BY DEF Next, Start, Return, Run, vars, ConstructClosure, Timeout, FinalReply, Reject, SessionClosed,
     AlreadyCancelled, Sent, Info, InfoCall, InfoCallEnd, InfoDone, ScoutEnd, Leave,
     Cancel, CancelReturn, NewToken, DropToken, Fetch, CallStart, CallEnd, DropStart, DropEnd, Close, Tick
<1>2. ASSUME NEW t \in Thread, NEW p \in Op, Submit(t, p)
      PROVE  o \in attached /\ (o \in pending' => o \in pending)
  <2>1. tokenFor[p] \notin cancelled /\ attached' \subseteq attached \cup {p}
          /\ pending' = pending \cup {p}
    BY <1>2 DEF Submit, TokenOf
  <2>. QED BY <2>1
<1>3. ASSUME NEW t \in Thread, NEW p \in Op, Scout(t, p)
      PROVE  o \in attached /\ (o \in pending' => o \in pending)
  <2>1. attached' = attached /\ pending' \subseteq pending \cup {p} /\ p \notin Queries
    BY <1>3 DEF Scout, Queries
  <2>2. o \in Queries
    BY <2>1 DEF OneShotInv, ReturnedQueries
  <2>. QED BY <2>1, <2>2
<1>. QED BY <1>1, <1>2, <1>3

LEMMA NextForgotten ==
  ASSUME OneShotInv, Forgotten, [Next]_vars
  PROVE  Forgotten'
<1> SUFFICES ASSUME NEW u \in Thread, call'[u].at = "waiting", NEW o \in attached',
                    tokenFor[o] = call'[u].of
             PROVE  o \notin pending'
  BY DEF Forgotten
<1>1. CASE call'[u] = call[u]
  <2>1. call[u].of \in cancelled
    BY <1>1 DEF OneShotInv, Executing
  <2>2. o \in attached /\ (o \in pending' => o \in pending)
    BY <1>1, <2>1, QueriesStep
  <2>. QED BY <1>1, <2>2 DEF Forgotten
<1>2. ASSUME NEW k \in Token, call'[u].of = k, attached' = attached, pending' = pending \ With(k)
      PROVE  o \notin pending'
  <2>1. o \in attached /\ o \in Queries /\ tokenFor[o] = k
    BY <1>2 DEF OneShotInv, ReturnedQueries
  <2>2. o \in With(k)
    BY <2>1 DEF With, TokenOf
  <2>. QED BY <1>2, <2>2
<1>. QED BY <1>1, <1>2, WaitingStep DEF OneShotInv

(* While a cancellation waits, no query is attached to its token, and no   *)
(* runtime thread gets a reference to a callback it waits for.             *)
NothingNewToWaitFor ==
  \A t \in Thread : call[t].at = "waiting" =>
    /\ \A o \in attached' : tokenFor[o] = call[t].of => o \in attached
    /\ \A o \in attached, w \in Worker :
         tokenFor[o] = call[t].of /\ task'[w].on = o => task[w].on = o

(* z_cancellation_token_cancel is never kept waiting by new queries or new *)
(* replies: what it waits for only becomes less until it returns.          *)
THEOREM CancellationOnlyShrinks == Spec => [][NothingNewToWaitFor]_vars
<1>1. Init => Forgotten
  BY DEF Init, Forgotten
<1>2. OneShotInv /\ Forgotten /\ [Next]_vars => Forgotten'
  BY NextForgotten
<1>3. OneShotInv /\ Forgotten /\ [Next]_vars => [NothingNewToWaitFor]_vars
  <2> SUFFICES ASSUME OneShotInv, Forgotten, [Next]_vars, NEW t \in Thread, call[t].at = "waiting"
               PROVE  /\ \A o \in attached' : tokenFor[o] = call[t].of => o \in attached
                      /\ \A o \in attached, w \in Worker :
                           tokenFor[o] = call[t].of /\ task'[w].on = o => task[w].on = o
    BY DEF NothingNewToWaitFor
  <2>1. call[t].of \in cancelled
    BY DEF OneShotInv, Executing
  <2>2. \A o \in attached' : tokenFor[o] = call[t].of => o \in attached
    BY <2>1, QueriesStep
  <2>3. ASSUME NEW o \in attached, NEW w \in Worker, tokenFor[o] = call[t].of, task'[w].on = o
        PROVE  task[w].on = o
    <3>1. o \in Op /\ o # None /\ task \in [Worker -> Tasks] /\ o \notin pending
      BY <2>3, OneShotAssumption DEF OneShotInv, TypeOK, Forgotten
    <3>2. \/ task' = task
          \/ \E v \in Worker, p \in Op : Fetch(v, p)
          \/ \E v \in Worker : CallStart(v) \/ CallEnd(v)
      BY DEF Next, Start, Return, Run, vars, ConstructClosure, Timeout, FinalReply, Reject,
         SessionClosed, AlreadyCancelled, Submit, Sent, Info, InfoCall, InfoCallEnd, InfoDone, Scout,
         ScoutEnd, Leave, Cancel, CancelReturn, NewToken, DropToken, DropStart, DropEnd, Close, Tick
    <3>3. ASSUME NEW v \in Worker, NEW p \in Op, Fetch(v, p) PROVE task[w].on = o
      <4>1. p # o /\ task' = [task EXCEPT ![v] = [on |-> p, phase |-> "fetched"]]
        BY <3>1, <3>3 DEF Fetch
      <4>2. w # v
        BY <2>3, <3>1, <4>1
      <4>. QED BY <2>3, <3>1, <4>1, <4>2
    <3>4. ASSUME NEW v \in Worker, CallStart(v) PROVE task[w].on = o
      <4>1. task' = [task EXCEPT ![v].phase = "calling"]
        BY <3>4 DEF CallStart
      <4>2. task'[w].on = task[w].on
        BY <3>1, <4>1 DEF Tasks
      <4>. QED BY <2>3, <4>2
    <3>5. ASSUME NEW v \in Worker, CallEnd(v) PROVE task[w].on = o
      <4>1. task' = [task EXCEPT ![v] = NoTask] /\ NoTask.on = None
        BY <3>5 DEF CallEnd, NoTask
      <4>2. w # v
        BY <2>3, <3>1, <4>1
      <4>. QED BY <2>3, <3>1, <4>1, <4>2
    <3>. QED BY <2>3, <3>2, <3>3, <3>4, <3>5
  <2>. QED BY <2>2, <2>3
<1>. QED BY <1>1, <1>2, <1>3, OneShotInvariant, PTL DEF Spec

=============================================================================
