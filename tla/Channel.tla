------------------------------- MODULE Channel -------------------------------
(***************************************************************************)
(* The channels that z_fifo_channel_xxx_new and z_ring_channel_xxx_new     *)
(* make of a closure and a handler (samples, queries and replies alike).   *)
(* Runtime threads run the closure, which takes the loaned object out of   *)
(* the variable of its caller and pushes it; application threads receive   *)
(* from the handler.  The queues themselves are external (zenoh handlers). *)
(***************************************************************************)
EXTENDS Naturals, Sequences, FiniteSets

CONSTANTS
  Msg,       \* the samples, queries or replies
  Sender,    \* runtime threads
  Receiver,  \* application threads that receive from the handler
  None,
  Kinds,     \* the kinds of channels that are made: "fifo", "ring"
  Capacity   \* the `capacity' argument

ASSUME ChannelAssumption ==
  /\ None \notin Msg
  /\ Kinds \subseteq {"fifo", "ring"}
  /\ Capacity \in Nat \ {0}

VARIABLES
  kind,      \* the kind of the channel
  closure,   \* the owned closure: with the application, moved into a declaration, or gone
  context,   \* the boxed sending end that the closure's context points to
  handler,   \* the application's z_owned_xxx_handler_xxx_t
  buffer,    \* the elements in the queue
  sender,    \* sender[s]: the call of the closure in thread s and the variable it lends
  receiver,  \* receiver[r]: thread r's call, its last result and its owned variable
  holds,     \* holds[r]: the object r has received and neither dropped nor moved
  fresh,     \* the objects that have not arrived yet
  freed      \* freed[m]: how many times m was freed

vars == <<kind, closure, context, handler, buffer, sender, receiver, holds, fresh, freed>>

Slot == Msg \cup {None}

TypeOK ==
  /\ kind \in Kinds
  /\ closure \in {"owned", "registered", "undeclared", "null"}
  /\ context \in {"live", "freed"}
  /\ handler \in {"some", "null"}
  /\ buffer \in Seq(Msg)
  /\ sender \in [Sender -> [pc : {"idle", "called", "sent"}, var : Slot]]
  /\ receiver \in [Receiver -> [pc : {"idle", "recv"}, var : Slot,
                                res : {"none", "ok", "nodata", "disconnected"}]]
  /\ holds \in [Receiver -> Slot]
  /\ fresh \subseteq Msg
  /\ freed \in [Msg -> Nat]

(* z_fifo_channel_xxx_new or z_ring_channel_xxx_new has returned.          *)
Init ==
  /\ kind \in Kinds
  /\ closure = "owned"
  /\ context = "live"
  /\ handler = "some"
  /\ buffer = <<>>
  /\ sender = [s \in Sender |-> [pc |-> "idle", var |-> None]]
  /\ receiver = [r \in Receiver |-> [pc |-> "idle", var |-> None, res |-> "none"]]
  /\ holds = [r \in Receiver |-> None]
  /\ fresh = Msg
  /\ freed = [m \in Msg |-> 0]

-----------------------------------------------------------------------------
Free(S) == freed' = [m \in Msg |-> IF m \in S THEN freed[m] + 1 ELSE freed[m]]

Elements == {buffer[i] : i \in 1..Len(buffer)}

(* The queues, for an object taken by the closure.  A full fifo blocks the *)
(* sender; a fifo without a handler refuses the object, which is dropped;  *)
(* a full ring drops its oldest element.                                   *)
Push(m) ==
  \/ /\ Len(buffer) < Capacity
     /\ kind = "fifo" => handler = "some"
     /\ buffer' = Append(buffer, m)
     /\ UNCHANGED freed
  \/ /\ kind = "fifo" /\ handler = "null"
     /\ Free({m})
     /\ UNCHANGED buffer
  \/ /\ kind = "ring" /\ Len(buffer) = Capacity
     /\ buffer' = Append(Tail(buffer), m)
     /\ Free({Head(buffer)})

(* Without its other end, what is left in a queue may be freed at any time. *)
Discard ==
  /\ buffer # <<>>
  /\ \/ kind = "fifo" /\ handler = "null"
     \/ kind = "ring" /\ context = "freed"
  /\ Free(Elements)
  /\ buffer' = <<>>
  /\ UNCHANGED <<kind, closure, context, handler, sender, receiver, holds, fresh>>

-----------------------------------------------------------------------------
(* The closure is moved into a declaration.                                *)
Declare ==
  /\ closure = "owned"
  /\ closure' = "registered"
  /\ UNCHANGED <<kind, context, handler, buffer, sender, receiver, holds, fresh, freed>>

(* The runtime wraps an arriving object in Some(..) and calls the closure  *)
(* with a mutable loan of it.                                              *)
CallStart(s, m) ==
  /\ closure = "registered"
  /\ sender[s].pc = "idle" /\ m \in fresh
  /\ sender' = [sender EXCEPT ![s] = [pc |-> "called", var |-> m]]
  /\ fresh' = fresh \ {m}
  /\ UNCHANGED <<kind, closure, context, handler, buffer, receiver, holds, freed>>

(* Slip: the object is copied out of the loaned variable.                  *)
SendCopies(s) ==
  /\ sender[s].pc = "called"
  /\ Push(sender[s].var)
  /\ sender' = [sender EXCEPT ![s].pc = "sent"]
  /\ UNCHANGED <<kind, closure, context, handler, receiver, holds, fresh>>

(* __z_handler_xxx_send: mem::take leaves None in the caller's variable,   *)
(* and the object goes to the queue the context points to.                 *)
Send(s) ==
  /\ sender[s].pc = "called"
  /\ Push(sender[s].var)
  /\ sender' = [sender EXCEPT ![s] = [pc |-> "sent", var |-> None]]
  /\ UNCHANGED <<kind, closure, context, handler, receiver, holds, fresh>>

(* The caller drops its variable, and the object if it is still there.     *)
CallEnd(s) ==
  /\ sender[s].pc = "sent"
  /\ Free({sender[s].var} \ {None})
  /\ sender' = [sender EXCEPT ![s] = [pc |-> "idle", var |-> None]]
  /\ UNCHANGED <<kind, closure, context, handler, buffer, receiver, holds, fresh>>

(* The application undeclares the entity: no new calls.                    *)
Undeclare ==
  /\ closure = "registered"
  /\ closure' = "undeclared"
  /\ UNCHANGED <<kind, context, handler, buffer, sender, receiver, holds, fresh, freed>>

(* Slip: the closure is dropped with calls still running.                  *)
DropClosureEarly ==
  /\ closure \in {"owned", "undeclared"}
  /\ closure' = "null"
  /\ context' = "freed"
  /\ UNCHANGED <<kind, handler, buffer, sender, receiver, holds, fresh, freed>>

(* Slip: the sending end is kept until the queue has been consumed.        *)
DropClosureDrained ==
  /\ closure \in {"owned", "undeclared"}
  /\ \A s \in Sender : sender[s].pc = "idle"
  /\ buffer = <<>>
  /\ closure' = "null"
  /\ context' = "freed"
  /\ UNCHANGED <<kind, handler, buffer, sender, receiver, holds, fresh, freed>>

(* __z_handler_xxx_drop, run by the Drop of the closure when the           *)
(* application drops it or the contract of closures allows it: frees the   *)
(* boxed sending end, and the queue with it if the handler is gone too.    *)
DropClosure ==
  /\ closure \in {"owned", "undeclared"}
  /\ \A s \in Sender : sender[s].pc = "idle"
  /\ closure' = "null"
  /\ context' = "freed"
  /\ IF handler = "null" THEN Free(Elements) /\ buffer' = <<>> ELSE UNCHANGED <<freed, buffer>>
  /\ UNCHANGED <<kind, handler, sender, receiver, holds, fresh>>

-----------------------------------------------------------------------------
(* The receiving functions.  The application passes an owned variable that *)
(* holds nothing; each of them writes it in every case.                    *)
Ready(r) ==
  receiver[r].pc = "idle" /\ handler = "some" /\ holds[r] = None /\ receiver[r].var = None

Receive(r, res) ==
  LET q == IF res = "ok" THEN Head(buffer) ELSE None
  IN /\ receiver' = [receiver EXCEPT ![r] = [pc |-> "idle", var |-> q, res |-> res]]
     /\ holds' = [holds EXCEPT ![r] = q]
     /\ buffer' = IF res = "ok" THEN Tail(buffer) ELSE buffer
     /\ UNCHANGED <<kind, closure, context, handler, sender, fresh, freed>>

(* Slip: the sending end alone decides, whatever is left in the queue.     *)
DisconnectedWhenFreed == context = "freed"

(* A fifo delivers what is left before it reports that it is disconnected; *)
(* the handler of a ring does not keep the ring alive.                     *)
Disconnected == context = "freed" /\ (kind = "fifo" => buffer = <<>>)

(* z_xxx_handler_xxx_recv blocks until one of the two.                     *)
Recv(r) ==
  /\ Ready(r)
  /\ receiver' = [receiver EXCEPT ![r].pc = "recv"]
  /\ UNCHANGED <<kind, closure, context, handler, buffer, sender, holds, fresh, freed>>

(* Slip: a blocked receiver is only woken by an element.                   *)
RecvReturnOnData(r) ==
  /\ receiver[r].pc = "recv"
  /\ buffer # <<>> /\ Receive(r, "ok")

RecvReturn(r) ==
  /\ receiver[r].pc = "recv"
  /\ \/ buffer # <<>> /\ Receive(r, "ok")
     \/ Disconnected /\ Receive(r, "disconnected")

(* z_xxx_handler_xxx_try_recv.                                             *)
TryRecv(r) ==
  /\ Ready(r)
  /\ \/ buffer # <<>> /\ Receive(r, "ok")
     \/ buffer = <<>> /\ context = "live" /\ Receive(r, "nodata")
     \/ Disconnected /\ Receive(r, "disconnected")

(* z_xxx_drop of what was received; on a gravestone it does nothing.       *)
DropReceived(r) ==
  /\ receiver[r].pc = "idle" /\ holds[r] # None
  /\ Free({receiver[r].var} \ {None})
  /\ receiver' = [receiver EXCEPT ![r].var = None]
  /\ holds' = [holds EXCEPT ![r] = None]
  /\ UNCHANGED <<kind, closure, context, handler, buffer, sender, fresh>>

(* z_xxx_handler_xxx_drop; no thread may be receiving.                     *)
DropHandler ==
  /\ handler = "some" /\ \A r \in Receiver : receiver[r].pc = "idle"
  /\ handler' = "null"
  /\ IF context = "freed" THEN Free(Elements) /\ buffer' = <<>> ELSE UNCHANGED <<freed, buffer>>
  /\ UNCHANGED <<kind, closure, context, sender, receiver, holds, fresh>>

(* z_closure_xxx_call on the channel's closure, by the application, with a *)
(* z_loan_mut of an object it holds.                                       *)
CallDirectly(r) ==
  /\ closure = "owned"
  /\ receiver[r].pc = "idle" /\ receiver[r].var # None
  /\ Push(receiver[r].var)
  /\ receiver' = [receiver EXCEPT ![r].var = None]
  /\ UNCHANGED <<kind, closure, context, handler, sender, holds, fresh>>

(* The application got an object from elsewhere: another channel, a clone. *)
Obtain(r, m) ==
  /\ receiver[r].pc = "idle" /\ holds[r] = None /\ m \in fresh
  /\ closure = "owned"
  /\ receiver' = [receiver EXCEPT ![r].var = m]
  /\ holds' = [holds EXCEPT ![r] = m]
  /\ fresh' = fresh \ {m}
  /\ UNCHANGED <<kind, closure, context, handler, buffer, sender, freed>>

-----------------------------------------------------------------------------
Next ==
  \/ Declare \/ Undeclare \/ DropClosure \/ DropHandler \/ Discard
  \/ \E s \in Sender : Send(s) \/ CallEnd(s) \/ \E m \in Msg : CallStart(s, m)
  \/ \E r \in Receiver :
       \/ Recv(r) \/ RecvReturn(r) \/ TryRecv(r) \/ DropReceived(r) \/ CallDirectly(r)
       \/ \E m \in Msg : Obtain(r, m)

Spec == Init /\ [][Next]_vars

(***************************************************************************)
(* Fairness: runtime threads run, a call that can return returns, the      *)
(* runtime drops an undeclared closure, and some application thread keeps  *)
(* receiving and dropping until the channel is disconnected, as            *)
(* examples/z_queryable_with_channels.c does, or drops the handler.        *)
(***************************************************************************)
KeepsReceiving(r) == Recv(r) \/ TryRecv(r) \/ DropReceived(r)

Fairness ==
  /\ \A s \in Sender : WF_vars(Send(s)) /\ WF_vars(CallEnd(s))
  /\ \A r \in Receiver : WF_vars(RecvReturn(r)) /\ WF_vars(KeepsReceiving(r))
  /\ WF_vars(closure = "undeclared" /\ DropClosure)

FairSpec == Spec /\ Fairness

-----------------------------------------------------------------------------
(* The pointer in the closure's context is valid whenever a send uses it:  *)
(* the boxed sending end is freed after the last call of the closure.      *)
ContextIsLive ==
  \A s \in Sender : sender[s].pc # "idle" => context = "live"

(* Every object that arrived is in exactly one place: the variable of the  *)
(* runtime's call, the queue, a variable of the application, or freed      *)
(* once.  So the take from the loaned variable neither frees twice nor     *)
(* leaks, whichever end of the channel is dropped first.                   *)
OwnedOnce ==
  \A m \in Msg :
    freed[m] + Cardinality({s \in Sender : sender[s].var = m})
             + Cardinality({i \in 1..Len(buffer) : buffer[i] = m})
             + Cardinality({r \in Receiver : receiver[r].var = m})
      = IF m \in fresh THEN 0 ELSE 1

(* Z_CHANNEL_DISCONNECTED is final: once a receiver has got it, no object  *)
(* is pushed any more, and nothing that was pushed to a fifo is lost.      *)
DisconnectedIsFinal ==
  \A r \in Receiver : receiver[r].res = "disconnected" =>
    /\ context = "freed"
    /\ kind = "fifo" => buffer = <<>>

(* A receiver that blocks is woken when the sending end is dropped.        *)
RecvEndsWithChannel ==
  \A r \in Receiver : (receiver[r].pc = "recv" /\ context = "freed") ~> (receiver[r].pc = "idle")

(* Undeclaring completes although senders may be blocked on a full fifo,   *)
(* as long as some thread keeps receiving.                                 *)
UndeclareCompletes == (closure = "undeclared") ~> (closure = "null")

(* What the concepts guide says of z_loan_mut: an object that was lent to  *)
(* a zenoh-c function and neither dropped nor moved can still be used.     *)
LoanedStaysUsable ==
  \A r \in Receiver : holds[r] # None => receiver[r].var = holds[r]

-----------------------------------------------------------------------------
(* The inductive invariant behind the three safety properties.             *)
(* The boxed sending end goes with the closure, and calls are under way    *)
(* only between the declaration and the drop.                              *)
ClosureOwnsContext ==
  /\ context = "live" <=> closure # "null"
  /\ \A s \in Sender : sender[s].pc # "idle" => closure \in {"registered", "undeclared"}

(* A variable lent by the runtime is full until the closure takes from it; *)
(* one that the application receives into is empty until the call returns. *)
VariablesInUse ==
  /\ \A s \in Sender : sender[s].pc = "called" <=> sender[s].var # None
  /\ \A r \in Receiver :
       /\ receiver[r].pc = "recv" => holds[r] = None
       /\ receiver[r].var # None => holds[r] # None

Sending(m) == \E s \in Sender : sender[s].var = m
Queued(m) == \E i \in 1..Len(buffer) : buffer[i] = m
Received(m) == \E r \in Receiver : receiver[r].var = m

NoDuplicates ==
  /\ \A s, t \in Sender : sender[s].var = sender[t].var /\ sender[s].var # None => s = t
  /\ \A i, j \in 1..Len(buffer) : buffer[i] = buffer[j] => i = j
  /\ \A r, u \in Receiver : receiver[r].var = receiver[u].var /\ receiver[r].var # None => r = u

(* The places of an object exclude each other.                             *)
OnePlace ==
  \A m \in Msg :
    /\ freed[m] \in {0, 1}
    /\ m \in fresh => freed[m] = 0 /\ ~Sending(m) /\ ~Queued(m) /\ ~Received(m)
    /\ m \notin fresh => freed[m] = 1 \/ Sending(m) \/ Queued(m) \/ Received(m)
    /\ freed[m] = 1 => ~Sending(m) /\ ~Queued(m) /\ ~Received(m)
    /\ ~(Sending(m) /\ Queued(m)) /\ ~(Sending(m) /\ Received(m)) /\ ~(Queued(m) /\ Received(m))

ChannelInv ==
  /\ TypeOK /\ ClosureOwnsContext /\ VariablesInUse /\ NoDuplicates /\ OnePlace
  /\ DisconnectedIsFinal

=============================================================================
