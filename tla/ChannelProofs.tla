---------------------------- MODULE ChannelProofs ----------------------------
(***************************************************************************)
(* For any number of objects and threads and any capacity: the context of  *)
(* a channel's closure outlives its calls, every object is owned once,     *)
(* and a channel that was reported disconnected stays so.                  *)
(***************************************************************************)
EXTENDS Channel, FiniteSetTheorems, SequenceTheorems, TLAPS

-----------------------------------------------------------------------------
(* Queues without duplicates.                                              *)
Distinct(q) == \A i, j \in 1..Len(q) : q[i] = q[j] => i = j
In(m, q) == \E i \in 1..Len(q) : q[i] = m

LEMMA AppendDistinct ==
  ASSUME NEW q \in Seq(Msg), NEW m \in Msg, Distinct(q), ~In(m, q)
  PROVE  /\ Append(q, m) \in Seq(Msg) /\ Distinct(Append(q, m))
         /\ \A x : In(x, Append(q, m)) <=> In(x, q) \/ x = m
<1>1. /\ Append(q, m) \in Seq(Msg) /\ Len(Append(q, m)) = Len(q) + 1
      /\ \A i \in 1..Len(q) : Append(q, m)[i] = q[i]
      /\ Append(q, m)[Len(q) + 1] = m
  OBVIOUS
<1>2. 1..(Len(q) + 1) = 1..Len(q) \cup {Len(q) + 1}
  OBVIOUS
<1>3. Distinct(Append(q, m))
  BY <1>1, <1>2 DEF Distinct, In
<1>4. \A x : In(x, Append(q, m)) <=> In(x, q) \/ x = m
  BY <1>1, <1>2 DEF In
<1>. QED BY <1>1, <1>3, <1>4

LEMMA TailDistinct ==
  ASSUME NEW q \in Seq(Msg), Distinct(q), q # <<>>
  PROVE  /\ Head(q) \in Msg /\ In(Head(q), q)
         /\ Tail(q) \in Seq(Msg) /\ Distinct(Tail(q))
         /\ \A x : In(x, Tail(q)) <=> In(x, q) /\ x # Head(q)
<1>1. /\ Len(q) \in Nat \ {0} /\ Head(q) = q[1] /\ q[1] \in Msg
      /\ Tail(q) \in Seq(Msg) /\ Len(Tail(q)) = Len(q) - 1
      /\ \A i \in 1..(Len(q) - 1) : Tail(q)[i] = q[i + 1]
  OBVIOUS
<1>2. Distinct(Tail(q))
  BY <1>1 DEF Distinct
<1>3. ASSUME NEW x, In(x, Tail(q)) PROVE In(x, q) /\ x # Head(q)
  <2>1. PICK i \in 1..(Len(q) - 1) : q[i + 1] = x
    BY <1>1, <1>3 DEF In
  <2>2. i + 1 \in 1..Len(q) /\ i + 1 # 1 /\ 1 \in 1..Len(q)
    BY <1>1
  <2>. QED BY <1>1, <2>1, <2>2 DEF In, Distinct
<1>4. ASSUME NEW x, In(x, q), x # Head(q) PROVE In(x, Tail(q))
  <2>1. PICK i \in 1..Len(q) : q[i] = x
    BY <1>4 DEF In
  <2>2. i - 1 \in 1..(Len(q) - 1) /\ (i - 1) + 1 = i
    BY <1>1, <1>4, <2>1
  <2>. QED BY <1>1, <2>1, <2>2 DEF In
<1>5. In(Head(q), q)
  BY <1>1 DEF In
<1>. QED BY <1>1, <1>2, <1>3, <1>4, <1>5

-----------------------------------------------------------------------------
(* Objects `new' go to the queue: each object that is in the queue or new  *)
(* is in the queue afterwards or has been freed.                           *)
KeptOrFreed(new) ==
  /\ buffer' \in Seq(Msg) /\ freed' \in [Msg -> Nat] /\ Distinct(buffer')
  /\ \A x \in Msg :
       \/ (In(x, buffer') <=> In(x, buffer) \/ x \in new) /\ freed'[x] = freed[x]
       \/ (In(x, buffer) \/ x \in new) /\ ~In(x, buffer') /\ freed'[x] = freed[x] + 1

LEMMA PushKeepsOrFrees ==
  ASSUME ChannelInv, NEW m \in Msg, ~Queued(m), Push(m)
  PROVE  KeptOrFreed({m})
<1>1. buffer \in Seq(Msg) /\ freed \in [Msg -> Nat] /\ Distinct(buffer) /\ ~In(m, buffer)
  BY DEF ChannelInv, TypeOK, NoDuplicates, Distinct, In, Queued
<1>2. ASSUME buffer' = Append(buffer, m), UNCHANGED freed PROVE KeptOrFreed({m})
  BY <1>1, <1>2, AppendDistinct DEF KeptOrFreed
<1>3. ASSUME Free({m}), UNCHANGED buffer PROVE KeptOrFreed({m})
  BY <1>1, <1>3 DEF KeptOrFreed, Free
<1>4. ASSUME Len(buffer) = Capacity, buffer' = Append(Tail(buffer), m), Free({Head(buffer)})
      PROVE  KeptOrFreed({m})
  <2>1. buffer # <<>>
    BY <1>4, ChannelAssumption
  <2>2. /\ Head(buffer) \in Msg /\ In(Head(buffer), buffer)
        /\ Tail(buffer) \in Seq(Msg) /\ Distinct(Tail(buffer))
        /\ \A x : In(x, Tail(buffer)) <=> In(x, buffer) /\ x # Head(buffer)
    BY <1>1, <2>1, TailDistinct
  <2>3. /\ Append(Tail(buffer), m) \in Seq(Msg) /\ Distinct(Append(Tail(buffer), m))
        /\ \A x : In(x, Append(Tail(buffer), m)) <=> In(x, Tail(buffer)) \/ x = m
    BY <1>1, <2>2, AppendDistinct
  <2>4. \A x : In(x, buffer') <=> (In(x, buffer) /\ x # Head(buffer)) \/ x = m
    BY <1>4, <2>2, <2>3
  <2>5. \A x \in Msg : freed'[x] = IF x = Head(buffer) THEN freed[x] + 1 ELSE freed[x]
    BY <1>4 DEF Free
  <2>6. freed' \in [Msg -> Nat]
    BY <1>1, <1>4 DEF Free
  <2>7. Head(buffer) # m
    BY <1>1, <2>2
  <2>. QED BY <1>4, <2>2, <2>3, <2>4, <2>5, <2>6, <2>7 DEF KeptOrFreed
<1>. QED BY <1>2, <1>3, <1>4 DEF Push

LEMMA EmptyKeepsOrFrees ==
  ASSUME ChannelInv, Free(Elements), buffer' = <<>>
  PROVE  KeptOrFreed({})
<1>1. buffer \in Seq(Msg) /\ freed \in [Msg -> Nat]
  BY DEF ChannelInv, TypeOK
<1>2. \A x : ~In(x, buffer')
  BY DEF In
<1>3. \A x : x \in Elements <=> In(x, buffer)
  BY DEF Elements, In
<1>4. \A x \in Msg : freed'[x] = IF In(x, buffer) THEN freed[x] + 1 ELSE freed[x]
  BY <1>3 DEF Free
<1>5. freed' \in [Msg -> Nat]
  BY <1>1 DEF Free
<1>6. Distinct(buffer') /\ buffer' \in Seq(Msg)
  BY DEF Distinct
<1>. QED BY <1>2, <1>4, <1>5, <1>6 DEF KeptOrFreed

LEMMA InitChannelInv == Init => ChannelInv
<1> SUFFICES ASSUME Init PROVE ChannelInv
  OBVIOUS
<1> USE ChannelAssumption DEF Init
<1>1. TypeOK
  BY DEF TypeOK, Slot
<1>2. ClosureOwnsContext /\ VariablesInUse
  BY DEF ClosureOwnsContext, VariablesInUse
<1>3. NoDuplicates /\ OnePlace
  BY DEF NoDuplicates, OnePlace, Sending, Queued, Received
<1>4. DisconnectedIsFinal
  BY DEF DisconnectedIsFinal
<1>. QED BY <1>1, <1>2, <1>3, <1>4 DEF ChannelInv

-----------------------------------------------------------------------------
(* Sending and Queued in terms of In.                                      *)
LEMMA QueuedIn == \A m : (Queued(m) <=> In(m, buffer)) /\ (Queued(m)' <=> In(m, buffer'))
BY DEF Queued, In

(* Steps that only change who holds the closure, or block a receiver.      *)
LEMMA ControlStep ==
  ASSUME ChannelInv, Declare \/ Undeclare \/ \E r \in Receiver : Recv(r)
  PROVE  ChannelInv'
<1> USE ChannelAssumption DEF ChannelInv
<1>1. CASE Declare \/ Undeclare
  <2> USE <1>1 DEF Declare, Undeclare
  <2>1. TypeOK'
    BY DEF TypeOK
  <2>2. ClosureOwnsContext' /\ VariablesInUse'
    BY DEF ClosureOwnsContext, VariablesInUse
  <2>3. NoDuplicates' /\ OnePlace'
    BY DEF NoDuplicates, OnePlace, Sending, Queued, Received
  <2>4. DisconnectedIsFinal'
    BY DEF DisconnectedIsFinal
  <2>. QED BY <2>1, <2>2, <2>3, <2>4
<1>2. ASSUME NEW r \in Receiver, Recv(r) PROVE ChannelInv'
  <2> USE <1>2 DEF Recv, Ready
  <2>1. /\ \A u \in Receiver : receiver'[u].var = receiver[u].var /\ receiver'[u].res = receiver[u].res
        /\ \A u \in Receiver : u # r => receiver'[u].pc = receiver[u].pc
    BY DEF TypeOK
  <2>2. TypeOK'
    BY DEF TypeOK
  <2>3. ClosureOwnsContext' /\ VariablesInUse'
    BY <2>1 DEF ClosureOwnsContext, VariablesInUse
  <2>4. NoDuplicates'
    BY <2>1 DEF NoDuplicates
  <2>5. OnePlace'
    BY <2>1 DEF OnePlace, Sending, Queued, Received
  <2>6. DisconnectedIsFinal'
    BY <2>1 DEF DisconnectedIsFinal
  <2>. QED BY <2>2, <2>3, <2>4, <2>5, <2>6
<1>. QED BY <1>1, <1>2

(* A call of the closure in a runtime thread.                              *)
LEMMA CallStartStep ==
  ASSUME ChannelInv, NEW s \in Sender, NEW m \in Msg, CallStart(s, m)
  PROVE  ChannelInv'
<1> USE ChannelAssumption DEF ChannelInv, CallStart
<1>1. /\ sender'[s] = [pc |-> "called", var |-> m]
      /\ \A t \in Sender : t # s => sender'[t] = sender[t]
  BY DEF TypeOK
<1>2. TypeOK'
  BY DEF TypeOK, Slot
<1>3. ClosureOwnsContext' /\ VariablesInUse'
  BY <1>1 DEF ClosureOwnsContext, VariablesInUse
<1>4. ~Sending(m) /\ ~Queued(m) /\ ~Received(m) /\ freed[m] = 0 /\ sender[s].var = None
  BY DEF OnePlace, VariablesInUse
<1>5. NoDuplicates'
  BY <1>1, <1>4 DEF NoDuplicates, Sending
<1>6. \A x \in Msg : /\ Sending(x)' <=> Sending(x) \/ x = m
                     /\ Queued(x)' <=> Queued(x)
                     /\ Received(x)' <=> Received(x)
  BY <1>1, <1>4 DEF Sending, Queued, Received
<1>7. OnePlace'
  BY <1>4, <1>6 DEF OnePlace
<1>8. DisconnectedIsFinal'
  BY DEF DisconnectedIsFinal
<1>. QED BY <1>2, <1>3, <1>5, <1>7, <1>8

LEMMA SendStep == ASSUME ChannelInv, NEW s \in Sender, Send(s) PROVE ChannelInv'
<1> DEFINE m == sender[s].var
<1> USE ChannelAssumption DEF ChannelInv
<1>1. m \in Msg /\ Sending(m) /\ sender[s].pc = "called"
  BY DEF Send, VariablesInUse, TypeOK, Slot, Sending
<1>2. KeptOrFreed({m}) /\ ~Queued(m)
  BY <1>1, PushKeepsOrFrees DEF Send, OnePlace
<1>3. /\ sender'[s] = [pc |-> "sent", var |-> None]
      /\ \A t \in Sender : t # s => sender'[t] = sender[t]
      /\ UNCHANGED <<kind, closure, context, handler, receiver, holds, fresh>>
  BY DEF Send, TypeOK
<1>4. TypeOK'
  BY <1>2, <1>3 DEF Send, TypeOK, Slot, KeptOrFreed
<1>5. ClosureOwnsContext' /\ VariablesInUse'
  BY <1>1, <1>3 DEF ClosureOwnsContext, VariablesInUse
<1>6. NoDuplicates'
  <2>1. \A i, j \in 1..Len(buffer') : buffer'[i] = buffer'[j] => i = j
    BY <1>2 DEF KeptOrFreed, Distinct
  <2>2. \A t, u \in Sender : sender'[t].var = sender'[u].var /\ sender'[t].var # None => t = u
    BY <1>3 DEF NoDuplicates
  <2>. QED BY <1>3, <2>1, <2>2 DEF NoDuplicates
<1>7. \A x \in Msg : /\ Sending(x)' <=> Sending(x) /\ x # m
                     /\ Received(x)' <=> Received(x)
  BY <1>1, <1>3 DEF Sending, Received, NoDuplicates
<1>8. OnePlace'
  BY <1>1, <1>2, <1>3, <1>7, QueuedIn DEF OnePlace, KeptOrFreed
<1>9. DisconnectedIsFinal'
  BY <1>1, <1>3 DEF DisconnectedIsFinal, ClosureOwnsContext
<1>. QED BY <1>4, <1>5, <1>6, <1>8, <1>9

LEMMA CallEndStep == ASSUME ChannelInv, NEW s \in Sender, CallEnd(s) PROVE ChannelInv'
<1> USE ChannelAssumption DEF ChannelInv
<1>1. sender[s].var = None /\ sender[s].pc = "sent"
  BY DEF CallEnd, VariablesInUse
<1>2. /\ sender'[s] = [pc |-> "idle", var |-> None]
      /\ \A t \in Sender : t # s => sender'[t] = sender[t]
      /\ UNCHANGED <<kind, closure, context, handler, buffer, receiver, holds, fresh>>
  BY DEF CallEnd, TypeOK
<1>3. freed' = freed
  <2>1. {sender[s].var} \ {None} = {}
    BY <1>1
  <2>2. freed' = [x \in Msg |-> freed[x]]
    BY <2>1 DEF CallEnd, Free
  <2>. QED BY <2>2 DEF TypeOK
<1>4. TypeOK'
  BY <1>2, <1>3 DEF CallEnd, TypeOK, Slot
<1>5. ClosureOwnsContext' /\ VariablesInUse'
  BY <1>2 DEF ClosureOwnsContext, VariablesInUse
<1>6. NoDuplicates'
  BY <1>1, <1>2 DEF NoDuplicates
<1>7. \A x \in Msg : /\ Sending(x)' <=> Sending(x)
                     /\ Queued(x)' <=> Queued(x)
                     /\ Received(x)' <=> Received(x)
  BY <1>1, <1>2 DEF Sending, Queued, Received
<1>8. OnePlace'
  BY <1>2, <1>3, <1>7 DEF OnePlace
<1>9. DisconnectedIsFinal'
  BY <1>2 DEF DisconnectedIsFinal
<1>. QED BY <1>4, <1>5, <1>6, <1>8, <1>9

(* The ends of the channel go, and what is left in the queue with them.    *)
LEMMA EndsStep == ASSUME ChannelInv, DropClosure \/ DropHandler \/ Discard PROVE ChannelInv'
<1> USE ChannelAssumption DEF ChannelInv
<1>1. \/ KeptOrFreed({}) /\ buffer' = <<>>
      \/ buffer' = buffer /\ freed' = freed
  BY EmptyKeepsOrFrees DEF DropClosure, DropHandler, Discard
<1>2. UNCHANGED <<kind, sender, receiver, holds, fresh>>
  BY DEF DropClosure, DropHandler, Discard
<1>3. TypeOK'
  BY <1>1, <1>2 DEF DropClosure, DropHandler, Discard, TypeOK, KeptOrFreed
<1>4. ClosureOwnsContext'
  BY DEF DropClosure, DropHandler, Discard, ClosureOwnsContext, TypeOK
<1>5. VariablesInUse'
  BY <1>2 DEF VariablesInUse
<1>6. NoDuplicates'
  BY <1>1, <1>2 DEF NoDuplicates, KeptOrFreed, Distinct
<1>7. \A x \in Msg : (Sending(x)' <=> Sending(x)) /\ (Received(x)' <=> Received(x))
  BY <1>2 DEF Sending, Received
<1>8. OnePlace'
  <2>1. CASE buffer' = buffer /\ freed' = freed
    BY <1>2, <1>7, <2>1, QueuedIn DEF OnePlace
  <2>2. CASE KeptOrFreed({})
    BY <1>2, <1>7, <2>2, QueuedIn DEF OnePlace, KeptOrFreed
  <2>. QED BY <1>1, <2>1, <2>2
<1>9. DisconnectedIsFinal'
  BY <1>1, <1>2 DEF DropClosure, DropHandler, Discard, DisconnectedIsFinal
<1>. QED BY <1>3, <1>4, <1>5, <1>6, <1>8, <1>9

(* What the receiving functions return.                                    *)
LEMMA ReceiveStep ==
  ASSUME ChannelInv, NEW r \in Receiver, RecvReturn(r) \/ TryRecv(r)
  PROVE  ChannelInv'
<1> USE ChannelAssumption DEF ChannelInv
<1>1. receiver[r].var = None
  BY DEF RecvReturn, TryRecv, Ready, VariablesInUse
<1>2. ASSUME NEW res \in {"nodata", "disconnected"}, Receive(r, res),
             res = "disconnected" => Disconnected
      PROVE  ChannelInv'
  <2>1. /\ receiver'[r] = [pc |-> "idle", var |-> None, res |-> res] /\ holds'[r] = None
        /\ \A u \in Receiver : u # r => receiver'[u] = receiver[u] /\ holds'[u] = holds[u]
        /\ UNCHANGED <<kind, closure, context, handler, buffer, sender, fresh, freed>>
    BY <1>2 DEF Receive, TypeOK
  <2>2. TypeOK'
    BY <1>2, <2>1 DEF Receive, TypeOK, Slot
  <2>3. ClosureOwnsContext' /\ VariablesInUse'
    BY <2>1 DEF ClosureOwnsContext, VariablesInUse
  <2>4. NoDuplicates'
    BY <1>1, <2>1 DEF NoDuplicates
  <2>5. \A x \in Msg : /\ Sending(x)' <=> Sending(x)
                       /\ Queued(x)' <=> Queued(x)
                       /\ Received(x)' <=> Received(x)
    BY <1>1, <2>1 DEF Sending, Queued, Received
  <2>6. OnePlace'
    BY <2>1, <2>5 DEF OnePlace
  <2>7. DisconnectedIsFinal'
    BY <1>2, <2>1 DEF DisconnectedIsFinal, Disconnected
  <2>. QED BY <2>2, <2>3, <2>4, <2>6, <2>7
<1>3. ASSUME buffer # <<>>, Receive(r, "ok") PROVE ChannelInv'
  <2> DEFINE m == Head(buffer)
  <2>1. buffer \in Seq(Msg) /\ Distinct(buffer)
    BY DEF TypeOK, NoDuplicates, Distinct
  <2>2. /\ m \in Msg /\ In(m, buffer) /\ Tail(buffer) \in Seq(Msg) /\ Distinct(Tail(buffer))
        /\ \A x : In(x, Tail(buffer)) <=> In(x, buffer) /\ x # m
    BY <1>3, <2>1, TailDistinct
  <2>3. /\ receiver'[r] = [pc |-> "idle", var |-> m, res |-> "ok"] /\ holds'[r] = m
        /\ \A u \in Receiver : u # r => receiver'[u] = receiver[u] /\ holds'[u] = holds[u]
        /\ UNCHANGED <<kind, closure, context, handler, sender, fresh, freed>>
        /\ buffer' = Tail(buffer)
    BY <1>3 DEF Receive, TypeOK
  <2>4. TypeOK'
    BY <1>3, <2>2, <2>3 DEF Receive, TypeOK, Slot
  <2>5. ClosureOwnsContext' /\ VariablesInUse'
    BY <2>2, <2>3 DEF ClosureOwnsContext, VariablesInUse
  <2>6. ~Received(m) /\ Queued(m)
    BY <2>2, QueuedIn DEF OnePlace
  <2>7. NoDuplicates'
    BY <2>2, <2>3, <2>6 DEF NoDuplicates, Distinct, Received
  <2>8. \A x \in Msg : /\ Sending(x)' <=> Sending(x)
                       /\ Queued(x)' <=> Queued(x) /\ x # m
                       /\ Received(x)' <=> Received(x) \/ x = m
    BY <1>1, <2>2, <2>3, QueuedIn DEF Sending, Received
  <2>9. OnePlace'
    BY <2>2, <2>3, <2>6, <2>8 DEF OnePlace
  <2>10. DisconnectedIsFinal'
    BY <1>3, <2>3 DEF DisconnectedIsFinal
  <2>. QED BY <2>4, <2>5, <2>7, <2>9, <2>10
<1>. QED BY <1>2, <1>3 DEF RecvReturn, TryRecv

(* What the application does with an object that it has.                   *)
LEMMA DropReceivedStep == ASSUME ChannelInv, NEW r \in Receiver, DropReceived(r) PROVE ChannelInv'
<1> DEFINE q == receiver[r].var
<1> USE ChannelAssumption DEF ChannelInv
<1>1. /\ receiver'[r].var = None /\ receiver'[r].pc = "idle" /\ holds'[r] = None
      /\ receiver'[r].res = receiver[r].res
      /\ \A u \in Receiver : u # r => receiver'[u] = receiver[u] /\ holds'[u] = holds[u]
      /\ UNCHANGED <<kind, closure, context, handler, buffer, sender, fresh>>
  BY DEF DropReceived, TypeOK
<1>2. \A x \in Msg : freed'[x] = IF x = q THEN freed[x] + 1 ELSE freed[x]
  BY DEF DropReceived, Free
<1>3. TypeOK'
  <2>1. receiver' = [receiver EXCEPT ![r] = [receiver[r] EXCEPT !.var = None]]
    BY DEF DropReceived
  <2>2. receiver' \in [Receiver -> [pc : {"idle", "recv"}, var : Slot,
                                    res : {"none", "ok", "nodata", "disconnected"}]]
    <3>1. None \in Slot
      BY DEF Slot
    <3>. QED BY <2>1, <3>1 DEF TypeOK
  <2>3. freed' \in [Msg -> Nat]
    BY DEF DropReceived, Free, TypeOK
  <2>. QED BY <1>1, <2>2, <2>3 DEF DropReceived, TypeOK, Slot
<1>4. ClosureOwnsContext' /\ VariablesInUse'
  BY <1>1 DEF ClosureOwnsContext, VariablesInUse
<1>5. NoDuplicates'
  BY <1>1 DEF NoDuplicates
<1>6. \A x \in Msg : /\ Sending(x)' <=> Sending(x)
                     /\ Queued(x)' <=> Queued(x)
                     /\ Received(x)' <=> Received(x) /\ x # q
  BY <1>1 DEF Sending, Queued, Received, NoDuplicates
<1>7. q \in Msg => Received(q)
  BY DEF Received
<1>8. OnePlace'
  BY <1>1, <1>2, <1>6, <1>7 DEF OnePlace, TypeOK
<1>9. DisconnectedIsFinal'
  BY <1>1 DEF DisconnectedIsFinal
<1>. QED BY <1>3, <1>4, <1>5, <1>8, <1>9

LEMMA CallDirectlyStep == ASSUME ChannelInv, NEW r \in Receiver, CallDirectly(r) PROVE ChannelInv'
<1> DEFINE m == receiver[r].var
<1> USE ChannelAssumption DEF ChannelInv
<1>1. m \in Msg /\ Received(m)
  BY DEF CallDirectly, TypeOK, Slot, Received
<1>2. KeptOrFreed({m}) /\ ~Queued(m)
  BY <1>1, PushKeepsOrFrees DEF CallDirectly, OnePlace
<1>3. /\ receiver'[r].var = None /\ receiver'[r].pc = "idle"
      /\ receiver'[r].res = receiver[r].res
      /\ \A u \in Receiver : u # r => receiver'[u] = receiver[u]
      /\ UNCHANGED <<kind, closure, context, handler, sender, holds, fresh>>
  BY DEF CallDirectly, TypeOK
<1>4. TypeOK'
  BY <1>2, <1>3 DEF CallDirectly, TypeOK, Slot, KeptOrFreed
<1>5. ClosureOwnsContext' /\ VariablesInUse'
  BY <1>3 DEF ClosureOwnsContext, VariablesInUse
<1>6. NoDuplicates'
  <2>1. \A i, j \in 1..Len(buffer') : buffer'[i] = buffer'[j] => i = j
    BY <1>2 DEF KeptOrFreed, Distinct
  <2>2. \A t, u \in Receiver :
           receiver'[t].var = receiver'[u].var /\ receiver'[t].var # None => t = u
    BY <1>3 DEF NoDuplicates
  <2>. QED BY <1>3, <2>1, <2>2 DEF NoDuplicates
<1>7. \A x \in Msg : /\ Sending(x)' <=> Sending(x)
                     /\ Received(x)' <=> Received(x) /\ x # m
  BY <1>1, <1>3 DEF Sending, Received, NoDuplicates
<1>8. OnePlace'
  BY <1>1, <1>2, <1>3, <1>7, QueuedIn DEF OnePlace, KeptOrFreed
<1>9. DisconnectedIsFinal'
  BY <1>3 DEF DisconnectedIsFinal, ClosureOwnsContext, CallDirectly
<1>. QED BY <1>4, <1>5, <1>6, <1>8, <1>9

LEMMA ObtainStep ==
  ASSUME ChannelInv, NEW r \in Receiver, NEW m \in Msg, Obtain(r, m)
  PROVE  ChannelInv'
<1> USE ChannelAssumption DEF ChannelInv
<1>1. /\ receiver'[r].var = m /\ receiver'[r].pc = "idle" /\ holds'[r] = m
      /\ receiver'[r].res = receiver[r].res
      /\ \A u \in Receiver : u # r => receiver'[u] = receiver[u] /\ holds'[u] = holds[u]
      /\ UNCHANGED <<kind, closure, context, handler, buffer, sender, freed>>
      /\ fresh' = fresh \ {m} /\ m \in fresh
  BY DEF Obtain, TypeOK
<1>2. TypeOK'
  <2>1. receiver' = [receiver EXCEPT ![r] = [receiver[r] EXCEPT !.var = m]]
    BY DEF Obtain
  <2> DEFINE R == [pc : {"idle", "recv"}, var : Slot,
                   res : {"none", "ok", "nodata", "disconnected"}]
  <2>2. [receiver[r] EXCEPT !.var = m] \in R
    <3>1. m \in Slot /\ receiver[r] \in R
      BY DEF TypeOK, Slot
    <3>. QED BY <3>1
  <2>3. receiver \in [Receiver -> R]
    BY DEF TypeOK
  <2> HIDE DEF R
  <2>4. receiver' \in [Receiver -> R]
    BY <2>1, <2>2, <2>3
  <2>. QED BY <1>1, <2>4 DEF Obtain, TypeOK, Slot, R
<1>3. ClosureOwnsContext' /\ VariablesInUse'
  BY <1>1 DEF ClosureOwnsContext, VariablesInUse
<1>4. ~Sending(m) /\ ~Queued(m) /\ ~Received(m) /\ freed[m] = 0 /\ receiver[r].var = None
  BY <1>1 DEF OnePlace, VariablesInUse, Obtain
<1>5. NoDuplicates'
  BY <1>1, <1>4 DEF NoDuplicates, Received
<1>6. \A x \in Msg : /\ Sending(x)' <=> Sending(x)
                     /\ Queued(x)' <=> Queued(x)
                     /\ Received(x)' <=> Received(x) \/ x = m
  BY <1>1, <1>4 DEF Sending, Queued, Received
<1>7. OnePlace'
  BY <1>1, <1>4, <1>6 DEF OnePlace
<1>8. DisconnectedIsFinal'
  BY <1>1 DEF DisconnectedIsFinal
<1>. QED BY <1>2, <1>3, <1>5, <1>7, <1>8

LEMMA NextChannelInv == ChannelInv /\ [Next]_vars => ChannelInv'
<1> SUFFICES ASSUME ChannelInv, [Next]_vars PROVE ChannelInv'
  OBVIOUS
<1>1. CASE UNCHANGED vars
  BY <1>1 DEF vars, ChannelInv, TypeOK, ClosureOwnsContext, VariablesInUse, NoDuplicates,
              OnePlace, Sending, Queued, Received, DisconnectedIsFinal
<1>. QED BY <1>1, ControlStep, CallStartStep, SendStep, CallEndStep, EndsStep, ReceiveStep,
            DropReceivedStep, CallDirectlyStep, ObtainStep DEF Next

LEMMA ChannelInvariant == Spec => []ChannelInv
BY InitChannelInv, NextChannelInv, PTL DEF Spec

-----------------------------------------------------------------------------
(* For every instance: no call of the closure uses a freed context.        *)
THEOREM SendsUseLiveContext == Spec => []ContextIsLive
<1>1. ChannelInv => ContextIsLive
  BY DEF ChannelInv, ClosureOwnsContext, ContextIsLive
<1>. QED BY <1>1, ChannelInvariant, PTL

(* A set with at most one element has as many as one can find in it.       *)
LEMMA AtMostOne ==
  ASSUME NEW S, \A x, y \in S : x = y
  PROVE  Cardinality(S) = IF S = {} THEN 0 ELSE 1
<1>1. CASE S = {}
  BY <1>1, FS_EmptySet
<1>2. CASE S # {}
  <2>1. PICK x : S = {x}
    BY <1>2
  <2>. QED BY <1>2, <2>1, FS_Singleton
<1>. QED BY <1>1, <1>2

(* For every instance: every object that arrived is in one place or has    *)
(* been freed once, whichever end of the channel is dropped first.         *)
THEOREM ObjectsAreOwnedOnce == Spec => []OwnedOnce
<1>1. ASSUME ChannelInv PROVE OwnedOnce
  <2> SUFFICES ASSUME NEW m \in Msg
               PROVE  freed[m] + Cardinality({s \in Sender : sender[s].var = m})
                               + Cardinality({i \in 1..Len(buffer) : buffer[i] = m})
                               + Cardinality({r \in Receiver : receiver[r].var = m})
                        = IF m \in fresh THEN 0 ELSE 1
    BY DEF OwnedOnce
  <2>1. m # None
    BY ChannelAssumption
  <2>2. Cardinality({s \in Sender : sender[s].var = m}) = IF Sending(m) THEN 1 ELSE 0
    <3>1. \A x, y \in {s \in Sender : sender[s].var = m} : x = y
      BY <1>1, <2>1 DEF ChannelInv, NoDuplicates
    <3>2. {s \in Sender : sender[s].var = m} = {} <=> ~Sending(m)
      BY DEF Sending
    <3>. QED BY <3>1, <3>2, AtMostOne
  <2>3. Cardinality({i \in 1..Len(buffer) : buffer[i] = m}) = IF Queued(m) THEN 1 ELSE 0
    <3>1. \A x, y \in {i \in 1..Len(buffer) : buffer[i] = m} : x = y
      BY <1>1 DEF ChannelInv, NoDuplicates
    <3>2. {i \in 1..Len(buffer) : buffer[i] = m} = {} <=> ~Queued(m)
      BY DEF Queued
    <3>. QED BY <3>1, <3>2, AtMostOne
  <2>4. Cardinality({r \in Receiver : receiver[r].var = m}) = IF Received(m) THEN 1 ELSE 0
    <3>1. \A x, y \in {r \in Receiver : receiver[r].var = m} : x = y
      BY <1>1, <2>1 DEF ChannelInv, NoDuplicates
    <3>2. {r \in Receiver : receiver[r].var = m} = {} <=> ~Received(m)
      BY DEF Received
    <3>. QED BY <3>1, <3>2, AtMostOne
  <2>. QED BY <1>1, <2>2, <2>3, <2>4 DEF ChannelInv, OnePlace
<1>. QED BY <1>1, ChannelInvariant, PTL

(* For every instance: after Z_CHANNEL_DISCONNECTED nothing is pushed, and *)
(* a fifo has been delivered to the end.                                   *)
THEOREM DisconnectionIsFinal == Spec => []DisconnectedIsFinal
<1>1. ChannelInv => DisconnectedIsFinal
  BY DEF ChannelInv
<1>. QED BY <1>1, ChannelInvariant, PTL

=============================================================================
