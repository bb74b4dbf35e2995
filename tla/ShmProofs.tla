------------------------------ MODULE ShmProofs ------------------------------
(***************************************************************************)
(* For any number of threads, requests and chunks: the callbacks of a      *)
(* provider that is not thread-safe are serial, no chunk is lost, and the  *)
(* contexts of providers, requests, clients and segments are deleted once  *)
(* and after their last use.                                               *)
(***************************************************************************)
EXTENDS Shm, FiniteSetTheorems, SequenceTheorems, TLAPS

-----------------------------------------------------------------------------
(* Clients, segments and storages: whoever lets go of a client or segment  *)
(* last, its context is deleted once, and no callback runs with it during  *)
(* or after that.                                                          *)
LEMMA InitClientInv == ClientInit => ClientInv
<1> SUFFICES ASSUME ClientInit PROVE ClientInv
  OBVIOUS
<1> USE ClientsAssumption DEF ClientInit, IdleMapper
<1>1. ClientTypeOK
  BY DEF ClientTypeOK, MapperState
<1>2. MapperPlace
  BY DEF MapperPlace
<1>3. HeldClientsAreLent
  BY DEF HeldClientsAreLent, ClientHeld
<1>4. FilledSegmentsAreOwned /\ MappedSegmentsAreLent /\ KeptSegmentsAreLent
  BY DEF FilledSegmentsAreOwned, MappedSegmentsAreLent, KeptSegmentsAreLent, Filling
<1>. QED BY <1>1, <1>2, <1>3, <1>4 DEF ClientInv

(* The steps of the application that only let go of something, and those   *)
(* that change nothing but contexts, clients and the list.                 *)
LEMMA ApplicationStep ==
  ASSUME ClientInv,
         \/ zc_shm_client_list_new \/ zc_shm_client_list_drop \/ CloseSession
         \/ \E c \in Client :
              \/ FillClientContext(c) \/ z_shm_client_new(c) \/ z_shm_client_drop(c)
              \/ zc_shm_client_list_add_client(c)
         \/ \E s \in Storage : z_shm_client_storage_drop(s)
  PROVE  ClientInv'
<1> USE ClientsAssumption DEF ClientInv, ClientTypeOK, Ctx
<1>1. CASE zc_shm_client_list_new
  BY <1>1 DEF zc_shm_client_list_new, MapperPlace, HeldClientsAreLent, ClientHeld, LiveObject, FilledSegmentsAreOwned, MappedSegmentsAreLent, KeptSegmentsAreLent, Filling
<1>2. CASE zc_shm_client_list_drop
  BY <1>2 DEF zc_shm_client_list_drop, MapperPlace, HeldClientsAreLent, ClientHeld, LiveObject, FilledSegmentsAreOwned, MappedSegmentsAreLent, KeptSegmentsAreLent, Filling
<1>3. CASE CloseSession
  <2> USE <1>3 DEF CloseSession
  <2>1. ClientTypeOK'
    OBVIOUS
  <2>2. \A o \in DOMAIN object : LiveObject(o)' => LiveObject(o)
    BY DEF LiveObject
  <2>3. HeldClientsAreLent'
    BY <2>2 DEF HeldClientsAreLent, ClientHeld
  <2>4. MapperPlace' /\ FilledSegmentsAreOwned' /\ MappedSegmentsAreLent'
    BY DEF MapperPlace, FilledSegmentsAreOwned, MappedSegmentsAreLent, Filling
  <2>5. KeptSegmentsAreLent'
    BY <2>2 DEF KeptSegmentsAreLent
  <2>. QED BY <2>1, <2>3, <2>4, <2>5
<1>4. ASSUME NEW c \in Client, FillClientContext(c) PROVE ClientInv'
  <2> USE <1>4 DEF FillClientContext
  <2>1. ClientTypeOK'
    OBVIOUS
  <2>2. MapperPlace'
    BY DEF MapperPlace
  <2>3. HeldClientsAreLent'
    BY DEF HeldClientsAreLent, ClientHeld, LiveObject, MapperPlace
  <2>4. FilledSegmentsAreOwned' /\ MappedSegmentsAreLent'
    BY DEF FilledSegmentsAreOwned, MappedSegmentsAreLent, Filling, MapperPlace
  <2>5. KeptSegmentsAreLent'
    BY DEF KeptSegmentsAreLent, LiveObject
  <2>. QED BY <2>1, <2>2, <2>3, <2>4, <2>5
<1>5. ASSUME NEW c \in Client, z_shm_client_new(c) PROVE ClientInv'
  BY <1>5 DEF z_shm_client_new, MapperPlace, HeldClientsAreLent, ClientHeld, LiveObject, FilledSegmentsAreOwned, MappedSegmentsAreLent, KeptSegmentsAreLent, Filling
<1>6. ASSUME NEW c \in Client, z_shm_client_drop(c) PROVE ClientInv'
  BY <1>6 DEF z_shm_client_drop, MapperPlace, HeldClientsAreLent, ClientHeld, LiveObject, FilledSegmentsAreOwned, MappedSegmentsAreLent, KeptSegmentsAreLent, Filling
<1>7. ASSUME NEW c \in Client, zc_shm_client_list_add_client(c) PROVE ClientInv'
  BY <1>7 DEF zc_shm_client_list_add_client, MapperPlace, HeldClientsAreLent, ClientHeld, LiveObject, FilledSegmentsAreOwned, MappedSegmentsAreLent, KeptSegmentsAreLent, Filling
<1>8. ASSUME NEW s \in Storage, z_shm_client_storage_drop(s) PROVE ClientInv'
  <2> USE <1>8 DEF z_shm_client_storage_drop
  <2>1. ClientTypeOK'
    OBVIOUS
  <2>2. MapperPlace'
    BY DEF MapperPlace
  <2>3. HeldClientsAreLent'
    BY DEF HeldClientsAreLent, ClientHeld, LiveObject, MapperPlace
  <2>4. FilledSegmentsAreOwned' /\ MappedSegmentsAreLent'
    BY DEF FilledSegmentsAreOwned, MappedSegmentsAreLent, Filling, MapperPlace
  <2>5. KeptSegmentsAreLent'
    BY DEF KeptSegmentsAreLent, LiveObject
  <2>. QED BY <2>1, <2>2, <2>3, <2>4, <2>5
<1>. QED BY <1>1, <1>2, <1>3, <1>4, <1>5, <1>6, <1>7, <1>8

(* Storages that are built, shared and given to a session.                 *)
LEMMA StorageStep ==
  ASSUME ClientInv, NEW s \in Storage,
         \/ z_shm_client_storage_new(s) \/ z_shm_client_storage_new_default(s)
         \/ z_open_with_custom_shm_clients(s)
         \/ \E from \in Storage : z_shm_client_storage_clone(s, from)
  PROVE  ClientInv'
<1> USE ClientsAssumption DEF ClientInv, ClientTypeOK, Ctx
<1>1. ASSUME NEW cs \in SUBSET list.clients, Build(s, cs) PROVE ClientInv'
  <2> USE <1>1 DEF Build
  <2>1. /\ Len(object') = Len(object) + 1 /\ DOMAIN object' = 1..(Len(object) + 1)
        /\ object'[Len(object) + 1] = [clients |-> cs, segments |-> {}]
        /\ \A o \in DOMAIN object : object'[o] = object[o]
    OBVIOUS
  <2>2. ClientTypeOK'
    <3>1. MapperState(Len(object)) \subseteq MapperState(Len(object'))
      BY <2>1 DEF MapperState
    <3>. QED BY <2>1, <3>1
  <2>3. MapperPlace'
    BY <2>1 DEF MapperPlace
  <2>4. \A o \in DOMAIN object : LiveObject(o)' => LiveObject(o)
    BY <2>1 DEF LiveObject
  <2>5. HeldClientsAreLent'
    BY <2>1, <2>4 DEF HeldClientsAreLent, ClientHeld
  <2>6. FilledSegmentsAreOwned' /\ MappedSegmentsAreLent'
    BY DEF FilledSegmentsAreOwned, MappedSegmentsAreLent, Filling
  <2>7. KeptSegmentsAreLent'
    BY <2>1, <2>4 DEF KeptSegmentsAreLent
  <2>. QED BY <2>2, <2>3, <2>5, <2>6, <2>7
<1>2. CASE z_open_with_custom_shm_clients(s)
  <2> USE <1>2 DEF z_open_with_custom_shm_clients
  <2>1. \A o \in DOMAIN object : LiveObject(o)' => LiveObject(o)
    BY DEF LiveObject
  <2>. QED BY <2>1 DEF MapperPlace, HeldClientsAreLent, ClientHeld, FilledSegmentsAreOwned,
                       MappedSegmentsAreLent, KeptSegmentsAreLent, Filling
<1>3. ASSUME NEW from \in Storage, z_shm_client_storage_clone(s, from) PROVE ClientInv'
  <2> USE <1>3 DEF z_shm_client_storage_clone
  <2>1. \A o \in DOMAIN object : LiveObject(o)' => LiveObject(o)
    BY DEF LiveObject
  <2>. QED BY <2>1 DEF MapperPlace, HeldClientsAreLent, ClientHeld, FilledSegmentsAreOwned,
                       MappedSegmentsAreLent, KeptSegmentsAreLent, Filling
<1>. QED BY <1>1, <1>2, <1>3 DEF z_shm_client_storage_new, z_shm_client_storage_new_default

(* A thread moves to state r, which refers only to what is still referred  *)
(* to, and fills in no segment but its own.                                *)
LEMMA MapperMoves ==
  ASSUME ClientInv, NEW m \in Mapper, NEW r \in MapperState(Len(object)),
         mapper' = [mapper EXCEPT ![m] = r],
         UNCHANGED <<ctx, client, list, object, storage, session>>,
         /\ r.phase \in {"attach", "attached"} => r.client \in Client /\ r.object \in DOMAIN object
         /\ r.phase \notin {"attach", "attached"} => r.client = NoClient /\ r.object = 0
         /\ r.phase \notin {"idle", "attach"} => r.segment \in Segment
         /\ r.phase = "idle" => r.segment = NoSegment,
         r.client \in Client => ClientHeld(r.client),
         r.object \in DOMAIN object => LiveObject(r.object),
         r.phase \in {"attach", "attached"} =>
           r.segment = NoSegment \/ Filling(m, r.segment),
         r.phase \in {"ready", "map", "held"} => ctx[r.segment] = "lent"
  PROVE  ClientInv'
<1> USE ClientsAssumption DEF ClientInv, ClientTypeOK
<1>1. mapper'[m] = r /\ \A n \in Mapper : n # m => mapper'[n] = mapper[n]
  OBVIOUS
<1>2. ClientTypeOK'
  OBVIOUS
<1>3. MapperPlace'
  BY <1>1 DEF MapperPlace
<1>4. \A o \in DOMAIN object : LiveObject(o)' => LiveObject(o)
  <2> SUFFICES ASSUME NEW o \in DOMAIN object, LiveObject(o)' PROVE LiveObject(o)
    OBVIOUS
  <2>1. CASE \E n \in Mapper : mapper'[n].object = o
    <3>1. PICK n \in Mapper : mapper'[n].object = o
      BY <2>1
    <3>2. CASE n = m
      BY <3>1, <3>2, <1>1
    <3>3. CASE n # m
      BY <3>1, <3>3, <1>1 DEF LiveObject
    <3>. QED BY <3>2, <3>3
  <2>2. CASE ~\E n \in Mapper : mapper'[n].object = o
    BY <2>2 DEF LiveObject
  <2>. QED BY <2>1, <2>2
<1>5. HeldClientsAreLent'
  <2> SUFFICES ASSUME NEW c \in Client, ClientHeld(c)' PROVE ClientHeld(c)
    BY DEF HeldClientsAreLent
  <2>1. CASE \E n \in Mapper : mapper'[n].client = c
    <3>1. PICK n \in Mapper : mapper'[n].client = c
      BY <2>1
    <3>2. CASE n = m
      BY <3>1, <3>2, <1>1
    <3>3. CASE n # m
      BY <3>1, <3>3, <1>1 DEF ClientHeld
    <3>. QED BY <3>2, <3>3
  <2>2. CASE ~\E n \in Mapper : mapper'[n].client = c
    BY <2>2, <1>4 DEF ClientHeld
  <2>. QED BY <2>1, <2>2
<1>6. FilledSegmentsAreOwned'
  <2>1. \A n \in Mapper, g \in Segment : Filling(n, g)' => Filling(n, g)
    BY <1>1 DEF Filling
  <2>. QED BY <2>1 DEF FilledSegmentsAreOwned
<1>7. MappedSegmentsAreLent'
  BY <1>1 DEF MappedSegmentsAreLent
<1>8. KeptSegmentsAreLent'
  BY <1>4 DEF KeptSegmentsAreLent
<1>. QED BY <1>2, <1>3, <1>5, <1>6, <1>7, <1>8

(* What a storage keeps.                                                   *)
ObjectState == [clients : SUBSET Client, segments : SUBSET Segment]

LEMMA ObjectType ==
  ASSUME ClientInv, NEW o \in DOMAIN object
  PROVE  /\ o \in 1..Len(object) /\ object \in Seq(ObjectState) /\ object[o] \in ObjectState
         /\ object[o].clients \subseteq Client /\ object[o].segments \subseteq Segment
<1>1. object \in Seq(ObjectState)
  BY DEF ClientInv, ClientTypeOK, ObjectState
<1>2. o \in 1..Len(object)
  BY <1>1
<1>3. object[o] \in ObjectState
  BY <1>1, <1>2, ElementOfSeq
<1>. QED BY <1>1, <1>2, <1>3 DEF ObjectState

LEMMA ReceiveInv == ASSUME ClientInv, NEW m \in Mapper, Receive(m) PROVE ClientInv'
<1> USE ClientsAssumption DEF ClientInv, ClientTypeOK, Receive, At
<1>1. session \in DOMAIN object /\ LiveObject(session)
  BY DEF LiveObject
<1>2. ASSUME NEW c \in object[session].clients, At(m, "attach", c, NoSegment, session)
      PROVE  ClientInv'
  <2> DEFINE r == [phase |-> "attach", client |-> c, segment |-> NoSegment, object |-> session]
  <2>1. c \in Client /\ ClientHeld(c)
    BY <1>1, ObjectType DEF ClientHeld
  <2>2. r \in MapperState(Len(object))
    BY <2>1 DEF MapperState
  <2>3. mapper' = [mapper EXCEPT ![m] = r]
    BY <1>2
  <2> HIDE DEF ClientInv, ClientTypeOK
  <2>. QED BY <1>1, <2>1, <2>2, <2>3, MapperMoves
<1>3. ASSUME NEW g \in object[session].segments, At(m, "ready", NoClient, g, 0)
      PROVE  ClientInv'
  <2> DEFINE r == [phase |-> "ready", client |-> NoClient, segment |-> g, object |-> 0]
  <2>1. g \in Segment /\ ctx[g] = "lent"
    BY <1>1, ObjectType DEF KeptSegmentsAreLent
  <2>2. r \in MapperState(Len(object)) /\ 0 \notin DOMAIN object
    BY <2>1 DEF MapperState
  <2>3. mapper' = [mapper EXCEPT ![m] = r]
    BY <1>3
  <2> HIDE DEF ClientInv, ClientTypeOK
  <2>. QED BY <2>1, <2>2, <2>3, MapperMoves
<1>. QED BY <1>2, <1>3

(* attach_fn fills in a segment that no one has.                           *)
LEMMA FillSegmentInv ==
  ASSUME ClientInv, NEW m \in Mapper, NEW g \in Segment, FillSegmentContext(m, g)
  PROVE  ClientInv'
<1> USE ClientsAssumption DEF ClientInv, ClientTypeOK, Ctx, FillSegmentContext
<1>1. /\ mapper'[m] = [mapper[m] EXCEPT !.segment = g]
      /\ \A n \in Mapper : n # m => mapper'[n] = mapper[n]
      /\ ctx'[g] = "owned" /\ \A d \in Ctx : d # g => ctx'[d] = ctx[d]
  OBVIOUS
<1>2. /\ mapper'[m].phase = "attach" /\ mapper'[m].segment = g
      /\ mapper'[m].client = mapper[m].client /\ mapper'[m].object = mapper[m].object
      /\ mapper'[m] \in MapperState(Len(object))
  <2>1. mapper[m] \in MapperState(Len(object))
    OBVIOUS
  <2>. QED BY <1>1, <2>1 DEF MapperState
<1>3. ClientTypeOK'
  BY <1>2
<1>4. MapperPlace'
  BY <1>1, <1>2 DEF MapperPlace
<1>5. \A o \in DOMAIN object : LiveObject(o)' => LiveObject(o)
  BY <1>1, <1>2 DEF LiveObject
<1>6. HeldClientsAreLent'
  BY <1>1, <1>2, <1>5 DEF HeldClientsAreLent, ClientHeld
<1>7. FilledSegmentsAreOwned'
  <2>1. \A n \in Mapper : ~Filling(n, g)
    BY DEF FilledSegmentsAreOwned
  <2>2. \A n \in Mapper, h \in Segment : Filling(n, h)' => (n = m /\ h = g) \/ (h # g /\ Filling(n, h))
    BY <1>1, <1>2, <2>1 DEF Filling
  <2>. QED BY <1>1, <2>2 DEF FilledSegmentsAreOwned
<1>8. MappedSegmentsAreLent'
  BY <1>1, <1>2 DEF MappedSegmentsAreLent, MapperPlace
<1>9. KeptSegmentsAreLent'
  BY <1>1, <1>5 DEF KeptSegmentsAreLent
<1>. QED BY <1>3, <1>4, <1>6, <1>7, <1>8, <1>9

(* What the other steps of a thread find.                                  *)
LEMMA MapperIdles ==
  ASSUME ClientInv, NEW m \in Mapper, mapper' = [mapper EXCEPT ![m] = IdleMapper],
         UNCHANGED <<ctx, client, list, object, storage, session>>
  PROVE  ClientInv'
<1>1. IdleMapper \in MapperState(Len(object)) /\ 0 \notin DOMAIN object
  BY DEF IdleMapper, MapperState, ClientInv, ClientTypeOK
<1>. QED BY <1>1, ClientsAssumption, MapperMoves DEF IdleMapper

LEMMA MapperAdvances ==
  ASSUME ClientInv, NEW m \in Mapper, NEW p,
         \/ mapper[m].phase = "attach" /\ p = "attached" /\ mapper[m].segment # NoSegment
         \/ mapper[m].phase = "ready" /\ p = "map"
         \/ mapper[m].phase = "map" /\ p = "held",
         mapper' = [mapper EXCEPT ![m].phase = p],
         UNCHANGED <<ctx, client, list, object, storage, session>>
  PROVE  ClientInv'
<1> DEFINE r == [mapper[m] EXCEPT !.phase = p]
<1>1. mapper[m] \in MapperState(Len(object)) /\ 0 \notin DOMAIN object
  BY DEF ClientInv, ClientTypeOK
<1>2. /\ r \in MapperState(Len(object)) /\ r.phase = p /\ r.client = mapper[m].client
      /\ r.segment = mapper[m].segment /\ r.object = mapper[m].object
  BY <1>1 DEF MapperState
<1>3. mapper' = [mapper EXCEPT ![m] = r]
  OBVIOUS
<1>4. /\ r.client \in Client => ClientHeld(r.client)
      /\ r.object \in DOMAIN object => LiveObject(r.object)
  BY <1>2 DEF ClientHeld, LiveObject
<1>5. /\ r.phase \in {"attach", "attached"} => r.client \in Client /\ r.object \in DOMAIN object
      /\ r.phase \notin {"attach", "attached"} => r.client = NoClient /\ r.object = 0
      /\ r.segment \in Segment /\ r.phase \notin {"idle", "attach"}
  BY <1>1, <1>2 DEF ClientInv, MapperPlace, MapperState
<1>6. r.phase = "attached" => Filling(m, r.segment)
  BY <1>2 DEF Filling
<1>7. r.phase \in {"map", "held"} => ctx[r.segment] = "lent"
  BY <1>2 DEF ClientInv, MappedSegmentsAreLent
<1>8. r.phase \in {"attached", "map", "held"}
  BY <1>2
<1> HIDE DEF r
<1>. QED BY <1>2, <1>3, <1>4, <1>5, <1>6, <1>7, <1>8, MapperMoves

(* The storage takes the segment, and no other thread is filling it in.    *)
LEMMA TakeSegmentInv == ASSUME ClientInv, NEW m \in Mapper, TakeSegment(m) PROVE ClientInv'
<1> DEFINE g == mapper[m].segment
           p == mapper[m].object
           r == [phase |-> "ready", client |-> NoClient, segment |-> g, object |-> 0]
<1> USE ClientsAssumption DEF ClientInv, ClientTypeOK, Ctx, TakeSegment, At
<1>1. /\ g \in Segment /\ p \in DOMAIN object /\ ctx[g] = "owned"
      /\ \A n \in Mapper : Filling(n, g) => n = m
  BY DEF MapperPlace, FilledSegmentsAreOwned, Filling
<1>2. /\ DOMAIN object' = DOMAIN object /\ Len(object') = Len(object)
      /\ object'[p].clients = object[p].clients
      /\ object'[p].segments = object[p].segments \cup {g}
      /\ \A o \in DOMAIN object : o # p => object'[o] = object[o]
      /\ object' \in Seq(ObjectState)
  <2> DEFINE e == [object[p] EXCEPT !.segments = object[p].segments \cup {g}]
  <2>1. object[p] \in ObjectState /\ p \in 1..Len(object) /\ object \in Seq(ObjectState)
    BY <1>1, ObjectType
  <2>2. object' = [object EXCEPT ![p] = e]
    OBVIOUS
  <2>3. /\ e.clients = object[p].clients /\ e.segments = object[p].segments \cup {g}
        /\ e \in ObjectState
    BY <1>1, <2>1 DEF ObjectState
  <2> HIDE DEF e
  <2>. QED BY <2>1, <2>2, <2>3, ExceptSeq
<1>3. \A o \in DOMAIN object : /\ object'[o].clients = object[o].clients
                               /\ object'[o].segments \subseteq object[o].segments \cup {g}
  BY <1>2
<1>4. /\ mapper'[m] = r /\ \A n \in Mapper : n # m => mapper'[n] = mapper[n]
      /\ ctx'[g] = "lent" /\ \A d \in Ctx : d # g => ctx'[d] = ctx[d]
  BY <1>1
<1>5. r \in MapperState(Len(object))
  BY <1>1 DEF MapperState
<1>6. ClientTypeOK'
  BY <1>1, <1>2, <1>5 DEF ObjectState
<1>7. MapperPlace'
  BY <1>1, <1>2, <1>4 DEF MapperPlace
<1>8. \A o \in DOMAIN object : LiveObject(o)' => LiveObject(o)
  BY <1>4 DEF LiveObject
<1>9. HeldClientsAreLent'
  BY <1>1, <1>2, <1>3, <1>4, <1>8 DEF HeldClientsAreLent, ClientHeld
<1>10. FilledSegmentsAreOwned'
  <2>1. \A n \in Mapper, h \in Segment : Filling(n, h)' => h # g /\ Filling(n, h)
    BY <1>1, <1>4 DEF Filling
  <2>. QED BY <1>4, <2>1 DEF FilledSegmentsAreOwned
<1>11. MappedSegmentsAreLent'
  BY <1>1, <1>4 DEF MappedSegmentsAreLent, MapperPlace
<1>12. KeptSegmentsAreLent'
  BY <1>1, <1>2, <1>3, <1>4, <1>8 DEF KeptSegmentsAreLent
<1>. QED BY <1>6, <1>7, <1>9, <1>10, <1>11, <1>12

(* A runtime thread on its way from a received buffer to its memory.       *)
LEMMA MapperStepInv ==
  ASSUME ClientInv, NEW m \in Mapper,
         MapperStep(m) \/ Receive(m) \/ \E g \in Segment : FillSegmentContext(m, g)
  PROVE  ClientInv'
<1>1. CASE AttachReturn(m)
  BY <1>1, MapperIdles, MapperAdvances DEF AttachReturn
<1>2. CASE MapCall(m)
  BY <1>2, MapperAdvances DEF MapCall
<1>3. CASE MapReturn(m)
  BY <1>3, MapperIdles, MapperAdvances DEF MapReturn
<1>4. CASE DropMapped(m)
  BY <1>4, MapperIdles DEF DropMapped
<1>. QED BY <1>1, <1>2, <1>3, <1>4, ReceiveInv, FillSegmentInv, TakeSegmentInv DEF MapperStep

(* A context is deleted when nobody refers to it.                          *)
LEMMA DeleteStep ==
  ASSUME ClientInv, NEW c \in Ctx, DeleteClientContext(c) \/ DeleteClientReturn(c)
  PROVE  ClientInv'
<1> USE ClientsAssumption DEF ClientInv, ClientTypeOK, Ctx
<1> USE DEF DeleteClientContext, DeleteClientReturn
<1>1. /\ ctx' \in [Ctx -> {"fresh", "owned", "lent", "dropping", "dropped"}]
      /\ \A d \in Ctx : d # c => ctx'[d] = ctx[d]
      /\ UNCHANGED <<client, list, object, storage, session, mapper>>
      /\ ctx[c] \in {"lent", "dropping"}
  OBVIOUS
<1>2. c \in Client => ~ClientHeld(c)
  BY DEF HeldClientsAreLent
<1>3. \A m \in Mapper : mapper[m].phase \in {"ready", "map", "held"} => mapper[m].segment # c
  <2> SUFFICES ASSUME NEW m \in Mapper, mapper[m].phase \in {"ready", "map", "held"},
                      mapper[m].segment = c
               PROVE  FALSE
    OBVIOUS
  <2>1. c \in Segment /\ ctx[c] = "lent"
    BY DEF MapperPlace, MappedSegmentsAreLent
  <2>2. SegmentHeld(c)
    BY DEF SegmentHeld
  <2>. QED BY <2>1, <2>2
<1>4. \A o \in DOMAIN object : LiveObject(o) => c \notin object[o].segments
  <2> SUFFICES ASSUME NEW o \in DOMAIN object, LiveObject(o), c \in object[o].segments
               PROVE  FALSE
    OBVIOUS
  <2>1. c \in Segment /\ ctx[c] = "lent"
    BY ObjectType DEF KeptSegmentsAreLent
  <2>2. SegmentHeld(c)
    BY DEF SegmentHeld
  <2>. QED BY <2>1, <2>2
<1>5. ClientTypeOK' /\ MapperPlace'
  BY <1>1 DEF MapperPlace
<1>6. HeldClientsAreLent'
  BY <1>1, <1>2 DEF HeldClientsAreLent, ClientHeld, LiveObject
<1>7. FilledSegmentsAreOwned'
  BY <1>1 DEF FilledSegmentsAreOwned, Filling
<1>8. MappedSegmentsAreLent'
  BY <1>1, <1>3 DEF MappedSegmentsAreLent, MapperPlace
<1>9. KeptSegmentsAreLent'
  <2> SUFFICES ASSUME NEW o \in DOMAIN object, LiveObject(o), NEW g \in object[o].segments
               PROVE  ctx'[g] = "lent"
    BY <1>1 DEF KeptSegmentsAreLent, LiveObject
  <2>1. g # c /\ g \in Segment /\ ctx[g] = "lent"
    BY <1>4, ObjectType DEF KeptSegmentsAreLent
  <2>. QED BY <1>1, <2>1
<1>. QED BY <1>5, <1>6, <1>7, <1>8, <1>9

LEMMA NextClientInv == ClientInv /\ [ClientNext]_clientVars => ClientInv'
<1> SUFFICES ASSUME ClientInv, [ClientNext]_clientVars PROVE ClientInv'
  OBVIOUS
<1>1. CASE UNCHANGED clientVars
  BY <1>1 DEF clientVars, ClientInv, ClientTypeOK, MapperPlace, HeldClientsAreLent, ClientHeld,
              LiveObject, FilledSegmentsAreOwned, MappedSegmentsAreLent, KeptSegmentsAreLent, Filling
<1>2. CASE ClientNext
  BY <1>2, ApplicationStep, StorageStep, MapperStepInv, DeleteStep DEF ClientNext
<1>. QED BY <1>1, <1>2

LEMMA ClientInvariant == ClientSpec => []ClientInv
BY InitClientInv, NextClientInv, PTL DEF ClientSpec

(* For every instance: the variables of clients, lists, storages, sessions *)
(* and receiving threads keep their types.                                 *)
THEOREM ClientTypes == ClientSpec => []ClientTypeOK
<1>1. ClientInv => ClientTypeOK
  BY DEF ClientInv
<1>. QED BY <1>1, ClientInvariant, PTL

-----------------------------------------------------------------------------
(* The threads that execute attach_fn or map_fn, as the contract sees them. *)
Calling(m, c) ==
  \/ mapper[m].phase = "attach" /\ mapper[m].client = c
  \/ mapper[m].phase = "map" /\ mapper[m].segment = c
Running == [c \in Ctx |-> {m \in Mapper : Calling(m, c)}]

ContractStep == [ClientContract!ContractNext]_(ClientContract!contractVars)

LEMMA InitClientContract == ClientInit => ClientContract!ContractInit
<1> SUFFICES ASSUME ClientInit PROVE ClientContract!ContractInit
  OBVIOUS
<1>1. \A c \in Ctx : {m \in Mapper : \/ mapper[m].phase = "attach" /\ mapper[m].client = c
                                     \/ mapper[m].phase = "map" /\ mapper[m].segment = c} = {}
  BY DEF ClientInit, IdleMapper
<1>. QED BY <1>1 DEF ClientInit, ClientContract!ContractInit

(* Three ways a step of a thread appears in the contract.                  *)
LEMMA NoCall ==
  ASSUME ctx' = ctx, \A n \in Mapper, d \in Ctx : Calling(n, d)' <=> Calling(n, d)
  PROVE  ContractStep
<1>1. Running' = Running
  BY DEF Running
<1>. QED BY <1>1 DEF ContractStep, ClientContract!contractVars, Running, Calling

LEMMA CallStarts ==
  ASSUME NEW m \in Mapper, NEW c \in Ctx, ctx' = ctx, ctx[c] = "lent", ~Calling(m, c),
         \A n \in Mapper, d \in Ctx : Calling(n, d)' <=> Calling(n, d) \/ (n = m /\ d = c)
  PROVE  ContractStep
<1>1. m \notin Running[c] /\ Running' = [Running EXCEPT ![c] = @ \cup {m}]
  BY DEF Running
<1>2. ClientContract!StartCall(c, m)
  BY <1>1 DEF ClientContract!StartCall, Running, Calling
<1>. QED BY <1>2 DEF ContractStep, ClientContract!ContractNext

LEMMA CallEnds ==
  ASSUME NEW m \in Mapper, NEW c \in Ctx, ctx' = ctx, Calling(m, c),
         \A n \in Mapper, d \in Ctx : Calling(n, d)' <=> Calling(n, d) /\ ~(n = m /\ d = c)
  PROVE  ContractStep
<1>1. m \in Running[c] /\ Running' = [Running EXCEPT ![c] = @ \ {m}]
  BY DEF Running
<1>2. ClientContract!EndCall(c, m)
  BY <1>1 DEF ClientContract!EndCall, Running, Calling
<1>. QED BY <1>2 DEF ContractStep, ClientContract!ContractNext

(* A context changes hands while no thread's place changes.                *)
LEMMA ContextStep ==
  ASSUME ClientInv, NEW c \in Ctx, Running' = Running, NEW l, ctx' = [ctx EXCEPT ![c] = l],
         \/ ctx[c] = "fresh" /\ l = "owned"
         \/ ctx[c] = "owned" /\ l = "lent"
         \/ ctx[c] = "lent" /\ l = "dropping" /\ Running[c] = {}
         \/ ctx[c] = "dropping" /\ l = "dropped"
  PROVE  ContractStep
<1> USE DEF ContractStep, ClientContract!ContractNext, Running, Calling
<1>1. CASE ctx[c] = "fresh" /\ l = "owned"
  BY <1>1 DEF ClientContract!Construct
<1>2. CASE ctx[c] = "owned" /\ l = "lent"
  BY <1>2 DEF ClientContract!Lend
<1>3. CASE ctx[c] = "lent" /\ l = "dropping" /\ Running[c] = {}
  BY <1>3 DEF ClientContract!StartDrop
<1>4. CASE ctx[c] = "dropping" /\ l = "dropped"
  BY <1>4 DEF ClientContract!EndDrop
<1>. QED BY <1>1, <1>2, <1>3, <1>4

(* The steps of a runtime thread.                                          *)
LEMMA MapperContract ==
  ASSUME ClientInv, NEW m \in Mapper,
         MapperStep(m) \/ Receive(m) \/ \E g \in Segment : FillSegmentContext(m, g)
  PROVE  ContractStep
<1> USE ClientsAssumption DEF Ctx
<1>0. mapper \in [Mapper -> MapperState(Len(object))] /\ MapperPlace
  BY DEF ClientInv, ClientTypeOK
<1>1. ASSUME NEW c, At(m, "attach", c, NoSegment, session), Receive(m),
             c \in object[session].clients
      PROVE  ContractStep
  <2>1. session \in DOMAIN object
    BY <1>1 DEF ClientInv, ClientTypeOK, Receive
  <2>2. c \in Client /\ ClientHeld(c)
    BY <1>1, <2>1, ObjectType DEF ClientHeld, LiveObject
  <2>3. c \in Ctx /\ ctx[c] = "lent" /\ ctx' = ctx
    BY <1>1, <2>2 DEF ClientInv, HeldClientsAreLent, Receive
  <2>4. mapper[m].phase = "idle"
    BY <1>1 DEF Receive
  <2>5. \A n \in Mapper, d \in Ctx : Calling(n, d)' <=> Calling(n, d) \/ (n = m /\ d = c)
    BY <1>0, <1>1, <2>4 DEF At, Calling
  <2>. QED BY <2>3, <2>4, <2>5, CallStarts DEF Calling
<1>2. ASSUME NEW g, At(m, "ready", NoClient, g, 0), Receive(m) PROVE ContractStep
  <2>1. \A n \in Mapper, d \in Ctx : Calling(n, d)' <=> Calling(n, d)
    BY <1>0, <1>2 DEF At, Calling, Receive
  <2>. QED BY <1>2, <2>1, NoCall DEF Receive
<1>3. ASSUME NEW g \in Segment, FillSegmentContext(m, g) PROVE ContractStep
  <2>1. \A n \in Mapper, d \in Ctx : Calling(n, d)' <=> Calling(n, d)
    BY <1>0, <1>3 DEF FillSegmentContext, Calling, MapperState
  <2>2. Running' = Running
    BY <2>1 DEF Running
  <2>. QED BY <1>3, <2>2, ContextStep DEF FillSegmentContext
<1>4. CASE AttachReturn(m)
  <2> DEFINE c == mapper[m].client
  <2>1. c \in Client /\ Calling(m, c) /\ ctx' = ctx /\ mapper[m].phase = "attach"
    BY <1>0, <1>4 DEF AttachReturn, Calling, MapperPlace
  <2>2. mapper'[m].phase \in {"attached", "idle"} /\ \A n \in Mapper : n # m => mapper'[n] = mapper[n]
    BY <1>0, <1>4 DEF AttachReturn, IdleMapper, MapperState
  <2>3. \A n \in Mapper, d \in Ctx : Calling(n, d)' <=> Calling(n, d) /\ ~(n = m /\ d = c)
    BY <2>1, <2>2 DEF Calling
  <2>. QED BY <2>1, <2>3, CallEnds
<1>5. CASE TakeSegment(m)
  <2> DEFINE g == mapper[m].segment
  <2>1. g \in Segment /\ ctx[g] = "owned" /\ mapper[m].phase = "attached"
    BY <1>0, <1>5 DEF TakeSegment, ClientInv, MapperPlace, FilledSegmentsAreOwned, Filling
  <2>2. \A n \in Mapper, d \in Ctx : Calling(n, d)' <=> Calling(n, d)
    BY <1>0, <1>5, <2>1 DEF TakeSegment, At, Calling
  <2>3. Running' = Running
    BY <2>2 DEF Running
  <2>4. ctx' = [ctx EXCEPT ![g] = "lent"]
    BY <1>5 DEF TakeSegment
  <2>. QED BY <2>1, <2>3, <2>4, ContextStep
<1>6. CASE MapCall(m)
  <2> DEFINE g == mapper[m].segment
  <2>1. g \in Segment /\ ctx[g] = "lent" /\ mapper[m].phase = "ready" /\ ctx' = ctx
    BY <1>0, <1>6 DEF MapCall, ClientInv, MapperPlace, MappedSegmentsAreLent
  <2>2. /\ mapper'[m].phase = "map" /\ mapper'[m].segment = g
        /\ \A n \in Mapper : n # m => mapper'[n] = mapper[n]
    BY <1>0, <1>6 DEF MapCall, MapperState
  <2>3. \A n \in Mapper, d \in Ctx : Calling(n, d)' <=> Calling(n, d) \/ (n = m /\ d = g)
    BY <2>1, <2>2 DEF Calling
  <2>4. ~Calling(m, g)
    BY <2>1 DEF Calling
  <2>. QED BY <2>1, <2>3, <2>4, CallStarts
<1>7. CASE MapReturn(m)
  <2> DEFINE g == mapper[m].segment
  <2>1. g \in Segment /\ Calling(m, g) /\ ctx' = ctx /\ mapper[m].phase = "map"
    BY <1>0, <1>7 DEF MapReturn, Calling, MapperPlace
  <2>2. mapper'[m].phase \in {"held", "idle"} /\ \A n \in Mapper : n # m => mapper'[n] = mapper[n]
    BY <1>0, <1>7 DEF MapReturn, IdleMapper, MapperState
  <2>3. \A n \in Mapper, d \in Ctx : Calling(n, d)' <=> Calling(n, d) /\ ~(n = m /\ d = g)
    BY <2>1, <2>2 DEF Calling
  <2>. QED BY <2>1, <2>3, CallEnds
<1>8. CASE DropMapped(m)
  <2>1. \A n \in Mapper, d \in Ctx : Calling(n, d)' <=> Calling(n, d)
    BY <1>0, <1>8 DEF DropMapped, IdleMapper, Calling
  <2>. QED BY <1>8, <2>1, NoCall DEF DropMapped
<1>9. CASE Receive(m)
  BY <1>9, <1>1, <1>2 DEF Receive
<1>. QED BY <1>3, <1>4, <1>5, <1>6, <1>7, <1>8, <1>9 DEF MapperStep

LEMMA ClientStepContract == ASSUME ClientInv, [ClientNext]_clientVars PROVE ContractStep
<1>1. CASE UNCHANGED <<ctx, mapper>>
  BY <1>1, NoCall DEF Calling
<1>2. ASSUME NEW c \in Client, FillClientContext(c) \/ z_shm_client_new(c) PROVE ContractStep
  <2>1. Running' = Running
    BY <1>2 DEF FillClientContext, z_shm_client_new, Running, Calling
  <2>2. c \in Ctx
    BY DEF Ctx
  <2>. QED BY <1>2, <2>1, <2>2, ContextStep DEF FillClientContext, z_shm_client_new
<1>3. ASSUME NEW c \in Ctx, DeleteClientContext(c) PROVE ContractStep
  <2>1. Running' = Running
    BY <1>3 DEF DeleteClientContext, Running, Calling
  <2>2. ASSUME NEW m \in Mapper, Calling(m, c) PROVE FALSE
    <3>1. CASE c \in Client
      <4>1. ~ClientHeld(c)
        BY <1>3, <3>1 DEF DeleteClientContext
      <4>2. mapper[m].client # c /\ mapper[m].phase = "map" /\ mapper[m].segment = c
        BY <2>2, <4>1 DEF ClientHeld, Calling
      <4>. QED BY <3>1, <4>2, ClientsAssumption DEF ClientInv, MapperPlace
    <3>2. CASE c \notin Client
      <4>1. ~SegmentHeld(c)
        BY <1>3, <3>2 DEF DeleteClientContext
      <4>2. mapper[m].segment # c /\ mapper[m].phase = "attach" /\ mapper[m].client = c
        BY <2>2, <4>1 DEF SegmentHeld, Calling
      <4>. QED BY <3>2, <4>2 DEF ClientInv, MapperPlace
    <3>. QED BY <3>1, <3>2
  <2>3. Running[c] = {}
    BY <2>2 DEF Running
  <2>. QED BY <1>3, <2>1, <2>3, ContextStep DEF DeleteClientContext
<1>4. ASSUME NEW c \in Ctx, DeleteClientReturn(c) PROVE ContractStep
  <2>1. Running' = Running
    BY <1>4 DEF DeleteClientReturn, Running, Calling
  <2>. QED BY <1>4, <2>1, ContextStep DEF DeleteClientReturn
<1>5. ASSUME NEW s \in Storage,
             \/ z_shm_client_storage_new(s) \/ z_shm_client_storage_new_default(s)
             \/ z_shm_client_storage_drop(s) \/ z_open_with_custom_shm_clients(s)
             \/ \E from \in Storage : z_shm_client_storage_clone(s, from)
      PROVE  UNCHANGED <<ctx, mapper>>
  BY <1>5 DEF z_shm_client_storage_new, z_shm_client_storage_new_default, Build,
              z_shm_client_storage_drop, z_open_with_custom_shm_clients, z_shm_client_storage_clone
<1>6. ASSUME NEW c \in Client, z_shm_client_drop(c) \/ zc_shm_client_list_add_client(c)
      PROVE  UNCHANGED <<ctx, mapper>>
  BY <1>6 DEF z_shm_client_drop, zc_shm_client_list_add_client
<1>7. zc_shm_client_list_new \/ zc_shm_client_list_drop \/ CloseSession \/ UNCHANGED clientVars
        => UNCHANGED <<ctx, mapper>>
  BY DEF zc_shm_client_list_new, zc_shm_client_list_drop, CloseSession, clientVars
<1>. QED BY <1>1, <1>2, <1>3, <1>4, <1>5, <1>6, <1>7, MapperContract DEF ClientNext

(* Refinement, for every instance: seen through the life of the contexts   *)
(* and the executing attach_fn and map_fn, the clients and segments of     *)
(* shared memory are a behaviour of ClosureContract.                       *)
THEOREM ClientsImplementContract == ClientSpec => ClientsObeyContract
<1>1. ClientInv /\ [ClientNext]_clientVars
        => [ClientContract!ContractNext]_(ClientContract!contractVars)
  BY ClientStepContract DEF ContractStep
<1>. QED BY InitClientContract, <1>1, ClientInvariant, PTL
         DEF ClientSpec, ClientsObeyContract, ClientContract!ContractSpec

-----------------------------------------------------------------------------
(* The provider.                                                           *)
LEMMA InitProviderInv == Init => ProviderInv
<1> SUFFICES ASSUME Init PROVE ProviderInv
  OBVIOUS
<1> USE ShmAssumption DEF Init
<1>1. TypeOK
  BY DEF TypeOK
<1>2. ChunksAreConserved
  BY FS_EmptySet DEF ChunksAreConserved
<1>3. RequestsHoldContexts
  BY DEF RequestsHoldContexts, Actor, Context, Active
<1>4. ProviderOutlivesUse
  BY DEF ProviderOutlivesUse, Actor, Context, Active
<1>5. OneUser
  BY DEF OneUser, Actor, Active
<1>. QED BY <1>1, <1>2, <1>3, <1>4, <1>5 DEF ProviderInv

(* The application's steps on the provider, its layout and its contexts.   *)
LEMMA ProviderStep ==
  ASSUME ProviderInv,
         \/ New \/ Drop \/ \E c \in Context : FillContext(c)
         \/ \E t \in Thread : NewLayout(t) \/ DropLayout(t)
  PROVE  ProviderInv'
<1> USE ShmAssumption DEF ProviderInv
<1>1. UNCHANGED <<kind, pc, policy, free, garbage, held>>
  BY DEF New, Drop, FillContext, NewLayout, DropLayout
<1>2. TypeOK'
  BY <1>1 DEF New, Drop, FillContext, NewLayout, DropLayout, MayUse, TypeOK, Live
<1>3. ChunksAreConserved'
  BY <1>1 DEF ChunksAreConserved
<1>4. RequestsHoldContexts'
  BY <1>1 DEF New, Drop, FillContext, NewLayout, DropLayout, RequestsHoldContexts, TypeOK, Live,
              Context, Actor, Active
<1>5. ProviderOutlivesUse'
  BY <1>1 DEF New, Drop, FillContext, NewLayout, DropLayout, ProviderOutlivesUse, TypeOK, Live,
              Context, HasCallbacks
<1>6. OneUser'
  BY <1>1 DEF OneUser
<1>. QED BY <1>2, <1>3, <1>4, <1>5, <1>6

LEMMA AllocStep ==
  ASSUME ProviderInv, NEW t \in Thread,
         (\E p \in Policies : Alloc(t, p)) \/ \E r \in Request : AllocAsync(t, r)
  PROVE  ProviderInv'
<1> USE ShmAssumption DEF ProviderInv, Actor, Context
<1>1. ASSUME NEW p \in Policies, Alloc(t, p) PROVE ProviderInv'
  <2> USE <1>1 DEF Alloc, MayUse, Goto
  <2>1. pc'[t] = "trying" /\ \A a \in Actor : a # t => pc'[a] = pc[a]
    BY DEF TypeOK
  <2>2. TypeOK'
    BY DEF TypeOK
  <2>3. ChunksAreConserved'
    BY <2>1 DEF ChunksAreConserved
  <2>4. RequestsHoldContexts'
    BY <2>1 DEF RequestsHoldContexts
  <2>5. ProviderOutlivesUse'
    BY <2>1 DEF ProviderOutlivesUse, HasCallbacks
  <2>6. OneUser'
    BY <2>1 DEF OneUser
  <2>. QED BY <2>2, <2>3, <2>4, <2>5, <2>6
<1>2. ASSUME NEW r \in Request, AllocAsync(t, r) PROVE ProviderInv'
  <2> USE <1>2 DEF AllocAsync, MayUse, Goto, Live
  <2>1. /\ pc'[r] \in {"trying", "rejected"} /\ (kind = "dynamic" => pc'[r] = "rejected")
        /\ \A a \in Actor : a # r => pc'[a] = pc[a]
        /\ life'[r] = "lent" /\ \A c \in Context : c # r => life'[c] = life[c]
    BY DEF TypeOK
  <2>2. TypeOK'
    BY DEF TypeOK
  <2>3. ChunksAreConserved'
    BY <2>1 DEF ChunksAreConserved
  <2>4. RequestsHoldContexts'
    BY <2>1 DEF RequestsHoldContexts, Active
  <2>5. ProviderOutlivesUse'
    BY <2>1 DEF ProviderOutlivesUse, HasCallbacks, Active
  <2>6. OneUser'
    BY <2>1 DEF OneUser, Active
  <2>. QED BY <2>2, <2>3, <2>4, <2>5, <2>6
<1>. QED BY <1>1, <1>2

(* An allocation moves on, and keeps its buffer if it has one.             *)
LEMMA AllocationMoves ==
  ASSUME ProviderInv, NEW a \in Actor, NEW l, Goto(a, l),
         UNCHANGED <<kind, provider, layout, life, policy, free, garbage, held>>,
         \/ pc[a] = "trying" /\ l = "backend"
         \/ pc[a] = "backend" /\ l \in {"trying", "writing"}
         \/ pc[a] = "writing" /\ a \in Thread /\ l = "idle"
         \/ pc[a] = "writing" /\ a \in Request /\ l = "callback"
         \/ pc[a] = "callback" /\ l = "returned"
  PROVE  ProviderInv'
<1> USE ShmAssumption DEF ProviderInv
<1>1. pc'[a] = l /\ \A b \in Actor : b # a => pc'[b] = pc[b]
  BY DEF TypeOK, Goto
<1>2. TypeOK'
  BY DEF TypeOK, Goto
<1>3. ChunksAreConserved'
  BY <1>1 DEF ChunksAreConserved, Actor
<1>4. RequestsHoldContexts'
  BY <1>1 DEF RequestsHoldContexts, Active, Actor
<1>5. ProviderOutlivesUse'
  BY <1>1 DEF ProviderOutlivesUse, HasCallbacks, Active
<1>6. OneUser'
  BY <1>1 DEF OneUser, Active, Actor
<1>. QED BY <1>2, <1>3, <1>4, <1>5, <1>6

(* The backend hands out a chunk, collects the garbage, or takes a buffer  *)
(* from its holder.                                                        *)
LEMMA ChunkArithmetic ==
  ASSUME ProviderInv
  PROVE  /\ free \in Nat /\ garbage \in Nat /\ Cardinality(held) \in Nat /\ Chunks \in Nat
         /\ free + garbage + Cardinality(held) = Chunks /\ IsFiniteSet(held) /\ held \subseteq Actor
         /\ \A a : a \notin held => /\ IsFiniteSet(held \cup {a})
                                    /\ Cardinality(held \cup {a}) = Cardinality(held) + 1
         /\ \A a \in held : /\ IsFiniteSet(held \ {a})
                            /\ Cardinality(held \ {a}) = Cardinality(held) - 1
<1>1. IsFiniteSet(held) /\ Cardinality(held) \in Nat
  BY FS_CardinalityType DEF ProviderInv, ChunksAreConserved
<1>2. \A a : IsFiniteSet(held \cup {a}) /\ IsFiniteSet(held \ {a})
  BY <1>1, FS_AddElement, FS_RemoveElement
<1>3. \A a : a \notin held => Cardinality(held \cup {a}) = Cardinality(held) + 1
  BY <1>1, FS_AddElement
<1>4. \A a \in held : Cardinality(held \ {a}) = Cardinality(held) - 1
  BY <1>1, FS_RemoveElement
<1>5. free \in Nat /\ garbage \in Nat /\ Chunks \in Nat /\ held \subseteq Actor
  BY ShmAssumption DEF ProviderInv, TypeOK
<1>6. free + garbage + Cardinality(held) = Chunks
  BY DEF ProviderInv, ChunksAreConserved
<1>. QED BY <1>1, <1>2, <1>3, <1>4, <1>5, <1>6

LEMMA BackendReturnInv == ASSUME ProviderInv, NEW a \in Actor, BackendReturn(a) PROVE ProviderInv'
<1> USE ShmAssumption DEF ProviderInv
<1>1. pc[a] = "backend" /\ UNCHANGED <<kind, provider, layout, life, policy>>
  BY DEF BackendReturn
<1>2. ASSUME NEW l \in {"trying", "writing"}, Goto(a, l),
             held' \subseteq Actor, IsFiniteSet(held'), Cardinality(held') \in Nat,
             free' \in Nat, garbage' \in Nat,
             free' + garbage' + Cardinality(held') = Chunks,
             \A b \in held' : b \in held \/ (b = a /\ l = "writing")
      PROVE  ProviderInv'
  <2>1. pc'[a] = l /\ \A b \in Actor : b # a => pc'[b] = pc[b]
    BY <1>2 DEF TypeOK, Goto
  <2>2. free' \in 0..Chunks /\ garbage' \in 0..Chunks
    BY <1>2, ChunkArithmetic
  <2>3. TypeOK'
    BY <1>1, <1>2, <2>2 DEF TypeOK, Goto
  <2>4. ChunksAreConserved'
    BY <1>1, <1>2, <2>1 DEF ChunksAreConserved, Actor
  <2>5. RequestsHoldContexts'
    BY <1>1, <1>2, <2>1 DEF RequestsHoldContexts, Active, Actor
  <2>6. ProviderOutlivesUse'
    BY <1>1, <1>2, <2>1 DEF ProviderOutlivesUse, HasCallbacks, Active
  <2>7. OneUser'
    BY <1>1, <1>2, <2>1 DEF OneUser, Active, Actor
  <2>. QED BY <2>3, <2>4, <2>5, <2>6, <2>7
<1>3. a \notin held
  BY <1>1 DEF ChunksAreConserved
<1> HIDE DEF ProviderInv
<1>4. CASE free > 0 /\ free' = free - 1 /\ held' = held \cup {a} /\ Goto(a, "writing") /\ UNCHANGED garbage
  <2>1. Cardinality(held') = Cardinality(held) + 1 /\ IsFiniteSet(held') /\ held' \subseteq Actor
    BY <1>3, <1>4, ChunkArithmetic
  <2>2. /\ free' \in Nat /\ garbage' \in Nat /\ Cardinality(held') \in Nat
        /\ free' + garbage' + Cardinality(held') = Chunks
    BY <1>4, <2>1, ChunkArithmetic
  <2>. QED BY <1>2, <1>4, <2>1, <2>2
<1>5. CASE free = 0 /\ free' = garbage /\ garbage' = 0 /\ Goto(a, "trying") /\ UNCHANGED held
  BY <1>2, <1>5, ChunkArithmetic
<1>6. ASSUME NEW b \in held, held' = held \ {b}, free = 0, free' = 1, Goto(a, "trying"),
             UNCHANGED garbage
      PROVE  ProviderInv'
  <2>1. Cardinality(held') = Cardinality(held) - 1 /\ IsFiniteSet(held') /\ held' \subseteq Actor
    BY <1>6, ChunkArithmetic
  <2>2. Cardinality(held') \in Nat
    BY <2>1, FS_CardinalityType
  <2>3. /\ free' \in Nat /\ garbage' \in Nat
        /\ free' + garbage' + Cardinality(held') = Chunks
    BY <1>6, <2>1, ChunkArithmetic
  <2>. QED BY <1>2, <1>6, <2>1, <2>2, <2>3
<1>7. CASE UNCHANGED <<free, garbage, held>> /\ (Goto(a, "trying") \/ Goto(a, "writing"))
  BY <1>2, <1>7, ChunkArithmetic
<1>. QED BY <1>4, <1>5, <1>6, <1>7 DEF BackendReturn

LEMMA CollectStep ==
  ASSUME ProviderInv,
         (\E a \in Actor : DropBuffer(a)) \/ \E t \in Thread : GarbageCollect(t)
  PROVE  ProviderInv'
<1> USE ShmAssumption
<1>1. UNCHANGED <<kind, provider, layout, life, pc, policy>>
  BY DEF DropBuffer, GarbageCollect
<1>2. /\ held' \subseteq held /\ IsFiniteSet(held') /\ Cardinality(held') \in Nat
      /\ free' \in Nat /\ garbage' \in Nat
      /\ free' + garbage' + Cardinality(held') = Chunks
  <2>1. ASSUME NEW a \in Actor, DropBuffer(a)
        PROVE  /\ held' \subseteq held /\ IsFiniteSet(held')
               /\ Cardinality(held') = Cardinality(held) - 1
               /\ free' = free /\ garbage' = garbage + 1
    BY <2>1, ChunkArithmetic DEF DropBuffer
  <2>2. ASSUME NEW t \in Thread, GarbageCollect(t)
        PROVE  held' = held /\ free' = free + garbage /\ garbage' = 0
    BY <2>2 DEF GarbageCollect
  <2>3. CASE \E a \in Actor : DropBuffer(a)
    <3>1. IsFiniteSet(held') /\ Cardinality(held') = Cardinality(held) - 1
      BY <2>1, <2>3
    <3>2. Cardinality(held') \in Nat
      BY <3>1, FS_CardinalityType
    <3>. QED BY <2>1, <2>3, <3>1, <3>2, ChunkArithmetic
  <2>4. CASE \E t \in Thread : GarbageCollect(t)
    BY <2>2, <2>4, ChunkArithmetic
  <2>. QED BY <2>3, <2>4
<1>3. free' \in 0..Chunks /\ garbage' \in 0..Chunks
  BY <1>2, ChunkArithmetic
<1>4. TypeOK'
  BY <1>1, <1>2, <1>3 DEF TypeOK, ProviderInv
<1>5. ChunksAreConserved'
  BY <1>1, <1>2 DEF ChunksAreConserved, ProviderInv
<1>6. RequestsHoldContexts' /\ ProviderOutlivesUse' /\ OneUser'
  BY <1>1 DEF ProviderInv, RequestsHoldContexts, ProviderOutlivesUse, OneUser, HasCallbacks
<1>. QED BY <1>4, <1>5, <1>6 DEF ProviderInv

(* A context is deleted when its provider or its task is gone.             *)
LEMMA DeleteInv == ASSUME ProviderInv, NEW c \in Context, Delete(c) \/ DeleteReturn(c) PROVE ProviderInv'
<1> USE ShmAssumption DEF ProviderInv, Actor, Context
<1>1. /\ UNCHANGED <<kind, provider, layout, policy, free, garbage, held>>
      /\ \A d \in Context : d # c => life'[d] = life[d]
      /\ \/ life[c] = "lent" /\ life'[c] = "dropping"
         \/ life[c] = "dropping" /\ life'[c] = "dropped"
  BY DEF Delete, DeleteReturn, Live, TypeOK
<1>2. \A a \in Actor : \/ pc'[a] = pc[a]
                       \/ a = c /\ pc'[a] = "done" /\ life'[c] = "dropped"
  BY DEF Delete, DeleteReturn, Goto, Live, TypeOK
<1>3. c \in Request => /\ life[c] = "lent" => pc'[c] = pc[c] /\ pc[c] \in {"returned", "rejected"}
                       /\ life[c] = "dropping" => pc'[c] = "done"
  BY <1>1 DEF Delete, DeleteReturn, Goto, TypeOK
<1>4. TypeOK'
  BY <1>1 DEF Delete, DeleteReturn, Live, Goto, TypeOK
<1>5. ChunksAreConserved'
  BY <1>1, <1>2 DEF ChunksAreConserved
<1>6. RequestsHoldContexts'
  BY <1>1, <1>2, <1>3 DEF RequestsHoldContexts, Active
<1>7. ProviderOutlivesUse'
  <2>1. c = Backend => provider = "null"
    BY <1>1 DEF Delete, DeleteReturn, ProviderOutlivesUse, TypeOK
  <2>2. c # Backend => life'[Backend] = life[Backend]
    BY <1>1
  <2>3. \A a \in Actor : pc'[a] \in Active => pc[a] \in Active
    BY <1>2 DEF Active
  <2>4. ~HasCallbacks => c # Backend
    BY <1>1 DEF ProviderOutlivesUse
  <2>. QED BY <1>1, <2>1, <2>2, <2>3, <2>4 DEF ProviderOutlivesUse, HasCallbacks
<1>8. OneUser'
  BY <1>1, <1>2 DEF OneUser, Active
<1>. QED BY <1>4, <1>5, <1>6, <1>7, <1>8

LEMMA NextProviderInv == ProviderInv /\ [Next]_vars => ProviderInv'
<1> SUFFICES ASSUME ProviderInv, [Next]_vars PROVE ProviderInv'
  OBVIOUS
<1>1. CASE UNCHANGED vars
  BY <1>1 DEF vars, ProviderInv, TypeOK, ChunksAreConserved, RequestsHoldContexts,
              ProviderOutlivesUse, OneUser, HasCallbacks
<1>2. ASSUME NEW a \in Actor, Step(a) PROVE ProviderInv'
  <2>1. CASE BackendReturn(a)
    BY <2>1, BackendReturnInv
  <2>2. CASE BackendStart(a)
    BY <2>2, AllocationMoves DEF BackendStart
  <2>3. CASE AllocReturn(a)
    BY <2>3, AllocationMoves DEF AllocReturn
  <2>4. CASE ResultCall(a) \/ ResultReturn(a)
    BY <2>4, AllocationMoves DEF ResultCall, ResultReturn
  <2>. QED BY <1>2, <2>1, <2>2, <2>3, <2>4 DEF Step
<1>. QED BY <1>1, <1>2, ProviderStep, AllocStep, CollectStep, DeleteInv DEF Next

-----------------------------------------------------------------------------
(* The actors that execute a callback with context c, as the contract sees *)
(* them.                                                                   *)
Uses(a, c) == IF c = Backend THEN HasCallbacks /\ pc[a] = "backend"
              ELSE a = c /\ pc[a] = "callback"
InUse == [c \in Context |-> IF c = Backend THEN {a \in Actor : HasCallbacks /\ pc[a] = "backend"}
                            ELSE {a \in {c} : pc[a] = "callback"}]

ProviderContractStep == [Contract!ContractNext]_(Contract!contractVars)

LEMMA InUseIsUses ==
  /\ \A c \in Context : \A a : a \in InUse[c] <=> a \in Actor /\ Uses(a, c)
  /\ \A c \in Context : \A a : a \in InUse'[c] <=> a \in Actor /\ Uses(a, c)'
BY ShmAssumption DEF InUse, Uses, Context, Actor

LEMMA InUseIsFunction ==
  /\ InUse = [d \in Context |-> InUse[d]]
  /\ InUse' = [d \in Context |-> InUse'[d]]
BY DEF InUse

LEMMA FunctionsAgree ==
  ASSUME NEW S, NEW f, NEW g, NEW c \in S, NEW e, f = [d \in S |-> f[d]], g = [d \in S |-> g[d]],
         \A d \in S : g[d] = IF d = c THEN e ELSE f[d]
  PROVE  g = [f EXCEPT ![c] = e]
OBVIOUS

LEMMA SameUses ==
  ASSUME \A a \in Actor, c \in Context : Uses(a, c)' <=> Uses(a, c)
  PROVE  InUse' = InUse
<1>1. \A c \in Context : InUse'[c] = InUse[c]
  BY InUseIsUses
<1>. QED BY <1>1 DEF InUse

LEMMA InitProviderContract == Init => Contract!ContractInit
<1> SUFFICES ASSUME Init PROVE Contract!ContractInit
  OBVIOUS
<1>1. InUse = [c \in Context |-> {}]
  BY ShmAssumption DEF Init, InUse, Context, Actor
<1>. QED BY <1>1 DEF Init, Contract!ContractInit, InUse

LEMMA UseStarts ==
  ASSUME NEW u \in Actor, NEW c \in Context, life' = life, life[c] = "lent", ~Uses(u, c),
         \A a \in Actor, d \in Context : Uses(a, d)' <=> Uses(a, d) \/ (a = u /\ d = c)
  PROVE  ProviderContractStep
<1>1. ASSUME NEW d \in Context PROVE InUse'[d] = IF d = c THEN InUse[d] \cup {u} ELSE InUse[d]
  <2>1. \A a : a \in InUse'[d] <=> a \in InUse[d] \/ (a = u /\ d = c)
    BY InUseIsUses
  <2>2. CASE d = c
    BY <2>1, <2>2
  <2>3. CASE d # c
    BY <2>1, <2>3
  <2>. QED BY <2>2, <2>3
<1>2. u \notin InUse[c] /\ InUse' = [InUse EXCEPT ![c] = @ \cup {u}]
  <2>1. u \notin InUse[c]
    BY InUseIsUses
  <2>2. InUse' = [InUse EXCEPT ![c] = @ \cup {u}]
    BY <1>1, InUseIsFunction, FunctionsAgree
  <2>. QED BY <2>1, <2>2
<1>3. Contract!StartCall(c, u)
  BY <1>2 DEF Contract!StartCall, InUse
<1>. QED BY <1>3 DEF ProviderContractStep, Contract!ContractNext

LEMMA UseEnds ==
  ASSUME NEW u \in Actor, NEW c \in Context, life' = life, Uses(u, c),
         \A a \in Actor, d \in Context : Uses(a, d)' <=> Uses(a, d) /\ ~(a = u /\ d = c)
  PROVE  ProviderContractStep
<1>1. ASSUME NEW d \in Context PROVE InUse'[d] = IF d = c THEN InUse[d] \ {u} ELSE InUse[d]
  <2>1. \A a : a \in InUse'[d] <=> a \in InUse[d] /\ ~(a = u /\ d = c)
    BY InUseIsUses
  <2>2. CASE d = c
    BY <2>1, <2>2
  <2>3. CASE d # c
    BY <2>1, <2>3
  <2>. QED BY <2>2, <2>3
<1>2. u \in InUse[c] /\ InUse' = [InUse EXCEPT ![c] = @ \ {u}]
  <2>1. u \in InUse[c]
    BY InUseIsUses
  <2>2. InUse' = [InUse EXCEPT ![c] = @ \ {u}]
    BY <1>1, InUseIsFunction, FunctionsAgree
  <2>. QED BY <2>1, <2>2
<1>3. Contract!EndCall(c, u)
  BY <1>2 DEF Contract!EndCall, InUse
<1>. QED BY <1>3 DEF ProviderContractStep, Contract!ContractNext

LEMMA LifeStep ==
  ASSUME NEW c \in Context, InUse' = InUse, NEW l, Live(c, l),
         \/ life[c] = "fresh" /\ l = "owned"
         \/ life[c] = "owned" /\ l = "lent"
         \/ life[c] = "lent" /\ l = "dropping" /\ InUse[c] = {}
         \/ life[c] = "dropping" /\ l = "dropped"
  PROVE  ProviderContractStep
<1> USE DEF ProviderContractStep, Contract!ContractNext, InUse, Live
<1>1. CASE life[c] = "fresh" /\ l = "owned"
  BY <1>1 DEF Contract!Construct
<1>2. CASE life[c] = "owned" /\ l = "lent"
  BY <1>2 DEF Contract!Lend
<1>3. CASE life[c] = "lent" /\ l = "dropping" /\ InUse[c] = {}
  BY <1>3 DEF Contract!StartDrop
<1>4. CASE life[c] = "dropping" /\ l = "dropped"
  BY <1>4 DEF Contract!EndDrop
<1>. QED BY <1>1, <1>2, <1>3, <1>4

LEMMA NothingStep ==
  ASSUME life' = life, InUse' = InUse
  PROVE  ProviderContractStep
BY DEF ProviderContractStep, Contract!contractVars, InUse

(* The steps of an allocation.                                             *)
LEMMA AllocationContract == ASSUME ProviderInv, NEW a \in Actor, Step(a) PROVE ProviderContractStep
<1> USE ShmAssumption
<1>1. /\ life' = life /\ kind' = kind /\ pc \in [Actor -> {"idle", "trying", "backend", "writing",
                                                "callback", "returned", "rejected", "done"}]
      /\ Backend \in Context /\ Request \subseteq Context /\ Context = Request \cup {Backend}
      /\ Actor = Thread \cup Request
  BY DEF Step, BackendStart, BackendReturn, AllocReturn, ResultCall, ResultReturn, ProviderInv, TypeOK,
         Context, Actor
<1>2. ASSUME NEW l, Goto(a, l) PROVE pc'[a] = l /\ \A b \in Actor : b # a => pc'[b] = pc[b]
  BY <1>1, <1>2 DEF Goto
<1>3. CASE AllocReturn(a) \/ (~HasCallbacks /\ (BackendStart(a) \/ BackendReturn(a)))
  <2>1. /\ pc'[a] \in {"idle", "backend", "trying", "writing"} /\ pc[a] # "callback"
        /\ \A b \in Actor : b # a => pc'[b] = pc[b]
        /\ HasCallbacks => pc[a] = "writing" /\ pc'[a] = "idle"
    BY <1>2, <1>3 DEF AllocReturn, BackendStart, BackendReturn
  <2>2. \A b \in Actor, c \in Context : Uses(b, c)' <=> Uses(b, c)
    BY <1>1, <2>1 DEF Uses, HasCallbacks
  <2>. QED BY <1>1, <2>2, SameUses, NothingStep
<1>4. CASE HasCallbacks /\ BackendStart(a)
  <2>1. /\ pc[a] = "trying" /\ pc'[a] = "backend" /\ \A b \in Actor : b # a => pc'[b] = pc[b]
    BY <1>2, <1>4 DEF BackendStart
  <2>2. life[Backend] = "lent"
    BY <1>4, <2>1 DEF ProviderInv, ProviderOutlivesUse, Active
  <2>3. \A b \in Actor, c \in Context : Uses(b, c)' <=> Uses(b, c) \/ (b = a /\ c = Backend)
    BY <1>1, <1>4, <2>1 DEF Uses, HasCallbacks
  <2>4. ~Uses(a, Backend)
    BY <2>1 DEF Uses
  <2>. QED BY <1>1, <2>2, <2>3, <2>4, UseStarts
<1>5. CASE HasCallbacks /\ BackendReturn(a)
  <2>1. /\ pc[a] = "backend" /\ pc'[a] \in {"trying", "writing"}
        /\ \A b \in Actor : b # a => pc'[b] = pc[b]
    BY <1>2, <1>5 DEF BackendReturn
  <2>2. \A b \in Actor, c \in Context : Uses(b, c)' <=> Uses(b, c) /\ ~(b = a /\ c = Backend)
    BY <1>1, <1>5, <2>1 DEF Uses, HasCallbacks
  <2>3. Uses(a, Backend)
    BY <1>5, <2>1 DEF Uses
  <2>. QED BY <1>1, <2>2, <2>3, UseEnds
<1>6. CASE ResultCall(a)
  <2>1. /\ a \in Request /\ pc[a] = "writing" /\ pc'[a] = "callback"
        /\ \A b \in Actor : b # a => pc'[b] = pc[b]
    BY <1>2, <1>6 DEF ResultCall
  <2>2. life[a] = "lent" /\ a # Backend
    BY <1>1, <2>1 DEF ProviderInv, RequestsHoldContexts, Active
  <2>3. \A b \in Actor, c \in Context : Uses(b, c)' <=> Uses(b, c) \/ (b = a /\ c = a)
    BY <1>1, <2>1, <2>2 DEF Uses, HasCallbacks
  <2>4. ~Uses(a, a)
    BY <2>1, <2>2 DEF Uses
  <2>. QED BY <1>1, <2>1, <2>2, <2>3, <2>4, UseStarts
<1>7. CASE ResultReturn(a)
  <2>1. /\ a \in Request /\ a # Backend /\ pc[a] = "callback" /\ pc'[a] = "returned"
        /\ \A b \in Actor : b # a => pc'[b] = pc[b]
    BY <1>1, <1>2, <1>7 DEF ResultReturn, ProviderInv, RequestsHoldContexts
  <2>2. \A b \in Actor, c \in Context : Uses(b, c)' <=> Uses(b, c) /\ ~(b = a /\ c = a)
    BY <1>1, <2>1 DEF Uses, HasCallbacks
  <2>3. Uses(a, a)
    BY <2>1 DEF Uses
  <2>. QED BY <1>1, <2>1, <2>2, <2>3, UseEnds
<1>. QED BY <1>3, <1>4, <1>5, <1>6, <1>7 DEF Step

LEMMA DeleteContract ==
  ASSUME ProviderInv, NEW c \in Context, Delete(c) \/ DeleteReturn(c)
  PROVE  ProviderContractStep
<1> USE ShmAssumption DEF Context, Actor
<1>1. CASE Delete(c)
  <2>1. InUse' = InUse
    BY <1>1 DEF Delete, InUse, HasCallbacks
  <2>2. \A a \in Actor : ~Uses(a, c)
    BY <1>1 DEF Delete, Uses, ProviderInv, ProviderOutlivesUse, Active
  <2>3. InUse[c] = {}
    BY <2>2, InUseIsUses
  <2>. QED BY <1>1, <2>1, <2>3, LifeStep DEF Delete
<1>2. CASE DeleteReturn(c)
  <2>1. /\ kind' = kind /\ \A a \in Actor : a # c => pc'[a] = pc[a]
        /\ c \in Request => pc'[c] = "done" /\ pc[c] \in {"returned", "rejected"}
    BY <1>2 DEF DeleteReturn, Goto, ProviderInv, TypeOK, RequestsHoldContexts, Active
  <2>2. \A a \in Actor, d \in Context : Uses(a, d)' <=> Uses(a, d)
    BY <2>1 DEF Uses, HasCallbacks
  <2>. QED BY <1>2, <2>2, SameUses, LifeStep DEF DeleteReturn
<1>. QED BY <1>1, <1>2

LEMMA ApplicationContract ==
  ASSUME ProviderInv,
         \/ New \/ Drop \/ \E c \in Context : FillContext(c)
         \/ \E t \in Thread :
              \/ NewLayout(t) \/ DropLayout(t) \/ GarbageCollect(t)
              \/ \E p \in Policies : Alloc(t, p)
              \/ \E r \in Request : AllocAsync(t, r)
         \/ \E a \in Actor : DropBuffer(a)
  PROVE  ProviderContractStep
<1> USE ShmAssumption DEF Context, Actor
<1>1. CASE UNCHANGED <<kind, life, pc>>
  BY <1>1, NothingStep DEF InUse, HasCallbacks
<1>2. CASE New
  <2>1. InUse' = InUse
    BY <1>2 DEF New, InUse, HasCallbacks
  <2>. QED BY <1>1, <1>2, <2>1, LifeStep DEF New
<1>3. ASSUME NEW c \in Context, FillContext(c) PROVE ProviderContractStep
  <2>1. InUse' = InUse
    BY <1>3 DEF FillContext, InUse, HasCallbacks
  <2>. QED BY <1>3, <2>1, LifeStep DEF FillContext
<1>4. ASSUME NEW t \in Thread, NEW p \in Policies, Alloc(t, p) PROVE ProviderContractStep
  <2>1. /\ kind' = kind /\ life' = life /\ pc[t] = "idle" /\ pc'[t] = "trying"
        /\ \A a \in Actor : a # t => pc'[a] = pc[a]
    BY <1>4 DEF Alloc, MayUse, Goto, ProviderInv, TypeOK
  <2>2. \A a \in Actor, d \in Context : Uses(a, d)' <=> Uses(a, d)
    BY <2>1 DEF Uses, HasCallbacks
  <2>. QED BY <2>1, <2>2, SameUses, NothingStep
<1>5. ASSUME NEW t \in Thread, NEW r \in Request, AllocAsync(t, r) PROVE ProviderContractStep
  <2>1. /\ kind' = kind /\ Live(r, "lent") /\ life[r] = "owned"
        /\ pc[r] = "idle" /\ pc'[r] \in {"trying", "rejected"}
        /\ \A a \in Actor : a # r => pc'[a] = pc[a]
    BY <1>5 DEF AllocAsync, Goto, ProviderInv, TypeOK
  <2>2. \A a \in Actor, d \in Context : Uses(a, d)' <=> Uses(a, d)
    BY <2>1 DEF Uses, HasCallbacks
  <2>. QED BY <2>1, <2>2, SameUses, LifeStep
<1>6. Drop \/ (\E t \in Thread : NewLayout(t) \/ DropLayout(t) \/ GarbageCollect(t))
           \/ (\E a \in Actor : DropBuffer(a))
        => UNCHANGED <<kind, life, pc>>
  BY DEF Drop, NewLayout, DropLayout, GarbageCollect, DropBuffer
<1>. QED BY <1>1, <1>2, <1>3, <1>4, <1>5, <1>6

LEMMA StepProviderContract == ASSUME ProviderInv, [Next]_vars PROVE ProviderContractStep
<1>1. CASE UNCHANGED vars
  BY <1>1, NothingStep DEF vars, InUse, HasCallbacks
<1>. QED BY <1>1, AllocationContract, DeleteContract, ApplicationContract DEF Next

-----------------------------------------------------------------------------
(* Both sides in one process: a step of the process is a step or a stutter *)
(* of each side.                                                           *)
LEMMA ShmSteps == [ShmNext]_shmVars => [Next]_vars /\ [ClientNext]_clientVars
BY DEF ShmNext, shmVars

LEMMA ShmInvariant == ShmSpec => [](ProviderInv /\ ClientInv)
<1>1. ShmInit => ProviderInv /\ ClientInv
  BY InitProviderInv, InitClientInv DEF ShmInit
<1>2. (ProviderInv /\ ClientInv) /\ [ShmNext]_shmVars => (ProviderInv /\ ClientInv)'
  BY ShmSteps, NextProviderInv, NextClientInv
<1>. QED BY <1>1, <1>2, PTL DEF ShmSpec

(* For every instance: alloc_fn, free_fn and defragment_fn of a provider   *)
(* that is not thread-safe are never executed concurrently.                *)
THEOREM DynamicCallbacksAreSerial == ShmSpec => []CallbacksAreSerial
<1>1. ProviderInv => CallbacksAreSerial
  BY DEF ProviderInv, CallbacksAreSerial, OneUser, RequestsHoldContexts, Active, Actor
<1>. QED BY <1>1, ShmInvariant, PTL

(* For every instance: every chunk is free, waiting to be collected or     *)
(* behind exactly one buffer, whatever the policies do about a lack of     *)
(* memory and whoever drops or deallocates a buffer.                       *)
THEOREM NoChunkIsLost == ShmSpec => []ChunksAreConserved
<1>1. ProviderInv => ChunksAreConserved
  BY DEF ProviderInv
<1>. QED BY <1>1, ShmInvariant, PTL

(* Refinement, for every instance: the contexts of providers and of        *)
(* asynchronous allocations are deleted once, after the last callback that *)
(* uses them.                                                              *)
THEOREM ProviderImplementsContract == ShmSpec => ContextsObeyContract
<1>1. ShmInit => Contract!ContractInit
  BY InitProviderContract DEF ShmInit
<1>2. ProviderInv /\ [ShmNext]_shmVars => [Contract!ContractNext]_(Contract!contractVars)
  BY ShmSteps, StepProviderContract DEF ProviderContractStep
<1>. QED BY <1>1, <1>2, ShmInvariant, PTL DEF ShmSpec, ContextsObeyContract, Contract!ContractSpec

(* Refinement, for every instance: the same for clients and segments, in a *)
(* process that has both sides.                                            *)
THEOREM ShmClientsImplementContract == ShmSpec => ClientsObeyContract
<1>1. ShmInit => ClientContract!ContractInit
  BY InitClientContract DEF ShmInit
<1>2. ClientInv /\ [ShmNext]_shmVars => [ClientContract!ContractNext]_(ClientContract!contractVars)
  BY ShmSteps, ClientStepContract DEF ContractStep
<1>. QED BY <1>1, <1>2, ShmInvariant, PTL DEF ShmSpec, ClientsObeyContract, ClientContract!ContractSpec

=============================================================================
