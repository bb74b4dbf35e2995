----------------------------- MODULE ShmClients -----------------------------
(***************************************************************************)
(* Shared-memory clients, the receiving side of shared memory.  A client   *)
(* is a set of callbacks of the application with a context; it is moved    *)
(* into a list, storages are built from the list, sessions are opened with *)
(* a storage, and runtime threads that receive a buffer attach a segment   *)
(* through a client and map the buffer through the segment, which has a    *)
(* context of its own.  A context is deleted when the last reference to    *)
(* its client or segment goes, wherever that is.                           *)
(***************************************************************************)
EXTENDS Naturals, Sequences, FiniteSets

CONSTANTS
  Client,     \* the clients, each with its context
  Segment,    \* the segments that attach_fn may fill in
  Storage,    \* variables of type z_owned_shm_client_storage_t
  Mapper,     \* runtime threads and the buffer each of them delivers
  MaxObjects, \* how many storages are built
  NoClient, NoSegment

ASSUME ClientsAssumption ==
  /\ Client \cap Segment = {} /\ MaxObjects \in Nat
  /\ NoClient \notin Client /\ NoSegment \notin Segment

VARIABLES
  ctx,      \* ctx[c]: the context of a client or segment, as in ClosureContract
  client,   \* client[c]: the application's z_owned_shm_client_t of c
  list,     \* the zc_owned_shm_client_list_t: whether it holds Some, and its clients
  object,   \* the storages built so far: their clients and the segments they keep
  storage,  \* storage[s]: the object variable s refers to, 0 for none
  session,  \* the object of the session that is open, 0 for none
  mapper    \* mapper[m]: what runtime thread m does with a received buffer

clientVars == <<ctx, client, list, object, storage, session, mapper>>

Ctx == Client \cup Segment
MapperState(n) ==
  [phase : {"idle", "attach", "attached", "ready", "map", "held"},
   client : Client \cup {NoClient}, segment : Segment \cup {NoSegment}, object : 0..n]
IdleMapper == [phase |-> "idle", client |-> NoClient, segment |-> NoSegment, object |-> 0]

ClientTypeOK ==
  /\ ctx \in [Ctx -> {"fresh", "owned", "lent", "dropping", "dropped"}]
  /\ client \in [Client -> {"uninit", "some", "null"}]
  /\ list \in [some : BOOLEAN, clients : SUBSET Client]
  /\ object \in Seq([clients : SUBSET Client, segments : SUBSET Segment])
  /\ storage \in [Storage -> 0..Len(object)] /\ session \in 0..Len(object)
  /\ mapper \in [Mapper -> MapperState(Len(object))]

ClientInit ==
  /\ ctx = [c \in Ctx |-> "fresh"]
  /\ client = [c \in Client |-> "uninit"]
  /\ list = [some |-> FALSE, clients |-> {}]
  /\ object = <<>>
  /\ storage = [s \in Storage |-> 0] /\ session = 0
  /\ mapper = [m \in Mapper |-> IdleMapper]

-----------------------------------------------------------------------------
(* References.  A storage lives as long as a variable, the session or a    *)
(* thread that is using it refers to it.                                   *)
LiveObject(o) ==
  \/ session = o \/ \E s \in Storage : storage[s] = o
  \/ \E m \in Mapper : mapper[m].object = o

(* Slip: a storage refers to the clients of the list and does not share    *)
(* them.                                                                   *)
ClientHeldByList(c) ==
  client[c] = "some" \/ c \in list.clients \/ \E m \in Mapper : mapper[m].client = c

ClientHeld(c) ==
  \/ client[c] = "some" \/ c \in list.clients
  \/ \E o \in DOMAIN object : LiveObject(o) /\ c \in object[o].clients
  \/ \E m \in Mapper : mapper[m].client = c

SegmentHeld(g) ==
  \/ \E o \in DOMAIN object : LiveObject(o) /\ g \in object[o].segments
  \/ \E m \in Mapper : mapper[m].segment = g

-----------------------------------------------------------------------------
(* Clients and lists.                                                      *)
FillClientContext(c) ==
  /\ c \in Client /\ ctx[c] = "fresh"
  /\ ctx' = [ctx EXCEPT ![c] = "owned"]
  /\ UNCHANGED <<client, list, object, storage, session, mapper>>

z_shm_client_new(c) ==
  /\ client[c] = "uninit" /\ ctx[c] = "owned"
  /\ ctx' = [ctx EXCEPT ![c] = "lent"]
  /\ client' = [client EXCEPT ![c] = "some"]
  /\ UNCHANGED <<list, object, storage, session, mapper>>

z_shm_client_drop(c) ==
  /\ client[c] = "some"
  /\ client' = [client EXCEPT ![c] = "null"]
  /\ UNCHANGED <<ctx, list, object, storage, session, mapper>>

zc_shm_client_list_new ==
  /\ ~list.some
  /\ list' = [some |-> TRUE, clients |-> {}]
  /\ UNCHANGED <<ctx, client, object, storage, session, mapper>>

(* A client in its gravestone state is Z_EINVAL and adds nothing.          *)
zc_shm_client_list_add_client(c) ==
  /\ list.some /\ client[c] # "uninit"
  /\ list' = IF client[c] = "some" THEN [list EXCEPT !.clients = @ \cup {c}] ELSE list
  /\ client' = [client EXCEPT ![c] = "null"]
  /\ UNCHANGED <<ctx, object, storage, session, mapper>>

(* Slip: the variable becomes the gravestone and its clients stay.         *)
ListDropForgets ==
  /\ list.some
  /\ list' = [list EXCEPT !.some = FALSE]
  /\ UNCHANGED <<ctx, client, object, storage, session, mapper>>

zc_shm_client_list_drop ==
  /\ list.some
  /\ list' = [some |-> FALSE, clients |-> {}]
  /\ UNCHANGED <<ctx, client, object, storage, session, mapper>>

-----------------------------------------------------------------------------
(* Storages.                                                               *)
Build(s, cs) ==
  /\ storage[s] = 0 /\ Len(object) < MaxObjects
  /\ object' = Append(object, [clients |-> cs, segments |-> {}])
  /\ storage' = [storage EXCEPT ![s] = Len(object')]
  /\ UNCHANGED <<ctx, client, list, session, mapper>>

(* z_shm_client_storage_new: each client is shared with the list; for an   *)
(* empty list the variable is not written.                                 *)
z_shm_client_storage_new(s) ==
  list.some /\ list.clients # {} /\ Build(s, list.clients)

(* Also z_ref_shm_client_storage_global: the default and global clients    *)
(* have no context of the application.                                     *)
z_shm_client_storage_new_default(s) == Build(s, {})

z_shm_client_storage_clone(s, from) ==
  /\ storage[s] = 0 /\ storage[from] # 0
  /\ storage' = [storage EXCEPT ![s] = storage[from]]
  /\ UNCHANGED <<ctx, client, list, object, session, mapper>>

z_shm_client_storage_drop(s) ==
  /\ storage[s] # 0
  /\ storage' = [storage EXCEPT ![s] = 0]
  /\ UNCHANGED <<ctx, client, list, object, session, mapper>>

(* The storage is shared with the session, if that opens.                  *)
z_open_with_custom_shm_clients(s) ==
  /\ session = 0 /\ storage[s] # 0
  /\ session' \in {storage[s], 0}
  /\ UNCHANGED <<ctx, client, list, object, storage, mapper>>

(* Session.tla has what else the end of a session does.                    *)
CloseSession ==
  /\ session # 0
  /\ session' = 0
  /\ UNCHANGED <<ctx, client, list, object, storage, mapper>>

-----------------------------------------------------------------------------
(* The runtime: a buffer arrives for one of the session's clients.  Its    *)
(* segment has been attached before, or attach_fn is called.               *)
At(m, phase, c, g, o) ==
  mapper' = [mapper EXCEPT ![m] = [phase |-> phase, client |-> c, segment |-> g, object |-> o]]

Receive(m) ==
  /\ mapper[m].phase = "idle" /\ session # 0
  /\ \/ \E c \in object[session].clients : At(m, "attach", c, NoSegment, session)
     \/ \E g \in object[session].segments : At(m, "ready", NoClient, g, 0)
  /\ UNCHANGED <<ctx, client, list, object, storage, session>>

(* attach_fn fills in a z_shm_segment_t with a context.                    *)
FillSegmentContext(m, g) ==
  /\ mapper[m].phase = "attach" /\ mapper[m].segment = NoSegment /\ ctx[g] = "fresh"
  /\ ctx' = [ctx EXCEPT ![g] = "owned"]
  /\ mapper' = [mapper EXCEPT ![m].segment = g]
  /\ UNCHANGED <<client, list, object, storage, session>>

(* attach_fn returns TRUE only if it filled the segment in.  It returns    *)
(* FALSE: what it filled in remains the application's.                     *)
AttachReturn(m) ==
  /\ mapper[m].phase = "attach"
  /\ \/ mapper[m].segment # NoSegment /\ mapper' = [mapper EXCEPT ![m].phase = "attached"]
     \/ mapper' = [mapper EXCEPT ![m] = IdleMapper]
  /\ UNCHANGED <<ctx, client, list, object, storage, session>>

(* DynamicShmSegment::new takes the context; the storage keeps the segment *)
(* for later buffers.                                                      *)
TakeSegment(m) ==
  LET g == mapper[m].segment
  IN /\ mapper[m].phase = "attached"
     /\ ctx' = [ctx EXCEPT ![g] = "lent"]
     /\ object' = [object EXCEPT ![mapper[m].object].segments = @ \cup {g}]
     /\ At(m, "ready", NoClient, g, 0)
     /\ UNCHANGED <<client, list, storage, session>>

MapCall(m) ==
  /\ mapper[m].phase = "ready"
  /\ mapper' = [mapper EXCEPT ![m].phase = "map"]
  /\ UNCHANGED <<ctx, client, list, object, storage, session>>

(* map_fn returns the memory, or NULL, which is an error.                  *)
MapReturn(m) ==
  /\ mapper[m].phase = "map"
  /\ \/ mapper' = [mapper EXCEPT ![m].phase = "held"]
     \/ mapper' = [mapper EXCEPT ![m] = IdleMapper]
  /\ UNCHANGED <<ctx, client, list, object, storage, session>>

(* The application drops the buffer, which keeps its segment until then.   *)
DropMapped(m) ==
  /\ mapper[m].phase = "held"
  /\ mapper' = [mapper EXCEPT ![m] = IdleMapper]
  /\ UNCHANGED <<ctx, client, list, object, storage, session>>

(* The Drop of ThreadsafeContext, with that of DynamicShmClient and        *)
(* DynamicShmSegment.                                                      *)
DeleteClientContext(c) ==
  /\ ctx[c] = "lent"
  /\ IF c \in Client THEN ~ClientHeld(c) ELSE ~SegmentHeld(c)
  /\ ctx' = [ctx EXCEPT ![c] = "dropping"]
  /\ UNCHANGED <<client, list, object, storage, session, mapper>>

DeleteClientReturn(c) ==
  /\ ctx[c] = "dropping"
  /\ ctx' = [ctx EXCEPT ![c] = "dropped"]
  /\ UNCHANGED <<client, list, object, storage, session, mapper>>

-----------------------------------------------------------------------------
MapperStep(m) ==
  AttachReturn(m) \/ TakeSegment(m) \/ MapCall(m) \/ MapReturn(m) \/ DropMapped(m)

ClientNext ==
  \/ zc_shm_client_list_new \/ zc_shm_client_list_drop \/ CloseSession
  \/ \E c \in Client :
       \/ FillClientContext(c) \/ z_shm_client_new(c) \/ z_shm_client_drop(c)
       \/ zc_shm_client_list_add_client(c)
  \/ \E s \in Storage :
       \/ z_shm_client_storage_new(s) \/ z_shm_client_storage_new_default(s)
       \/ z_shm_client_storage_drop(s) \/ z_open_with_custom_shm_clients(s)
       \/ \E from \in Storage : z_shm_client_storage_clone(s, from)
  \/ \E m \in Mapper : MapperStep(m) \/ Receive(m) \/ \E g \in Segment : FillSegmentContext(m, g)
  \/ \E c \in Ctx : DeleteClientContext(c) \/ DeleteClientReturn(c)

(* Callbacks return, and received buffers are dropped.                     *)
ClientFairness ==
  /\ \A m \in Mapper : WF_clientVars(MapperStep(m))
  /\ \A c \in Ctx : WF_clientVars(DeleteClientContext(c)) /\ WF_clientVars(DeleteClientReturn(c))

ClientSpec == ClientInit /\ [][ClientNext]_clientVars /\ ClientFairness

-----------------------------------------------------------------------------
(* Contexts of clients and segments obey the contract: delete_fn runs      *)
(* once, and attach_fn and map_fn neither during nor after it, whichever   *)
(* of the variable, the lists, the storages, their clones, the session and *)
(* the runtime threads lets go of a client last.                           *)
ClientContract == INSTANCE ClosureContract WITH
  Closure <- Ctx, Caller <- Mapper,
  life <- ctx,
  calls <- [c \in Ctx |->
             {m \in Mapper : \/ mapper[m].phase = "attach" /\ mapper[m].client = c
                             \/ mapper[m].phase = "map" /\ mapper[m].segment = c}]

ClientsObeyContract == ClientContract!ContractSpec

Released ==
  /\ \A c \in Client : client[c] # "some"
  /\ ~list.some /\ session = 0 /\ \A s \in Storage : storage[s] = 0

(* Once the application has dropped its clients, lists, storages and the   *)
(* session, every context it handed over is deleted, those of segments     *)
(* after the last received buffer.                                         *)
ReleasedContextsAreDeleted ==
  <>[]Released => \A c \in Ctx : (ctx[c] = "lent") ~> (ctx[c] = "dropped")

-----------------------------------------------------------------------------
(* The inductive invariant behind ClientsObeyContract.                     *)
(* What a thread at each place refers to.                                  *)
MapperPlace ==
  \A m \in Mapper :
    /\ mapper[m].phase \in {"attach", "attached"} =>
         mapper[m].client \in Client /\ mapper[m].object \in DOMAIN object
    /\ mapper[m].phase \notin {"attach", "attached"} =>
         mapper[m].client = NoClient /\ mapper[m].object = 0
    /\ mapper[m].phase \notin {"idle", "attach"} => mapper[m].segment \in Segment
    /\ mapper[m].phase = "idle" => mapper[m].segment = NoSegment

HeldClientsAreLent == \A c \in Client : ClientHeld(c) => ctx[c] = "lent"

(* A segment that attach_fn fills in belongs to the thread that called it. *)
Filling(m, g) == mapper[m].phase \in {"attach", "attached"} /\ mapper[m].segment = g

FilledSegmentsAreOwned ==
  \A m \in Mapper, g \in Segment : Filling(m, g) =>
    ctx[g] = "owned" /\ \A n \in Mapper : Filling(n, g) => n = m

MappedSegmentsAreLent ==
  \A m \in Mapper :
    mapper[m].phase \in {"ready", "map", "held"} => ctx[mapper[m].segment] = "lent"

KeptSegmentsAreLent ==
  \A o \in DOMAIN object : LiveObject(o) => \A g \in object[o].segments : ctx[g] = "lent"

ClientInv ==
  /\ ClientTypeOK /\ MapperPlace /\ HeldClientsAreLent
  /\ FilledSegmentsAreOwned /\ MappedSegmentsAreLent /\ KeptSegmentsAreLent

=============================================================================
