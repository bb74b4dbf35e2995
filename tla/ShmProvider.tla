----------------------------- MODULE ShmProvider -----------------------------
(***************************************************************************)
(* A shared-memory provider: its backend, which may be a set of callbacks  *)
(* of the application with a context, the blocking allocations of the      *)
(* application's threads and the allocations that z_shm_provider_alloc_... *)
(* _async and its counterpart for a precomputed layout spawn on the        *)
(* runtime, each with a result callback and a context of its own.          *)
(*                                                                         *)
(* The policies (when to retry, collect garbage, deallocate or block) and  *)
(* the bookkeeping of chunks are external (zenoh::shm); a chunk is a unit  *)
(* of memory here, whatever its size and alignment.                        *)
(***************************************************************************)
EXTENDS Naturals, FiniteSets

CONSTANTS
  Thread,    \* application threads
  Request,   \* asynchronous allocations, each with a result context
  Backend,   \* the context of the provider's callbacks
  Kinds,     \* the variants of CSHMProvider that are made
  via,       \* via[r]: "provider" or "layout", the function that r is made with
  Policies,  \* the policies of the blocking allocations
  Chunks     \* how many chunks the provider has

Actor == Thread \cup Request
Context == Request \cup {Backend}

ASSUME ShmAssumption ==
  /\ Thread \cap Request = {} /\ Backend \notin Actor
  /\ Kinds \subseteq {"posix", "shared_posix", "dynamic", "dynamic_threadsafe"}
  /\ via \in [Request -> {"provider", "layout"}]
  /\ Policies \subseteq {"just", "gc", "dealloc", "block"}
  /\ Chunks \in Nat \ {0}

VARIABLES
  kind,      \* the variant of the provider
  provider,  \* the application's z_owned_shm_provider_t
  layout,    \* the application's z_owned_precomputed_layout_t
  life,      \* life[c]: the context c, as in ClosureContract
  pc,        \* pc[a]: where the allocation of actor a is
  policy,    \* policy[a]: its policy
  free,      \* the number of chunks that can be allocated
  garbage,   \* the number of chunks whose buffer is gone but not collected
  held       \* the actors whose buffer the application holds

vars == <<kind, provider, layout, life, pc, policy, free, garbage, held>>

TypeOK ==
  /\ kind \in Kinds
  /\ provider \in {"uninit", "some", "null"}
  /\ layout \in {"uninit", "some", "null"}
  /\ life \in [Context -> {"fresh", "owned", "lent", "dropping", "dropped"}]
  /\ pc \in [Actor -> {"idle", "trying", "backend", "writing", "callback", "returned",
                       "rejected", "done"}]
  /\ policy \in [Actor -> Policies \cup {"block"}]
  /\ free \in 0..Chunks /\ garbage \in 0..Chunks
  /\ held \subseteq Actor

Init ==
  /\ kind \in Kinds
  /\ provider = "uninit" /\ layout = "uninit"
  /\ life = [c \in Context |-> "fresh"]
  /\ pc = [a \in Actor |-> "idle"]
  /\ policy = [a \in Actor |-> "block"]
  /\ free = Chunks /\ garbage = 0
  /\ held = {}

Goto(a, l) == pc' = [pc EXCEPT ![a] = l]

Live(c, l) == life' = [life EXCEPT ![c] = l]

-----------------------------------------------------------------------------
HasCallbacks == kind \in {"dynamic", "dynamic_threadsafe"}

Active == {"trying", "backend", "writing", "callback"}

(* The application uses a provider that is not thread-safe from one thread *)
(* at a time, and starts nothing after it dropped the provider.            *)
MayUse(t) ==
  /\ provider = "some" /\ pc[t] = "idle"
  /\ kind = "dynamic" => \A u \in Thread : pc[u] = "idle"

(* The application fills in a zc_context_t or zc_threadsafe_context_t.     *)
FillContext(c) ==
  /\ life[c] = "fresh" /\ Live(c, "owned")
  /\ UNCHANGED <<kind, provider, layout, pc, policy, free, garbage, held>>

(* z_shm_provider_new and z_shm_provider_threadsafe_new move the context   *)
(* into the backend; the constructors of POSIX providers may fail.         *)
New ==
  /\ provider = "uninit"
  /\ \/ provider' = "some"
     \/ ~HasCallbacks /\ provider' = "null"
  /\ HasCallbacks => life[Backend] = "owned"
  /\ IF HasCallbacks THEN Live(Backend, "lent") ELSE UNCHANGED life
  /\ UNCHANGED <<kind, layout, pc, policy, free, garbage, held>>

(* z_shm_provider_alloc_layout; on an error the variable is not written.   *)
NewLayout(t) ==
  /\ MayUse(t)
  /\ layout = "uninit" /\ layout' = "some"
  /\ UNCHANGED <<kind, provider, life, pc, policy, free, garbage, held>>

DropLayout(t) ==
  /\ pc[t] = "idle"
  /\ layout = "some" /\ \A r \in Request : via[r] = "layout" => pc[r] \notin Active
  /\ layout' = "null"
  /\ UNCHANGED <<kind, provider, life, pc, policy, free, garbage, held>>

(* z_shm_provider_drop.  Layouts and running allocations refer to the      *)
(* provider as 'static: they must be gone.                                 *)
Drop ==
  /\ provider = "some" /\ layout # "some"
  /\ \A a \in Actor : pc[a] \notin Active
  /\ provider' = "null"
  /\ UNCHANGED <<kind, layout, life, pc, policy, free, garbage, held>>

(* The blocking allocations of a provider or a layout.                     *)
Alloc(t, p) ==
  /\ MayUse(t) /\ t \notin held
  /\ Goto(t, "trying")
  /\ policy' = [policy EXCEPT ![t] = p]
  /\ UNCHANGED <<kind, provider, layout, life, free, garbage, held>>

(* Slip: the variant of the provider is not looked at.                     *)
AllocAsyncAlways(t, r) ==
  /\ MayUse(t) /\ pc[r] = "idle" /\ life[r] = "owned"
  /\ Live(r, "lent")
  /\ Goto(r, "trying")
  /\ UNCHANGED <<kind, provider, layout, policy, free, garbage, held>>

(* alloc_async spawns the allocation on the runtime.  A provider that is   *)
(* not thread-safe is refused; the context has been moved all the same.    *)
AllocAsync(t, r) ==
  /\ MayUse(t) /\ pc[r] = "idle" /\ life[r] = "owned"
  /\ via[r] = "layout" => layout = "some"
  /\ Live(r, "lent")
  /\ IF kind = "dynamic" THEN Goto(r, "rejected") ELSE Goto(r, "trying")
  /\ UNCHANGED <<kind, provider, layout, policy, free, garbage, held>>

-----------------------------------------------------------------------------
(* The backend's alloc, free and defragment: in a dynamic provider these   *)
(* run alloc_fn, free_fn and defragment_fn with the provider's context.    *)
BackendStart(a) ==
  /\ pc[a] = "trying" /\ Goto(a, "backend")
  /\ UNCHANGED <<kind, provider, layout, life, policy, free, garbage, held>>

(* Slip: the allocation blocks on plain attempts.                          *)
CollectsGcOnly(a) == policy[a] = "gc"

(* What the policies make of an attempt: with no free chunk they collect   *)
(* garbage, deallocate a buffer that is in use, go on trying, or give up.  *)
Collects(a) == policy[a] # "just"

BackendReturn(a) ==
  /\ pc[a] = "backend"
  /\ \/ /\ free > 0
        /\ free' = free - 1 /\ held' = held \cup {a}
        /\ Goto(a, "writing")
        /\ UNCHANGED garbage
     \/ /\ free = 0 /\ garbage > 0 /\ Collects(a)
        /\ free' = garbage /\ garbage' = 0
        /\ Goto(a, "trying")
        /\ UNCHANGED held
     \/ /\ free = 0 /\ garbage = 0 /\ policy[a] = "dealloc"   \* that buffer is unusable now
        /\ \E b \in held : held' = held \ {b}
        /\ free' = 1
        /\ Goto(a, "trying")
        /\ UNCHANGED garbage
     \/ /\ free = 0 /\ garbage = 0 /\ policy[a] = "block"
        /\ Goto(a, "trying")
        /\ UNCHANGED <<free, garbage, held>>
     \/ /\ free = 0 /\ policy[a] # "block" /\ (garbage = 0 \/ ~Collects(a))
        /\ policy[a] = "dealloc" => held = {}
        /\ Goto(a, "writing")
        /\ UNCHANGED <<free, garbage, held>>
  /\ UNCHANGED <<kind, provider, layout, life, policy>>

(* A blocking allocation writes out_result and returns.                    *)
AllocReturn(t) ==
  /\ t \in Thread /\ pc[t] = "writing"
  /\ Goto(t, "idle")
  /\ UNCHANGED <<kind, provider, layout, life, policy, free, garbage, held>>

(* The spawned task writes out_result, runs the result callback with the   *)
(* context, and ends: the context is dropped with it.                      *)
ResultCall(r) ==
  /\ r \in Request /\ pc[r] = "writing"
  /\ Goto(r, "callback")
  /\ UNCHANGED <<kind, provider, layout, life, policy, free, garbage, held>>

ResultReturn(r) ==
  /\ pc[r] = "callback"
  /\ Goto(r, "returned")
  /\ UNCHANGED <<kind, provider, layout, life, policy, free, garbage, held>>

(* Slip: the context goes out of scope before the callback runs.           *)
DeleteEarly(c) ==
  /\ life[c] = "lent"
  /\ IF c = Backend THEN provider = "null" ELSE pc[c] \in {"callback", "returned", "rejected"}
  /\ Live(c, "dropping")
  /\ UNCHANGED <<kind, provider, layout, pc, policy, free, garbage, held>>

(* Slip: the context is wrapped in a type with a Drop only once the        *)
(* provider has been accepted.                                             *)
DeleteOnReturn(c) ==
  /\ life[c] = "lent"
  /\ IF c = Backend THEN provider = "null" ELSE pc[c] = "returned"
  /\ Live(c, "dropping")
  /\ UNCHANGED <<kind, provider, layout, pc, policy, free, garbage, held>>

(* The Drop of Context and ThreadsafeContext runs delete_fn.  The function *)
(* for providers wraps the context before it looks at the provider, so a   *)
(* refused request deletes it; the one for layouts wraps it afterwards,    *)
(* and a refused zc_threadsafe_context_t has no Drop.                      *)
Delete(c) ==
  /\ life[c] = "lent"
  /\ IF c = Backend
     THEN provider = "null"
     ELSE pc[c] \in (IF via[c] = "provider" THEN {"returned", "rejected"} ELSE {"returned"})
  /\ Live(c, "dropping")
  /\ UNCHANGED <<kind, provider, layout, pc, policy, free, garbage, held>>

DeleteReturn(c) ==
  /\ life[c] = "dropping"
  /\ Live(c, "dropped")
  /\ IF c \in Request THEN Goto(c, "done") ELSE UNCHANGED pc
  /\ UNCHANGED <<kind, provider, layout, policy, free, garbage, held>>

(* The application drops a buffer; the chunk is collected later.           *)
DropBuffer(a) ==
  /\ a \in held /\ pc[a] \notin Active
  /\ held' = held \ {a}
  /\ garbage' = garbage + 1
  /\ UNCHANGED <<kind, provider, layout, life, pc, policy, free>>

(* z_shm_provider_garbage_collect.                                         *)
GarbageCollect(t) ==
  /\ MayUse(t) /\ garbage > 0
  /\ free' = free + garbage /\ garbage' = 0
  /\ UNCHANGED <<kind, provider, layout, life, pc, policy, held>>

-----------------------------------------------------------------------------
Step(a) ==
  BackendStart(a) \/ BackendReturn(a) \/ AllocReturn(a) \/ ResultCall(a) \/ ResultReturn(a)

Next ==
  \/ New \/ Drop
  \/ \E t \in Thread :
       \/ NewLayout(t) \/ DropLayout(t) \/ GarbageCollect(t)
       \/ \E p \in Policies : Alloc(t, p)
       \/ \E r \in Request : AllocAsync(t, r)
  \/ \E a \in Actor : Step(a) \/ DropBuffer(a)
  \/ \E c \in Context : FillContext(c) \/ Delete(c) \/ DeleteReturn(c)

(* Threads and tasks are scheduled, callbacks return, and the application  *)
(* drops the buffers it holds.                                             *)
ProviderFairness ==
  /\ \A a \in Actor : WF_vars(Step(a)) /\ WF_vars(DropBuffer(a))
  /\ \A c \in Context : WF_vars(Delete(c)) /\ WF_vars(DeleteReturn(c))

-----------------------------------------------------------------------------
(* zc_context_t: callbacks that share a non-thread-safe context are never  *)
(* executed concurrently, though allocations of several kinds may be under *)
(* way at the same time.                                                   *)
CallbacksAreSerial ==
  kind = "dynamic" =>
    \A a, b \in Actor : pc[a] = "backend" /\ pc[b] = "backend" => a = b

(* zc_threadsafe_context_t: once it has been moved to zenoh-c, delete_fn   *)
(* is executed.                                                            *)
MovedContextIsDeleted ==
  \A r \in Request : (life[r] = "lent") ~> (life[r] = "dropped")

(* The same for every request but those that a layout refuses: its task    *)
(* runs to its end once the application's threads leave some memory to it. *)
ContextIsDeleted ==
  <>[](\A t \in Thread : pc[t] = "idle") =>
    \A r \in Request :
      (life[r] = "lent" /\ (via[r] = "provider" \/ kind # "dynamic")) ~> (life[r] = "dropped")

(* An allocation that blocks gets memory: what the application drops is    *)
(* collected and handed on, without anybody calling garbage_collect, once  *)
(* its threads stop taking the memory with allocations of their own.       *)
AsyncAllocCompletes ==
  <>[](\A t \in Thread : pc[t] = "idle") =>
    \A r \in Request : (pc[r] = "trying") ~> (pc[r] = "callback")

(* Contexts obey the contract of closures: delete_fn runs once, and only   *)
(* after the last callback that uses the context has returned.             *)
Contract == INSTANCE ClosureContract WITH
  Closure <- Context, Caller <- Actor,
  life <- life,
  calls <- [c \in Context |->
             IF c = Backend
             THEN {a \in Actor : HasCallbacks /\ pc[a] = "backend"}
             ELSE {a \in {c} : pc[a] = "callback"}]

ContextsObeyContract == Contract!ContractSpec

-----------------------------------------------------------------------------
(* The inductive invariant behind CallbacksAreSerial and                   *)
(* ContextsObeyContract.                                                   *)
(* Every chunk is free, garbage or behind one buffer: whoever is to get a  *)
(* buffer does not hold one yet.                                           *)
ChunksAreConserved ==
  /\ IsFiniteSet(held) /\ free + garbage + Cardinality(held) = Chunks
  /\ \A a \in Actor : pc[a] \in {"trying", "backend"} => a \notin held
  /\ \A r \in Request : pc[r] = "idle" => r \notin held

(* Threads return from their calls; a request ends once, and its context   *)
(* is lent from the call that moved it until its task is over.             *)
RequestsHoldContexts ==
  /\ \A t \in Thread : pc[t] \in {"idle", "trying", "backend", "writing"}
  /\ \A r \in Request :
       /\ pc[r] = "idle" => life[r] \in {"fresh", "owned"}
       /\ pc[r] \in Active => life[r] = "lent"
       /\ pc[r] \in {"returned", "rejected"} => life[r] \in {"lent", "dropping"}
       /\ pc[r] = "done" => life[r] = "dropped"

(* The provider outlives the allocations, and its context with it.         *)
ProviderOutlivesUse ==
  /\ \A a \in Actor : pc[a] \in Active => provider = "some"
  /\ HasCallbacks => /\ provider = "some" => life[Backend] = "lent"
                     /\ provider = "uninit" => life[Backend] \in {"fresh", "owned"}
  /\ ~HasCallbacks => life[Backend] \in {"fresh", "owned"}

(* A provider that is not thread-safe is used by one thread at a time, and *)
(* no task is ever spawned for it.                                         *)
OneUser ==
  kind = "dynamic" =>
    /\ \A r \in Request : pc[r] \notin Active
    /\ \A t, u \in Thread : pc[t] # "idle" /\ pc[u] # "idle" => t = u

ProviderInv ==
  /\ TypeOK /\ ChunksAreConserved /\ RequestsHoldContexts /\ ProviderOutlivesUse /\ OneUser

=============================================================================
