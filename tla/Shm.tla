--------------------------------- MODULE Shm ---------------------------------
(***************************************************************************)
(* Shared memory in one process, which either sends buffers that it        *)
(* allocates from a provider or receives the buffers of another process    *)
(* through clients of its own.  The two sides share no state.              *)
(***************************************************************************)
EXTENDS ShmProvider, ShmClients

CONSTANT Roles   \* the sides that are explored, of "sender" and "receiver"

VARIABLE role

shmVars == <<vars, clientVars, role>>

(* The receiver has no provider: its kind says nothing.                    *)
ShmInit ==
  /\ role \in Roles /\ Init /\ ClientInit
  /\ role = "receiver" => kind = CHOOSE k \in Kinds : TRUE

ShmNext ==
  /\ \/ role = "sender" /\ Next /\ UNCHANGED clientVars
     \/ role = "receiver" /\ ClientNext /\ UNCHANGED vars
  /\ UNCHANGED role

ShmSpec == ShmInit /\ [][ShmNext]_shmVars /\ ProviderFairness /\ ClientFairness

=============================================================================
