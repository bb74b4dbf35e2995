-------------------------------- MODULE Moves --------------------------------
(***************************************************************************)
(* Functions that take ownership of z_moved_xxx_t* arguments, directly or  *)
(* in the fields of an options structure.  Each function is the sequence   *)
(* of its takes and of its exits on an error, in the order of the code;    *)
(* what an exit clears before it returns is part of the exit.              *)
(***************************************************************************)
EXTENDS Naturals, Sequences, FiniteSets

CONSTANT Functions   \* the functions that the application calls

-----------------------------------------------------------------------------
Take(a) == [op |-> "take", arg |-> a, clears |-> {}]

(* An exit that may be taken; clear() of the options empties `fields'.     *)
ExitIfErr(fields) == [op |-> "exit", arg |-> "", clears |-> fields]

(* `moved' are the arguments that must be passed, `options' those that may. *)
Function(moved, options, body) == [moved |-> moved, options |-> options, body |-> body]

GetOptions == {"payload", "encoding", "attachment", "cancellation_token"}

TakeGetOptions == <<Take("payload"), Take("encoding"), Take("attachment"), Take("cancellation_token")>>

z_open == Function({"config"}, {}, <<Take("config"), ExitIfErr({})>>)

z_open_with_custom_shm_clients == Function({"config"}, {}, <<Take("config"), ExitIfErr({}), ExitIfErr({})>>)

z_declare_publisher == Function({}, {"encoding"}, <<Take("encoding"), ExitIfErr({})>>)

ze_declare_advanced_publisher == Function({}, {"encoding"}, <<Take("encoding"), ExitIfErr({})>>)

z_put == Function({"payload"}, {"encoding", "attachment"},
           <<Take("payload"), Take("encoding"), Take("attachment"), ExitIfErr({})>>)

z_publisher_put == Function({"payload"}, {"encoding", "attachment"},
           <<Take("payload"), Take("encoding"), Take("attachment"), ExitIfErr({})>>)

ze_advanced_publisher_put == Function({"payload"}, {"encoding", "attachment"},
           <<Take("payload"), Take("encoding"), Take("attachment"), ExitIfErr({})>>)

z_query_reply == Function({"payload"}, {"encoding", "attachment"},
           <<Take("payload"), Take("encoding"), Take("attachment"), ExitIfErr({})>>)

z_query_reply_err == Function({"payload"}, {"encoding"},
           <<Take("payload"), Take("encoding"), ExitIfErr({})>>)

z_query_reply_del == Function({}, {"attachment"}, <<Take("attachment"), ExitIfErr({})>>)

(* Slip: the exits on invalid parameters return without clear().           *)
z_get_no_clear == Function({"callback"}, GetOptions,
           <<Take("callback"), ExitIfErr({}), ExitIfErr({})>> \o TakeGetOptions \o <<ExitIfErr({})>>)

(* The parameters must be a non-NULL or empty slice, and valid UTF-8.      *)
z_get == Function({"callback"}, GetOptions,
           <<Take("callback"), ExitIfErr(GetOptions), ExitIfErr(GetOptions)>>
             \o TakeGetOptions \o <<ExitIfErr({})>>)

z_querier_get == Function({"callback"}, GetOptions,
           <<Take("callback"), ExitIfErr(GetOptions), ExitIfErr(GetOptions)>>
             \o TakeGetOptions \o <<ExitIfErr({})>>)

z_liveliness_get == Function({"callback"}, {"cancellation_token"},
           <<Take("callback"), Take("cancellation_token"), ExitIfErr({})>>)

(* The options are a z_get_options_t; only three of its fields are taken.  *)
ze_querying_subscriber_get == Function({}, GetOptions,
           <<Take("payload"), Take("encoding"), Take("attachment"), ExitIfErr({})>>)

(* z_what_t, and the values that WhatAmIMatcher::try_from accepts.  Every  *)
(* value of the type is accepted: the return between the two takes, which  *)
(* would leave the configuration behind, is never reached.                 *)
What == {1, 2, 4, 3, 5, 6, 7}
Matchers == 1..7

z_scout == Function({"config", "callback"}, {},
           <<Take("callback")>> \o (IF What \subseteq Matchers THEN <<>> ELSE <<ExitIfErr({})>>)
             \o <<Take("config"), ExitIfErr({})>>)

z_undeclare_keyexpr == Function({"key_expr"}, {}, <<Take("key_expr"), ExitIfErr({}), ExitIfErr({})>>)

z_info_links == Function({"callback"}, {"transport"}, <<Take("callback"), Take("transport")>>)

z_declare_link_events_listener == Function({"callback"}, {"transport"},
           <<Take("callback"), Take("transport"), ExitIfErr({})>>)

(* The chunk's pointer is taken before its length is checked.              *)
z_shm_provider_map == Function({"ptr"}, {}, <<Take("ptr"), ExitIfErr({}), ExitIfErr({})>>)

z_bytes_from_shm == Function({"shm"}, {}, <<Take("shm"), ExitIfErr({})>>)

z_bytes_from_shm_mut == Function({"shm"}, {}, <<Take("shm"), ExitIfErr({})>>)

z_bytes_writer_append == Function({"bytes"}, {}, <<Take("bytes")>>)

z_bytes_from_slice == Function({"slice"}, {}, <<Take("slice")>>)

z_bytes_from_string == Function({"s"}, {}, <<Take("s")>>)

z_bytes_writer_finish == Function({"this"}, {}, <<Take("this")>>)

ze_serializer_finish == Function({"this"}, {}, <<Take("this")>>)

z_shm_from_mut == Function({"that"}, {}, <<Take("that")>>)

z_shm_mut_try_from_immut == Function({"shm"}, {}, <<Take("shm"), ExitIfErr({}), ExitIfErr({})>>)

zc_shm_client_list_add_client == Function({"client"}, {}, <<Take("client"), ExitIfErr({})>>)

Api == [open |-> z_open, open_with_shm |-> z_open_with_custom_shm_clients,
        bytes_from_shm_mut |-> z_bytes_from_shm_mut, writer_append |-> z_bytes_writer_append,
        bytes_from_slice |-> z_bytes_from_slice, bytes_from_string |-> z_bytes_from_string,
        writer_finish |-> z_bytes_writer_finish, serializer_finish |-> ze_serializer_finish,
        shm_from_mut |-> z_shm_from_mut,
        declare_publisher |-> z_declare_publisher, put |-> z_put,
        publisher_put |-> z_publisher_put, advanced_put |-> ze_advanced_publisher_put,
        reply |-> z_query_reply, reply_err |-> z_query_reply_err, reply_del |-> z_query_reply_del,
        get |-> z_get, querier_get |-> z_querier_get, liveliness_get |-> z_liveliness_get,
        querying_get |-> ze_querying_subscriber_get, scout |-> z_scout,
        undeclare_keyexpr |-> z_undeclare_keyexpr, bytes_from_shm |-> z_bytes_from_shm,
        shm_mut_from_immut |-> z_shm_mut_try_from_immut,
        declare_advanced_publisher |-> ze_declare_advanced_publisher, info_links |-> z_info_links,
        link_events |-> z_declare_link_events_listener, shm_map |-> z_shm_provider_map,
        client_list_add |-> zc_shm_client_list_add_client]

ASSUME FunctionsAssumption == Functions \subseteq DOMAIN Api

-----------------------------------------------------------------------------
VARIABLES
  fn,        \* the function that is executing
  at,        \* its next step
  full,      \* the owned variables passed to it that still hold their value
  taken      \* the values that belong to zenoh-c now

vars == <<fn, at, full, taken>>

Init == fn = "none" /\ at = 1 /\ full = {} /\ taken = {}

Body == Api[fn].body

(* The application calls f, with any of the optional arguments.            *)
Call(f, opts) ==
  /\ fn = "none" /\ full = {}
  /\ fn' = f
  /\ at' = 1
  /\ full' = Api[f].moved \cup opts
  /\ taken' = {}

(* take_rust_type: the value moves and the variable becomes a gravestone.  *)
TakeArg ==
  /\ fn # "none" /\ at <= Len(Body) /\ Body[at].op = "take"
  /\ at' = at + 1
  /\ full' = full \ {Body[at].arg}
  /\ taken' = taken \cup (full \cap {Body[at].arg})
  /\ UNCHANGED fn

Pass ==
  /\ fn # "none" /\ at <= Len(Body) /\ Body[at].op = "exit"
  /\ at' = at + 1
  /\ UNCHANGED <<fn, full, taken>>

(* An early return; what was taken so far is dropped with it.              *)
Exit ==
  /\ fn # "none" /\ at <= Len(Body) /\ Body[at].op = "exit"
  /\ fn' = "none"
  /\ full' = full \ Body[at].clears
  /\ taken' = {}
  /\ UNCHANGED at

Return ==
  /\ fn # "none" /\ at > Len(Body)
  /\ fn' = "none"
  /\ UNCHANGED <<at, full, taken>>

Next ==
  \/ \E f \in Functions : \E opts \in SUBSET Api[f].options : Call(f, opts)
  \/ TakeArg \/ Pass \/ Exit \/ Return

Spec == Init /\ [][Next]_vars

-----------------------------------------------------------------------------
(* The agreement on z_moved_xxx_t* arguments: whichever way a function     *)
(* returns, every variable moved into it is a gravestone, so that the      *)
(* application may forget it without leaking.                              *)
MovedArgumentsConsumed == fn = "none" => full = {}

=============================================================================
