----------------------------- MODULE MovesProofs -----------------------------
(***************************************************************************)
(* Whatever functions the application calls and whichever optional         *)
(* arguments it passes, every variable moved into a function is a          *)
(* gravestone when the function returns.                                   *)
(***************************************************************************)
EXTENDS Moves, SequenceTheorems, TLAPS

(* Step i of a body, or a later one, takes a.                              *)
Takes(body, i, a) == \E j \in i..Len(body) : body[j].op = "take" /\ body[j].arg = a

(* What makes a function keep the agreement: it takes each of its          *)
(* arguments at some step, and an exit clears those it would still take.   *)
Consumes(f) ==
  /\ Len(f.body) \in Nat
  /\ \A a \in f.moved \cup f.options : Takes(f.body, 1, a)
  /\ \A i \in 1..Len(f.body) : f.body[i].op = "exit" =>
       \A a : Takes(f.body, i, a) => a \in f.body[i].clears

(* An executing function still takes whatever is left in its arguments.    *)
MovesInv ==
  /\ at \in Nat \ {0}
  /\ fn \in Functions \cup {"none"}
  /\ fn = "none" => full = {}
  /\ fn # "none" => \A a \in full : Takes(Body, at, a)

-----------------------------------------------------------------------------
(* Bodies, by the order of their takes and exits.                          *)
LEMMA TakeStep == \A a : Take(a).op = "take" /\ Take(a).arg = a
  BY DEF Take

LEMMA ExitStep == \A s : ExitIfErr(s).op = "exit" /\ ExitIfErr(s).clears = s
  BY DEF ExitIfErr

(* Once everything is taken, an exit leaves nothing behind.                *)
LEMMA TakesFirst ==
  ASSUME NEW f, Len(f.body) \in Nat, NEW k \in 0..Len(f.body),
         \A i \in 1..k : f.body[i].op = "take",
         \A i \in k + 1..Len(f.body) : f.body[i].op = "exit",
         \A a \in f.moved \cup f.options : \E i \in 1..k : f.body[i].arg = a
  PROVE  Consumes(f)
<1>1. \A a \in f.moved \cup f.options : Takes(f.body, 1, a)
  BY DEF Takes
<1>2. ASSUME NEW i \in 1..Len(f.body), f.body[i].op = "exit", NEW a, Takes(f.body, i, a)
      PROVE  FALSE
  BY <1>2 DEF Takes
<1>. QED BY <1>1, <1>2 DEF Consumes

LEMMA OneTake ==
  ASSUME NEW f, NEW a, f.moved \cup f.options = {a},
         f.body \in {<<Take(a)>>, <<Take(a), ExitIfErr({})>>,
                     <<Take(a), ExitIfErr({}), ExitIfErr({})>>}
  PROVE  Consumes(f)
<1> DEFINE b == f.body
<1>1. /\ Len(b) \in 1..3 /\ b[1] = Take(a)
      /\ \A i \in 2..Len(b) : b[i] = ExitIfErr({})
  OBVIOUS
<1> HIDE DEF b
<1>2. \A i \in 2..Len(b) : b[i].op = "exit"
  BY <1>1, ExitStep
<1>3. \A i \in 1..1 : b[i].op = "take"
  BY <1>1, TakeStep
<1>4. \A x \in {a} : \E i \in 1..1 : b[i].arg = x
  BY <1>1, TakeStep
<1>5. Len(b) \in Nat /\ 1 \in 0..Len(b) /\ 1 + 1 = 2
  BY <1>1
<1>. QED BY <1>2, <1>3, <1>4, <1>5, TakesFirst, Zenon DEF b

LEMMA TwoTakes ==
  ASSUME NEW f, NEW a, NEW c, f.moved \cup f.options = {a, c},
         f.body \in {<<Take(a), Take(c)>>, <<Take(a), Take(c), ExitIfErr({})>>}
  PROVE  Consumes(f)
<1> DEFINE b == f.body
<1>1. /\ Len(b) \in 2..3 /\ b[1] = Take(a) /\ b[2] = Take(c)
      /\ \A i \in 3..Len(b) : b[i] = ExitIfErr({})
  OBVIOUS
<1> HIDE DEF b
<1>2. \A i \in 3..Len(b) : b[i].op = "exit"
  BY <1>1, ExitStep
<1>3. \A i \in 1..2 : b[i].op = "take"
  BY <1>1, TakeStep
<1>4. \A x \in {a, c} : \E i \in 1..2 : b[i].arg = x
  BY <1>1, TakeStep
<1>5. Len(b) \in Nat /\ 2 \in 0..Len(b) /\ 2 + 1 = 3
  BY <1>1
<1>. QED BY <1>2, <1>3, <1>4, <1>5, TakesFirst, Zenon DEF b

LEMMA ThreeTakes ==
  ASSUME NEW f, NEW a, NEW c, NEW d, f.moved \cup f.options = {a, c, d},
         f.body = <<Take(a), Take(c), Take(d), ExitIfErr({})>>
  PROVE  Consumes(f)
<1> DEFINE b == f.body
<1>1. /\ Len(b) = 4 /\ b[1] = Take(a) /\ b[2] = Take(c) /\ b[3] = Take(d)
      /\ b[4] = ExitIfErr({})
  OBVIOUS
<1> HIDE DEF b
<1>2. \A i \in 4..Len(b) : b[i].op = "exit"
  BY <1>1, ExitStep
<1>3. \A i \in 1..3 : b[i].op = "take"
  BY <1>1, TakeStep
<1>4. \A x \in {a, c, d} : \E i \in 1..3 : b[i].arg = x
  BY <1>1, TakeStep
<1>5. Len(b) \in Nat /\ 3 \in 0..Len(b) /\ 3 + 1 = 4
  BY <1>1
<1>. QED BY <1>2, <1>3, <1>4, <1>5, TakesFirst, Zenon DEF b

LEMMA ThreeBodies ==
  ASSUME NEW S, NEW s \in Seq(S), NEW t \in Seq(S), NEW u \in Seq(S),
         Len(s) = 3, Len(t) = 4, Len(u) = 1
  PROVE  LET b == (s \o t) \o u
         IN  /\ Len(b) = 8
             /\ b[1] = s[1] /\ b[2] = s[2] /\ b[3] = s[3]
             /\ b[4] = t[1] /\ b[5] = t[2] /\ b[6] = t[3] /\ b[7] = t[4]
             /\ b[8] = u[1]
<1> DEFINE most == s \o t
<1> DEFINE all == most \o u
<1>1. most \in Seq(S)
  BY ConcatProperties
<1>2. Len(most) = Len(s) + Len(t)
  BY ConcatProperties
<1>3. \A i \in 1..Len(s) + Len(t) : most[i] = IF i <= Len(s) THEN s[i] ELSE t[i - Len(s)]
  BY ConcatProperties
<1> HIDE DEF most
<1>4. Len(all) = Len(most) + Len(u)
  BY <1>1, ConcatProperties
<1>5. \A i \in 1..Len(most) + Len(u) :
         all[i] = IF i <= Len(most) THEN most[i] ELSE u[i - Len(most)]
  BY <1>1, ConcatProperties
<1> HIDE DEF all
<1>6. /\ most[1] = s[1] /\ most[2] = s[2] /\ most[3] = s[3]
      /\ most[4] = t[1] /\ most[5] = t[2] /\ most[6] = t[3] /\ most[7] = t[4]
  BY <1>3
<1>7. /\ Len(all) = 8 /\ all[8] = u[1]
      /\ \A i \in 1..7 : all[i] = most[i]
  BY <1>2, <1>4, <1>5
<1>8. /\ all[1] = s[1] /\ all[2] = s[2] /\ all[3] = s[3]
      /\ all[4] = t[1] /\ all[5] = t[2] /\ all[6] = t[3] /\ all[7] = t[4]
  BY <1>6, <1>7
<1>. QED BY <1>7, <1>8 DEF all, most

(* The gets check their parameters between their takes, and clear() the    *)
(* options when they refuse them.                                          *)
LEMMA TakesAroundExits ==
  ASSUME NEW f, NEW b, f.body = b, f.moved = {"callback"}, f.options = GetOptions, Len(b) = 8,
         b[1] = Take("callback"), b[2] = ExitIfErr(GetOptions), b[3] = ExitIfErr(GetOptions),
         b[4] = Take("payload"), b[5] = Take("encoding"), b[6] = Take("attachment"),
         b[7] = Take("cancellation_token"), b[8] = ExitIfErr({})
  PROVE  Consumes(f)
<1>1. \A a \in {"callback"} \cup GetOptions : Takes(b, 1, a)
  BY TakeStep DEF Takes, GetOptions
<1>2. ASSUME NEW i \in 1..8, b[i].op = "exit", NEW a, Takes(b, i, a)
      PROVE  a \in b[i].clears
  <2>1. i \in {2, 3, 8}
    BY <1>2, TakeStep
  <2>2. PICK j \in i..8 : b[j].op = "take" /\ b[j].arg = a
    BY <1>2 DEF Takes
  <2>3. j \in 4..7
    BY <2>1, <2>2, ExitStep
  <2>4. a \in GetOptions
    BY <2>2, <2>3, TakeStep DEF GetOptions
  <2>. QED BY <2>1, <2>3, <2>4, ExitStep
<1>3. \A i \in 1..8 : b[i].op = "exit" => \A a : Takes(b, i, a) => a \in b[i].clears
  BY <1>2
<1>4. Len(f.body) \in Nat /\ 1..Len(f.body) = 1..8
  OBVIOUS
<1>. QED BY <1>1, <1>3, <1>4, Zenon DEF Consumes

LEMMA GetBody ==
  LET b == <<Take("callback"), ExitIfErr(GetOptions), ExitIfErr(GetOptions)>>
             \o TakeGetOptions \o <<ExitIfErr({})>>
  IN  /\ Len(b) = 8
      /\ b[1] = Take("callback") /\ b[2] = ExitIfErr(GetOptions) /\ b[3] = ExitIfErr(GetOptions)
      /\ b[4] = Take("payload") /\ b[5] = Take("encoding") /\ b[6] = Take("attachment")
      /\ b[7] = Take("cancellation_token") /\ b[8] = ExitIfErr({})
<1> DEFINE S == {Take(a) : a \in {"callback"} \cup GetOptions}
                   \cup {ExitIfErr(GetOptions), ExitIfErr({})}
<1>1. PICK s : s = <<Take("callback"), ExitIfErr(GetOptions), ExitIfErr(GetOptions)>>
  OBVIOUS
<1>2. PICK u : u = <<ExitIfErr({})>>
  OBVIOUS
<1>3. /\ s \in Seq(S) /\ Len(s) = 3 /\ s[1] = Take("callback")
      /\ s[2] = ExitIfErr(GetOptions) /\ s[3] = ExitIfErr(GetOptions)
  BY <1>1
<1>4. /\ TakeGetOptions \in Seq(S) /\ Len(TakeGetOptions) = 4
      /\ TakeGetOptions[1] = Take("payload") /\ TakeGetOptions[2] = Take("encoding")
      /\ TakeGetOptions[3] = Take("attachment")
      /\ TakeGetOptions[4] = Take("cancellation_token")
  BY DEF TakeGetOptions, GetOptions
<1>5. u \in Seq(S) /\ Len(u) = 1 /\ u[1] = ExitIfErr({})
  BY <1>2
<1>6. (s \o TakeGetOptions) \o u
        = <<Take("callback"), ExitIfErr(GetOptions), ExitIfErr(GetOptions)>>
            \o TakeGetOptions \o <<ExitIfErr({})>>
  BY <1>1, <1>2
<1> HIDE DEF S
<1>. QED BY <1>3, <1>4, <1>5, <1>6, ThreeBodies

-----------------------------------------------------------------------------
(* The functions of zenoh-c.                                               *)
(* Functions with one argument.                                            *)
LEMMA OneArgument ==
  /\ Consumes(Api["open"])
  /\ Consumes(Api["open_with_shm"])
  /\ Consumes(Api["bytes_from_shm_mut"])
  /\ Consumes(Api["writer_append"])
  /\ Consumes(Api["bytes_from_slice"])
  /\ Consumes(Api["bytes_from_string"])
  /\ Consumes(Api["writer_finish"])
  /\ Consumes(Api["serializer_finish"])
  /\ Consumes(Api["shm_from_mut"])
  /\ Consumes(Api["declare_publisher"])
  /\ Consumes(Api["declare_advanced_publisher"])
  /\ Consumes(Api["reply_del"])
  /\ Consumes(Api["undeclare_keyexpr"])
  /\ Consumes(Api["bytes_from_shm"])
  /\ Consumes(Api["shm_mut_from_immut"])
  /\ Consumes(Api["shm_map"])
  /\ Consumes(Api["client_list_add"])
<1>1. Consumes(z_open)
  BY OneTake DEF z_open, Function
<1>2. Consumes(z_open_with_custom_shm_clients)
  BY OneTake DEF z_open_with_custom_shm_clients, Function
<1>3. Consumes(z_bytes_from_shm_mut)
  BY OneTake DEF z_bytes_from_shm_mut, Function
<1>4. Consumes(z_bytes_writer_append)
  BY OneTake DEF z_bytes_writer_append, Function
<1>5. Consumes(z_bytes_from_slice)
  BY OneTake DEF z_bytes_from_slice, Function
<1>6. Consumes(z_bytes_from_string)
  BY OneTake DEF z_bytes_from_string, Function
<1>7. Consumes(z_bytes_writer_finish)
  BY OneTake DEF z_bytes_writer_finish, Function
<1>8. Consumes(ze_serializer_finish)
  BY OneTake DEF ze_serializer_finish, Function
<1>9. Consumes(z_shm_from_mut)
  BY OneTake DEF z_shm_from_mut, Function
<1>10. Consumes(z_declare_publisher)
  BY OneTake DEF z_declare_publisher, Function
<1>11. Consumes(ze_declare_advanced_publisher)
  BY OneTake DEF ze_declare_advanced_publisher, Function
<1>12. Consumes(z_query_reply_del)
  BY OneTake DEF z_query_reply_del, Function
<1>13. Consumes(z_undeclare_keyexpr)
  BY OneTake DEF z_undeclare_keyexpr, Function
<1>14. Consumes(z_bytes_from_shm)
  BY OneTake DEF z_bytes_from_shm, Function
<1>15. Consumes(z_shm_mut_try_from_immut)
  BY OneTake DEF z_shm_mut_try_from_immut, Function
<1>16. Consumes(z_shm_provider_map)
  BY OneTake DEF z_shm_provider_map, Function
<1>17. Consumes(zc_shm_client_list_add_client)
  BY OneTake DEF zc_shm_client_list_add_client, Function
<1>. QED BY <1>1, <1>2, <1>3, <1>4, <1>5, <1>6, <1>7, <1>8, <1>9, <1>10, <1>11, <1>12, <1>13, <1>14, <1>15, <1>16, <1>17 DEF Api

(* Functions with two, which are taken before anything can fail.           *)
LEMMA TwoArguments ==
  /\ Consumes(Api["reply_err"])
  /\ Consumes(Api["liveliness_get"])
  /\ Consumes(Api["scout"])
  /\ Consumes(Api["info_links"])
  /\ Consumes(Api["link_events"])
<1>1. Consumes(z_query_reply_err)
  BY TwoTakes DEF z_query_reply_err, Function, What, Matchers
<1>2. Consumes(z_liveliness_get)
  BY TwoTakes DEF z_liveliness_get, Function, What, Matchers
<1>3. Consumes(z_scout)
  BY TwoTakes DEF z_scout, Function, What, Matchers
<1>4. Consumes(z_info_links)
  BY TwoTakes DEF z_info_links, Function, What, Matchers
<1>5. Consumes(z_declare_link_events_listener)
  BY TwoTakes DEF z_declare_link_events_listener, Function, What, Matchers
<1>. QED BY <1>1, <1>2, <1>3, <1>4, <1>5 DEF Api

(* Publications and replies.                                               *)
LEMMA ThreeArguments ==
  /\ Consumes(Api["put"])
  /\ Consumes(Api["publisher_put"])
  /\ Consumes(Api["advanced_put"])
  /\ Consumes(Api["reply"])
<1>1. Consumes(z_put)
  BY ThreeTakes DEF z_put, Function
<1>2. Consumes(z_publisher_put)
  BY ThreeTakes DEF z_publisher_put, Function
<1>3. Consumes(ze_advanced_publisher_put)
  BY ThreeTakes DEF ze_advanced_publisher_put, Function
<1>4. Consumes(z_query_reply)
  BY ThreeTakes DEF z_query_reply, Function
<1>. QED BY <1>1, <1>2, <1>3, <1>4 DEF Api

(* Queries.                                                                *)
LEMMA Gets ==
  /\ Consumes(Api["get"])
  /\ Consumes(Api["querier_get"])
<1>1. Consumes(z_get)
  BY TakesAroundExits, GetBody DEF z_get, Function
<1>2. Consumes(z_querier_get)
  BY TakesAroundExits, GetBody DEF z_querier_get, Function
<1>. QED BY <1>1, <1>2 DEF Api

LEMMA FunctionsConsume == \A f \in DOMAIN Api \ {"querying_get"} : Consumes(Api[f])
<1>1. DOMAIN Api = {"open", "open_with_shm", "bytes_from_shm_mut", "writer_append",
                    "bytes_from_slice", "bytes_from_string", "writer_finish",
                    "serializer_finish", "shm_from_mut", "declare_publisher", "put",
                    "publisher_put", "advanced_put", "reply", "reply_err", "reply_del", "get",
                    "querier_get", "liveliness_get", "querying_get", "scout",
                    "undeclare_keyexpr", "bytes_from_shm", "shm_mut_from_immut",
                    "declare_advanced_publisher", "info_links", "link_events", "shm_map",
                    "client_list_add"}
  BY DEF Api
<1>. QED BY <1>1, OneArgument, TwoArguments, ThreeArguments, Gets

-----------------------------------------------------------------------------
LEMMA InitMoves == Init => MovesInv
  BY DEF Init, MovesInv

(* What a step does to an execution of a function that keeps the agreement. *)
LEMMA MovesStep ==
  ASSUME \A f \in Functions : Consumes(Api[f]), "none" \notin Functions,
         MovesInv, [Next]_vars
  PROVE  MovesInv'
<1> USE DEF MovesInv
<1>1. ASSUME fn # "none" PROVE Consumes(Api[fn]) /\ Body = Api[fn].body /\ Len(Body) \in Nat
  BY <1>1 DEF Body, Consumes
<1>2. ASSUME NEW f \in Functions, NEW opts \in SUBSET Api[f].options, Call(f, opts)
      PROVE  MovesInv'
  <2>1. \A a \in full' : Takes(Api[f].body, 1, a)
    BY <1>2 DEF Call, Consumes
  <2>. QED BY <1>2, <2>1 DEF Call, Body
<1>3. CASE TakeArg
  <2>1. Body' = Body
    BY <1>3 DEF TakeArg, Body
  <2>2. ASSUME NEW a \in full' PROVE Takes(Body, at + 1, a)
    <3>1. Takes(Body, at, a) /\ a # Body[at].arg
      BY <1>3, <2>2 DEF TakeArg
    <3>2. PICK j \in at..Len(Body) : Body[j].op = "take" /\ Body[j].arg = a
      BY <3>1 DEF Takes
    <3>3. j \in at + 1..Len(Body)
      BY <1>1, <1>3, <3>1, <3>2 DEF TakeArg
    <3>. QED BY <3>2, <3>3 DEF Takes
  <2>. QED BY <1>3, <2>1, <2>2 DEF TakeArg
<1>4. CASE Pass
  <2>1. Body' = Body
    BY <1>4 DEF Pass, Body
  <2>2. ASSUME NEW a \in full' PROVE Takes(Body, at + 1, a)
    <3>1. Takes(Body, at, a)
      BY <1>4, <2>2 DEF Pass
    <3>2. PICK j \in at..Len(Body) : Body[j].op = "take" /\ Body[j].arg = a
      BY <3>1 DEF Takes
    <3>3. j \in at + 1..Len(Body)
      BY <1>1, <1>4, <3>2 DEF Pass
    <3>. QED BY <3>2, <3>3 DEF Takes
  <2>. QED BY <1>4, <2>1, <2>2 DEF Pass
<1>5. CASE Exit
  <2>1. at \in 1..Len(Body) /\ Body[at].op = "exit"
    BY <1>1, <1>5 DEF Exit
  <2>2. \A a \in full : a \in Body[at].clears
    BY <1>1, <1>5, <2>1 DEF Exit, Consumes
  <2>. QED BY <1>5, <2>2 DEF Exit
<1>6. CASE Return
  <2>1. \A a : ~Takes(Body, at, a)
    BY <1>1, <1>6 DEF Return, Takes
  <2>. QED BY <1>6, <2>1 DEF Return
<1>7. CASE UNCHANGED vars
  BY <1>7 DEF vars, Body
<1>. QED BY <1>2, <1>3, <1>4, <1>5, <1>6, <1>7 DEF Next

(* Whatever functions a program consists of, if each of them takes its     *)
(* arguments, and clears at each exit what it would still take, then       *)
(* nothing that was moved is left behind.                                  *)
THEOREM ConsumersLeaveNothing ==
  ASSUME \A f \in Functions : Consumes(Api[f]), "none" \notin Functions
  PROVE  Spec => []MovedArgumentsConsumed
<1>1. MovesInv => MovedArgumentsConsumed
  BY DEF MovesInv, MovedArgumentsConsumed
<1>. QED BY <1>1, InitMoves, MovesStep, PTL DEF Spec

(* Every modelled function of zenoh-c but ze_querying_subscriber_get, with  *)
(* any of its options and whichever exit it takes, leaves each variable     *)
(* moved into it a gravestone.                                              *)
THEOREM MovedIsConsumed ==
  ASSUME "querying_get" \notin Functions
  PROVE  Spec => []MovedArgumentsConsumed
<1>1. \A f \in Functions : Consumes(Api[f])
  BY FunctionsAssumption, FunctionsConsume
<1>2. "none" \notin Functions
  BY FunctionsAssumption DEF Api
<1>. QED BY <1>1, <1>2, ConsumersLeaveNothing

=============================================================================
