------------------------------- MODULE KeyExpr -------------------------------
(* Key expressions (src/src/keyexpr.rs) in programs that also use strings   *)
(* and views.  An owned key expression normally refers to a copy of its     *)
(* text, which its clones share; a view refers to memory of somebody else.  *)
(* Both are the same Rust type, so an owned key expression may borrow too.  *)
(*                                                                          *)
(* Static memory is one character array of the application, whose text is   *)
(* followed; for other memory every check may pass or fail.                 *)
EXTENDS Collections

CONSTANTS Key,     \* variables of type z_owned_keyexpr_t
          KeyView, \* variables of type z_view_keyexpr_t
          Chars,   \* the application's character array, in the programs that write it
          MaxText  \* how many characters the array holds

ASSUME KeyAssumption == Other = Key \cup KeyView /\ Key \cap KeyView = {}

ASSUME TextAssumption == MaxText \in Nat \ {0}

VARIABLES static,  \* the text of the array
          piece    \* how much of it each key expression borrows
keyVars == <<vars, static, piece>>

(* A canonical key expression, one that canonization makes so, and text     *)
(* that is none even so, changed by canonization or not (as when it is not  *)
(* UTF-8).  Each of the array's prefixes has a spelling of its own.         *)
Spelling == {"canon", "loose", "mixed", "bad"}
Text == [1..MaxText -> Spelling]

(* A program passes the array as a string that ends with NUL, as a buffer   *)
(* with a variable for its length, which functions get a pointer to, or     *)
(* piece by piece with lengths of its choice.  A literal is read-only.      *)
CharArray == [text : Text, end : 0..MaxText, use : {"string", "buffer", "pieces"},
              literal : BOOLEAN]

Canonize(sp) == CASE sp = "loose" -> "canon" [] sp = "mixed" -> "bad" [] OTHER -> sp

(* A program without an array of its own has a canonical literal.           *)
Literal == [text |-> [n \in 1..MaxText |-> "canon"], end |-> MaxText, use |-> "string",
            literal |-> TRUE]

KeyInit == /\ Init
           /\ static \in CharArray
           /\ static.use = "pieces" => static.end = 0
           /\ Chars \notin scope => static = Literal
           /\ piece = [k \in Other |-> 0]

(* The lengths a program passes with a pointer, and those strlen finds.     *)
Passed(r) == IF r.data # Static THEN {0, 1}
             ELSE CASE static.use = "buffer" -> {static.end}
                    [] static.use = "pieces" -> 0..MaxText
                    [] OTHER -> {}

Strlen(r) == IF r.data # Static THEN {strlen_or_zero(r.data = Null, n) : n \in {0, 1}}
             ELSE IF static.use = "string" THEN {static.end} ELSE {}

------------------------------------------------------------------------------
(* What canonizing the first n characters in place may leave behind: a      *)
(* canonical text is kept, and so is one that canonization cannot change;   *)
(* the others get no longer, and every prefix may be spelled differently.   *)
Canonizations(n) ==
    LET to == Canonize(static.text[n])
    IN IF to = static.text[n] THEN {[text |-> static.text, len |-> n]}
       ELSE {c \in [text : Text, len : 1..n] : c.text[c.len] = to}

(* The outcomes of keyexpr_create: whether the first n characters are       *)
(* accepted, the length of the result and what they read afterwards.        *)
(* Z_EPARSE for bytes that are not UTF-8 and Z_EINVAL are both refusals.    *)
Outcomes(d, n, canonize) ==
    IF d = Null \/ n = 0 THEN {[text |-> static.text, len |-> 0, ok |-> FALSE]}
    ELSE IF d # Static THEN [text : {static.text}, len : {1}, ok : BOOLEAN]
    ELSE {[text |-> c.text, len |-> c.len, ok |-> c.text[c.len] = "canon"] :
            c \in IF canonize THEN Canonizations(n) ELSE [text : {static.text}, len : {n}]}

(* KeyExpr::Owned with a copy in a new box, or KeyExpr::Borrowed.           *)
KeyText(d, copy) == IF copy THEN NewOwned(1, Fresh) ELSE NewBorrowed(d, 1)

(* Slip: the text is always canonized where it is.                          *)
CanonizeFirst(c, copy) == c.text

(* What keyexpr_create_inner does to the caller's memory: without a copy it *)
(* canonizes in place before it checks, so also when it then fails.         *)
CanonizeInPlace(c, copy) == IF copy THEN static.text ELSE c.text

(* Slip: the caller does not learn that the text has become shorter.        *)
NotTold(d, c, tell) == static.end

(* Where the caller's text ends: after success some functions put NUL at    *)
(* the end of the result or store its length where `len' points.            *)
Told(d, c, tell) == IF tell /\ c.ok /\ d = Static /\ static.use # "pieces"
                    THEN c.len ELSE static.end

Rewritten(d, c, copy, tell) ==
    [static EXCEPT !.text = CanonizeInPlace(c, copy), !.end = Told(d, c, tell)]

(* The result is written, or the gravestone when there is none.             *)
Store(k, ok, s, from, n) ==
    /\ bytes' = [bytes EXCEPT ![k] = IF ok THEN <<s>> ELSE <<>>]
    /\ loans' = [loans EXCEPT ![k] = IF ok THEN from ELSE {}]
    /\ piece' = [piece EXCEPT ![k] = IF ok /\ s.data = Static THEN n ELSE 0]

keyexpr_create(k, r, n, canonize, copy, tell) ==
    /\ ~Lent(k)
    /\ copy => Len(mem) < MaxCells
    /\ \E c \in Outcomes(r.data, n, canonize) :
          /\ Store(k, c.ok, KeyText(r.data, copy), IF copy THEN {} ELSE r.from, c.len)
          /\ mem' = IF c.ok /\ copy THEN Boxes(1) ELSE mem
          /\ static' = Rewritten(r.data, c, copy, tell)
    /\ UNCHANGED <<slice, view, array, open>>

(* Owned key expressions are constructed into variables that hold nothing.  *)
z_keyexpr_from_substr(k, r, n) ==
    k \in Key /\ bytes[k] = <<>> /\ keyexpr_create(k, r, n, FALSE, TRUE, FALSE)

z_keyexpr_from_str(k, r, n) == z_keyexpr_from_substr(k, r, n)

(* `len' is set to the length of the copy, whose text the caller has not.   *)
z_keyexpr_from_substr_autocanonize(k, r, n) ==
    k \in Key /\ bytes[k] = <<>> /\ keyexpr_create(k, r, n, TRUE, TRUE, TRUE)

z_keyexpr_from_str_autocanonize(k, r, n) ==
    k \in Key /\ bytes[k] = <<>> /\ keyexpr_create(k, r, n, TRUE, TRUE, FALSE)

z_view_keyexpr_from_substr(q, r, n) ==
    q \in KeyView /\ keyexpr_create(q, r, n, FALSE, FALSE, FALSE)

z_view_keyexpr_from_str(q, r, n) == z_view_keyexpr_from_substr(q, r, n)

(* The functions that write to the caller's string get writable memory.     *)
Writable(r) == r.data = Null \/ (r.data = Static /\ ~static.literal)

z_view_keyexpr_from_substr_autocanonize(q, r, n) ==
    q \in KeyView /\ Writable(r) /\ keyexpr_create(q, r, n, TRUE, FALSE, TRUE)

z_view_keyexpr_from_str_autocanonize(q, r, n) ==
    z_view_keyexpr_from_substr_autocanonize(q, r, n)

z_keyexpr_canonize(r, n) ==
    /\ r.data = Static /\ Writable(r)
    /\ \E c \in Outcomes(r.data, n, TRUE) : static' = Rewritten(r.data, c, FALSE, TRUE)
    /\ UNCHANGED <<mem, slice, view, array, bytes, open, loans, piece>>

z_keyexpr_canonize_null_terminated(r, n) == z_keyexpr_canonize(r, n)

(* The unchecked constructors rely on the application.                      *)
z_view_keyexpr_from_substr_unchecked(q, r, n) ==
    /\ q \in KeyView /\ ~Lent(q)
    /\ r.data = Static /\ n > 0 => static.text[n] = "canon"
    /\ Store(q, r.data # Null /\ n > 0, KeyText(r.data, FALSE), r.from, n)
    /\ UNCHANGED <<mem, slice, view, array, open, static>>

z_view_keyexpr_from_str_unchecked(q, r, n) == z_view_keyexpr_from_substr_unchecked(q, r, n)

z_view_keyexpr_empty(q) ==
    /\ q \in KeyView /\ ~Lent(q)
    /\ Store(q, FALSE, Gravestone, {}, 0)
    /\ UNCHANGED <<mem, slice, view, array, open, static>>

------------------------------------------------------------------------------
(* Operations on key expressions that exist.                                *)
(* z_keyexpr_clone clones the Rust value: the copy shares what was owned    *)
(* and borrows what was borrowed.  The application keeps what the source    *)
(* borrows from for as long as the copy lives.                              *)
z_keyexpr_clone(k, l) ==
    /\ k \in Key /\ bytes[k] = <<>> /\ ~Lent(k)
    /\ bytes' = [bytes EXCEPT ![k] = bytes[l]]
    /\ loans' = [loans EXCEPT ![k] = loans[l]]
    /\ piece' = [piece EXCEPT ![k] = piece[l]]
    /\ UNCHANGED <<mem, slice, view, array, open, static>>

(* z_keyexpr_concat and z_keyexpr_join: a new text, or a gravestone if the  *)
(* result is no key expression.                                             *)
Combine(k, l) ==
    /\ k \in Key /\ bytes[k] = <<>> /\ ~Lent(k) /\ Len(mem) < MaxCells
    /\ bytes[l] # <<>>
    /\ \E ok \in BOOLEAN : /\ Store(k, ok, NewOwned(1, Fresh), {}, 0)
                           /\ mem' = IF ok THEN Boxes(1) ELSE mem
    /\ UNCHANGED <<slice, view, array, open, static>>

(* KeyExpr::into_owned: a borrowed text is copied.                          *)
IntoOwned(s) == IF s.drop = None THEN NewOwned(1, Fresh) ELSE s

z_declare_keyexpr(k, l) ==
    /\ k \in Key /\ bytes[k] = <<>> /\ ~Lent(k) /\ Len(mem) < MaxCells
    /\ bytes[l] # <<>>
    /\ LET s == IntoOwned(bytes[l][1])
       IN \E ok \in BOOLEAN : /\ Store(k, ok, s, {}, 0)
                              /\ mem' = IF ok /\ s.drop = Fresh THEN Boxes(1) ELSE mem
    /\ UNCHANGED <<slice, view, array, open, static>>

z_keyexpr_drop(k) ==
    /\ k \in Key /\ ~Lent(k)
    /\ Store(k, FALSE, Gravestone, {}, 0)
    /\ mem' = Freed(mem, LastRefs(k))
    /\ UNCHANGED <<slice, view, array, open, static>>

(* The variable is taken in every case; a gravestone is Z_EINVAL.           *)
z_undeclare_keyexpr(k) == z_keyexpr_drop(k)

z_keyexpr_as_view_string(v, l) ==
    /\ bytes[l] # <<>>
    /\ SetView(v, NewBorrowed(bytes[l][1].data, 1), {l} \cup loans[l])
    /\ UNCHANGED <<static, piece>>

------------------------------------------------------------------------------
KeyStep ==
    \/ \E k \in Other \cap scope, r \in Raw :
          \/ \E n \in Passed(r) :
                \/ z_keyexpr_from_substr(k, r, n) \/ z_keyexpr_from_substr_autocanonize(k, r, n)
                \/ z_view_keyexpr_from_substr(k, r, n)
                \/ z_view_keyexpr_from_substr_autocanonize(k, r, n)
                \/ z_view_keyexpr_from_substr_unchecked(k, r, n)
          \/ \E n \in Strlen(r) :
                \/ z_keyexpr_from_str(k, r, n) \/ z_keyexpr_from_str_autocanonize(k, r, n)
                \/ z_view_keyexpr_from_str(k, r, n)
                \/ z_view_keyexpr_from_str_autocanonize(k, r, n)
                \/ z_view_keyexpr_from_str_unchecked(k, r, n)
    \/ \E r \in Raw : /\ Other \cap scope # {}
                      /\ \/ \E n \in Passed(r) : z_keyexpr_canonize(r, n)
                         \/ \E n \in Strlen(r) : z_keyexpr_canonize_null_terminated(r, n)
    \/ \E k, l \in Other \cap scope :
          z_keyexpr_clone(k, l) \/ Combine(k, l) \/ z_declare_keyexpr(k, l)
    \/ \E k \in Other \cap scope :
          z_view_keyexpr_empty(k) \/ z_keyexpr_drop(k) \/ z_undeclare_keyexpr(k)
    \/ \E v \in View \cap scope, l \in Other \cap scope : z_keyexpr_as_view_string(v, l)

KeyNext == /\ UNCHANGED scope
           /\ (Step /\ UNCHANGED <<static, piece>>) \/ KeyStep

KeySpec == KeyInit /\ [][KeyNext]_keyVars

------------------------------------------------------------------------------
(* A key expression that borrows the application's array reads canonical    *)
(* text, although others canonize the array in place, fail halfway, and     *)
(* shorten it: they tell the application where the text ends now, so that   *)
(* nobody rewrites what a view refers to under another length.  Promised to *)
(* programs that use the array as one text, not to those that cut pieces    *)
(* from it.  A view never frees the text it refers to.                      *)
BorrowedIsCanonical ==
    /\ static.use # "pieces" =>
          \A k \in Other : \A s \in ToSet(bytes[k]) :
             s.data = Static => static.text[piece[k]] = "canon"
    /\ \A q \in KeyView : Drops(ToSet(bytes[q])) = {}

(* A string literal is never written: the functions that take a `const      *)
(* char*' canonize a copy.                                                  *)
LiteralIsKept == [][static.literal => static'.text = static.text]_keyVars

------------------------------------------------------------------------------
(* The inductive invariant: that of the memory, that key expressions that   *)
(* hold something hold text, and that one text is borrowed up to its end.   *)
Fits(n, st) == /\ n \in 1..MaxText
               /\ st.use # "pieces" => n = st.end /\ st.text[n] = "canon"

KeyInv == /\ CollectionsInv /\ static \in CharArray /\ piece \in [Other -> 0..MaxText]
          /\ \A k \in Other : \A s \in ToSet(bytes[k]) :
                s.len > 0 /\ (s.data = Static => Fits(piece[k], static))
          /\ \A q \in KeyView : Drops(ToSet(bytes[q])) = {}
=============================================================================
