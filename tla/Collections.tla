----------------------------- MODULE Collections -----------------------------
(* Who owns the memory behind slices, strings, string arrays and payloads   *)
(* (src/src/collections.rs, src/src/zbytes.rs).  Everything is built from   *)
(* one structure, CSlice: a pointer, a length and an optional deleter.  The *)
(* application wraps its own memory with a deleter, copies, views, aliases  *)
(* and moves; the functions decide who runs which deleter and when.         *)
(*                                                                          *)
(* A cell is one allocation: a buffer the application hands over together   *)
(* with the context of its deleter, or a box the library allocates.  Cells  *)
(* are never reused, so that a dangling pointer stays visible.              *)
EXTENDS Integers, Sequences, FiniteSets, SequencesExt

CONSTANTS Slice, String,    \* variables of type z_owned_slice_t, z_owned_string_t
          View,             \* z_view_slice_t and z_view_string_t
          Array,            \* z_owned_string_array_t
          Bytes, Writer,    \* z_owned_bytes_t, z_owned_bytes_writer_t
          Other,            \* variables of other types that share or borrow memory
          Programs,         \* which of these variables a program declares together
          MaxCells,         \* how many allocations a behaviour makes
          MaxStrings,       \* how long arrays grow
          MaxSlices,        \* how many slices payloads and writers refer to
          Null, Static, Dangling, \* pointers: NULL, to static memory, of an empty box
          None              \* no deleter

ASSUME BoundsAssumption ==
    {MaxCells, MaxStrings, MaxSlices} \subseteq Nat

ASSUME PointerAssumption ==
    /\ {Null, Static, Dangling, None} \cap (1..MaxCells) = {}
    /\ Null # Static /\ Null # Dangling

(* A variable has one type.                                                 *)
ASSUME VariablesAssumption ==
    /\ (Slice \cup String) \cap (View \cup Array \cup Bytes \cup Writer \cup Other) = {}
    /\ View \cap (Array \cup Bytes \cup Writer \cup Other) = {}
    /\ Array \cap (Bytes \cup Writer \cup Other) = {}
    /\ Bytes \cap (Writer \cup Other) = {} /\ Writer \cap Other = {}

VARIABLES scope,  \* the variables of the program at hand
          mem,    \* the cells allocated so far and whether they have been freed
          slice,  \* the owned slices and strings
          view,   \* the views, which own nothing
          array,  \* the string arrays
          bytes,  \* the slices each payload, writer or other refers to, shared by clones
          open,   \* the writers that hold Some
          loans   \* whose memory the application knows a borrower points to
vars == <<scope, mem, slice, view, array, bytes, open, loans>>

Owned == Slice \cup String
Payload == Bytes \cup Writer \cup Other
Borrower == View \cup Array \cup Other
Cell == 1..MaxCells
Pointer == Cell \cup {Null, Static, Dangling}

(* struct CSlice; `drop' names the cell the deleter frees.                  *)
CSlice == [data : Pointer, len : {0, 1}, drop : Cell \cup {None}]

Gravestone == [data |-> Null, len |-> 0, drop |-> None]

(* Two memory outcomes of a deleter: the first call frees, a second is the  *)
(* error the properties look for.                                           *)
Freed(m, cells) == [c \in DOMAIN m |-> IF c \notin cells THEN m[c]
                                       ELSE IF m[c] = "live" THEN "freed" ELSE "twice"]

(* The cells that the drop of some CSlices frees.                           *)
Drops(ss) == {s.drop : s \in ss} \ {None}

Fresh == Len(mem) + 1

------------------------------------------------------------------------------
(* The constructors of CSlice.  The application passes NULL or not, a       *)
(* length, and a deleter or not; a buffer with a deleter is a new cell, one *)
(* without is static memory.                                                *)
Refused(null, n) == null /\ n > 0

New(null, n, del) ==
    IF Refused(null, n) THEN Gravestone
    ELSE [data |-> IF null THEN Null ELSE IF del THEN Fresh ELSE Static,
          len |-> n, drop |-> IF del THEN Fresh ELSE None]

(* What the application still owns after Z_EINVAL is not a cell.            *)
HandedOver(null, n, del) ==
    IF del /\ ~Refused(null, n) THEN Append(mem, "live") ELSE mem

NewBorrowed(d, n) ==
    IF Refused(d = Null, n) THEN Gravestone ELSE [data |-> d, len |-> n, drop |-> None]

(* new_owned_unchecked: a copy in a new box, and nothing at all for a       *)
(* length of 0.                                                             *)
NewOwned(n, c) == IF n = 0 THEN Gravestone ELSE [data |-> c, len |-> n, drop |-> c]
Boxes(k) == mem \o [i \in 1..k |-> "live"]

(* From<Vec<u8>>: a box of no bytes has a pointer, but frees nothing.       *)
FromVec(n, c) == IF n = 0 THEN [data |-> Dangling, len |-> 0, drop |-> None]
                 ELSE [data |-> c, len |-> n, drop |-> c]

CloneToOwned(s, c) == NewOwned(s.len, c)
(* Slip: the whole structure is copied.                                     *)
CloneToBorrowedWithDrop(s) == s

CloneToBorrowed(s) == [s EXCEPT !.drop = None]

strlen_or_zero(null, n) == IF null THEN 0 ELSE n

------------------------------------------------------------------------------
(* What the application may do: construct only into variables that own      *)
(* nothing, and neither move nor drop what it has lent.                     *)
Lent(x) == \E b \in Borrower : x \in loans[b]

(* References the application can pass where a z_loaned_string_t or a       *)
(* z_loaned_slice_t is expected, with the variables they depend on.         *)
Loaned == {[s |-> slice[x], from |-> {x}] : x \in Owned}
            \cup {[s |-> view[v], from |-> loans[v]] : v \in View}
            \cup UNION {{[s |-> array[a][i], from |-> {a}] : i \in DOMAIN array[a]} : a \in Array}

(* Pointers it can pass: NULL, static memory, what z_string_data returns.   *)
Raw == {[data |-> d, from |-> {}] : d \in {Null, Static}}
         \cup {[data |-> slice[x].data, from |-> {x}] : x \in {y \in Owned : slice[y].len > 0}}

Init == /\ scope \in Programs
        /\ mem = <<>>
        /\ slice = [x \in Owned |-> Gravestone]
        /\ view = [v \in View |-> Gravestone]
        /\ array = [a \in Array |-> <<>>]
        /\ bytes = [p \in Payload |-> <<>>]
        /\ open = {}
        /\ loans = [b \in Borrower |-> {}]

------------------------------------------------------------------------------
(* Owned slices and strings.                                                *)
Wrap(x, null, n, del) ==
    /\ slice[x] = Gravestone /\ Len(mem) < MaxCells
    /\ slice' = [slice EXCEPT ![x] = New(null, n, del)]
    /\ mem' = HandedOver(null, n, del)
    /\ UNCHANGED <<view, array, bytes, open, loans>>

z_slice_from_buf(x, null, n, del) == x \in Slice /\ Wrap(x, null, n, del)

z_string_from_str(x, null, n, del) ==
    x \in String /\ Wrap(x, null, strlen_or_zero(null, n), del)

Copy(x, null, n) ==
    /\ slice[x] = Gravestone /\ Len(mem) < MaxCells
    /\ slice' = [slice EXCEPT ![x] = IF Refused(null, n) THEN Gravestone ELSE NewOwned(n, Fresh)]
    /\ mem' = Boxes(IF null THEN 0 ELSE n)
    /\ UNCHANGED <<view, array, bytes, open, loans>>

z_slice_copy_from_buf(x, null, n) == x \in Slice /\ Copy(x, null, n)

z_string_copy_from_substr(x, null, n) == x \in String /\ Copy(x, null, n)

z_string_copy_from_str(x, null, n) ==
    z_string_copy_from_substr(x, null, strlen_or_zero(null, n))

(* z_slice_clone and z_string_clone: a deep copy of whatever is lent.       *)
Clone(x, s) ==
    /\ slice[x] = Gravestone /\ Len(mem) < MaxCells
    /\ slice' = [slice EXCEPT ![x] = CloneToOwned(s, Fresh)]
    /\ mem' = Boxes(s.len)
    /\ UNCHANGED <<view, array, bytes, open, loans>>

z_slice_clone(x, s) == x \in Slice /\ Clone(x, s)

z_string_clone(x, s) == x \in String /\ Clone(x, s)

(* Slip: only what z_internal_slice_check calls valid is dropped.           *)
DropSliceIfNotEmpty(x) ==
    /\ ~Lent(x)
    /\ slice' = [slice EXCEPT ![x] = Gravestone]
    /\ mem' = IF slice[x].len = 0 THEN mem ELSE Freed(mem, Drops({slice[x]}))
    /\ UNCHANGED <<view, array, bytes, open, loans>>

(* impl Drop for CSlice, after the variable became a gravestone.            *)
DropSlice(x) ==
    /\ ~Lent(x)
    /\ slice' = [slice EXCEPT ![x] = Gravestone]
    /\ mem' = Freed(mem, Drops({slice[x]}))
    /\ UNCHANGED <<view, array, bytes, open, loans>>

z_slice_drop(x) == x \in Slice /\ DropSlice(x)

z_string_drop(x) == x \in String /\ DropSlice(x)

------------------------------------------------------------------------------
(* Views.                                                                   *)
SetView(v, s, from) ==
    /\ view' = [view EXCEPT ![v] = s]
    /\ loans' = [loans EXCEPT ![v] = from]
    /\ UNCHANGED <<mem, slice, array, bytes, open>>

z_view_slice_from_buf(v, d, n) == SetView(v, NewBorrowed(d.data, n), d.from)

z_view_string_from_substr(v, d, n) == SetView(v, NewBorrowed(d.data, n), d.from)

z_view_string_from_str(v, d, n) ==
    SetView(v, NewBorrowed(d.data, strlen_or_zero(d.data = Null, n)), d.from)

z_view_slice_empty(v) == SetView(v, Gravestone, {})

z_view_string_empty(v) == SetView(v, Gravestone, {})

(* z_bytes_get_contiguous_view: only for payloads of at most one slice; the *)
(* view is not written otherwise.                                           *)
z_bytes_get_contiguous_view(v, p) ==
    /\ Len(bytes[p]) <= 1
    /\ SetView(v, IF bytes[p] = <<>> THEN [data |-> Dangling, len |-> 0, drop |-> None]
                  ELSE CloneToBorrowed(bytes[p][1]), {p})

(* z_bytes_slice_iterator_next: a view of one of the slices.                *)
z_bytes_slice_iterator_next(v, p) ==
    \E i \in DOMAIN bytes[p] : SetView(v, CloneToBorrowed(bytes[p][i]), {p})

------------------------------------------------------------------------------
(* String arrays.                                                           *)
z_string_array_push_by_copy(a, s) ==
    /\ Len(array[a]) < MaxStrings /\ Len(mem) < MaxCells
    /\ array' = [array EXCEPT ![a] = Append(@, CloneToOwned(s, Fresh))]
    /\ mem' = Boxes(s.len)
    /\ UNCHANGED <<slice, view, bytes, open, loans>>

z_string_array_push_by_alias(a, r) ==
    /\ Len(array[a]) < MaxStrings /\ a \notin r.from
    /\ array' = [array EXCEPT ![a] = Append(@, CloneToBorrowed(r.s))]
    /\ loans' = [loans EXCEPT ![a] = @ \cup r.from]
    /\ UNCHANGED <<mem, slice, view, bytes, open>>

(* Slip: the clone of an array borrows.                                     *)
CloneElementsBorrowed(ss) == [i \in DOMAIN ss |-> CloneToBorrowed(ss[i])]

(* The elements whose clone needs a box.                                    *)
NonEmpty(ss) == {i \in DOMAIN ss : ss[i].len > 0}

(* The derived Clone of the vector clones each element into a new box.      *)
CloneElements(ss) ==
    [i \in DOMAIN ss |->
        CloneToOwned(ss[i], Len(mem) + Cardinality({j \in 1..i : ss[j].len > 0}))]

z_string_array_clone(a, b) ==
    LET k == Cardinality(NonEmpty(array[b]))
    IN  /\ array[a] = <<>> /\ Len(mem) + k <= MaxCells
        /\ array' = [array EXCEPT ![a] = CloneElements(array[b])]
        /\ mem' = Boxes(k)
        /\ UNCHANGED <<slice, view, bytes, open, loans>>

z_string_array_drop(a) ==
    /\ ~Lent(a)
    /\ array' = [array EXCEPT ![a] = <<>>]
    /\ mem' = Freed(mem, Drops(ToSet(array[a])))
    /\ loans' = [loans EXCEPT ![a] = {}]
    /\ UNCHANGED <<slice, view, bytes, open>>

------------------------------------------------------------------------------
(* Payloads.  ZBytes keeps reference-counted slices; a clone shares them,   *)
(* the last one to go drops them, and an empty slice is not kept.           *)
Kept(s) == IF s.len = 0 THEN <<>> ELSE <<s>>

LastRefs(p) == Drops(ToSet(bytes[p])) \ UNION {Drops(ToSet(bytes[q])) : q \in Payload \ {p}}

(* From<CSlice> for ZBytes; m is the memory with the slice still in it.     *)
FromCSlice(p, s, m) ==
    /\ bytes[p] = <<>> /\ ~Lent(p)
    /\ bytes' = [bytes EXCEPT ![p] = Kept(s)]
    /\ mem' = IF s.len = 0 THEN Freed(m, Drops({s})) ELSE m

(* Slip: the moved variable is read and not replaced.                       *)
MoveInByReading(p, x) ==
    /\ ~Lent(x)
    /\ FromCSlice(p, slice[x], mem)
    /\ UNCHANGED <<slice, view, array, open, loans>>

MoveIn(p, x) ==
    /\ ~Lent(x)
    /\ FromCSlice(p, slice[x], mem)
    /\ slice' = [slice EXCEPT ![x] = Gravestone]
    /\ UNCHANGED <<view, array, open, loans>>

z_bytes_from_slice(p, x) == x \in Slice /\ MoveIn(p, x)

z_bytes_from_string(p, x) == x \in String /\ MoveIn(p, x)

WrapIn(p, null, n, del) ==
    /\ Len(mem) < MaxCells
    /\ FromCSlice(p, New(null, n, del), HandedOver(null, n, del))
    /\ UNCHANGED <<slice, view, array, open, loans>>

z_bytes_from_buf(p, null, n, del) == WrapIn(p, null, n, del)

z_bytes_from_static_buf(p, null, n) == WrapIn(p, null, n, FALSE)

z_bytes_from_str(p, null, n, del) == WrapIn(p, null, strlen_or_zero(null, n), del)

z_bytes_from_static_str(p, null, n) == WrapIn(p, null, strlen_or_zero(null, n), FALSE)

CopyIn(p, null, n) ==
    /\ Len(mem) < MaxCells
    /\ FromCSlice(p, IF Refused(null, n) THEN Gravestone ELSE NewOwned(n, Fresh),
                  Boxes(IF null THEN 0 ELSE n))
    /\ UNCHANGED <<slice, view, array, open, loans>>

z_bytes_copy_from_buf(p, null, n) == CopyIn(p, null, n)

z_bytes_copy_from_str(p, null, n) == CopyIn(p, null, strlen_or_zero(null, n))

z_bytes_copy_from_slice(p, s) ==
    /\ Len(mem) < MaxCells
    /\ FromCSlice(p, CloneToOwned(s, Fresh), Boxes(s.len))
    /\ UNCHANGED <<slice, view, array, open, loans>>

z_bytes_copy_from_string(p, s) == z_bytes_copy_from_slice(p, s)

z_bytes_clone(p, q) ==
    /\ bytes[p] = <<>> /\ ~Lent(p)
    /\ bytes' = [bytes EXCEPT ![p] = bytes[q]]
    /\ UNCHANGED <<mem, slice, view, array, open, loans>>

z_bytes_drop(p) ==
    /\ ~Lent(p)
    /\ bytes' = [bytes EXCEPT ![p] = <<>>]
    /\ mem' = Freed(mem, LastRefs(p))
    /\ UNCHANGED <<slice, view, array, open, loans>>

(* z_bytes_to_slice and z_bytes_to_string copy into a new vector; text that *)
(* is not UTF-8 leaves a gravestone.                                        *)
CopyOut(x, p) ==
    LET n == IF bytes[p] = <<>> THEN 0 ELSE 1
    IN  /\ slice[x] = Gravestone /\ Len(mem) < MaxCells
        /\ slice' = [slice EXCEPT ![x] = FromVec(n, Fresh)]
        /\ mem' = Boxes(n)
        /\ UNCHANGED <<view, array, bytes, open, loans>>

z_bytes_to_slice(x, p) == x \in Slice /\ CopyOut(x, p)

z_bytes_to_string(x, p) ==
    /\ x \in String
    /\ \/ CopyOut(x, p)
       \/ slice[x] = Gravestone /\ bytes[p] # <<>> /\ UNCHANGED vars

------------------------------------------------------------------------------
(* Writers.  A writer is a payload under construction.                      *)
z_bytes_writer_empty(w) ==
    /\ w \notin open
    /\ open' = open \cup {w}
    /\ UNCHANGED <<mem, slice, view, array, bytes, loans>>

z_bytes_writer_write_all(w) ==
    /\ w \in open /\ Len(bytes[w]) < MaxSlices /\ Len(mem) < MaxCells
    /\ bytes' = [bytes EXCEPT ![w] = Append(@, FromVec(1, Fresh))]
    /\ mem' = Boxes(1)
    /\ UNCHANGED <<slice, view, array, open, loans>>

z_bytes_writer_append(w, p) ==
    /\ w \in open /\ ~Lent(p) /\ Len(bytes[w]) + Len(bytes[p]) <= MaxSlices
    /\ bytes' = [bytes EXCEPT ![w] = @ \o bytes[p], ![p] = <<>>]
    /\ UNCHANGED <<mem, slice, view, array, open, loans>>

z_bytes_writer_finish(w, p) ==
    /\ w \in open /\ bytes[p] = <<>> /\ ~Lent(p)
    /\ bytes' = [bytes EXCEPT ![p] = bytes[w], ![w] = <<>>]
    /\ open' = open \ {w}
    /\ UNCHANGED <<mem, slice, view, array, loans>>

z_bytes_writer_drop(w) ==
    /\ w \in open
    /\ bytes' = [bytes EXCEPT ![w] = <<>>]
    /\ mem' = Freed(mem, LastRefs(w))
    /\ open' = open \ {w}
    /\ UNCHANGED <<slice, view, array, loans>>

------------------------------------------------------------------------------
Step ==
    \/ \E x \in Owned \cap scope, null, del \in BOOLEAN, n \in {0, 1} :
          \/ z_slice_from_buf(x, null, n, del)
          \/ z_string_from_str(x, null, n, del)
    \/ \E x \in Owned \cap scope, null \in BOOLEAN, n \in {0, 1} :
          \/ z_slice_copy_from_buf(x, null, n)
          \/ z_string_copy_from_substr(x, null, n)
          \/ z_string_copy_from_str(x, null, n)
    \/ \E x \in Owned \cap scope, r \in Loaned : z_slice_clone(x, r.s) \/ z_string_clone(x, r.s)
    \/ \E x \in Owned \cap scope : z_slice_drop(x) \/ z_string_drop(x)
    \/ \E v \in View \cap scope, d \in Raw, n \in {0, 1} :
          \/ z_view_slice_from_buf(v, d, n)
          \/ z_view_string_from_substr(v, d, n)
          \/ z_view_string_from_str(v, d, n)
    \/ \E v \in View \cap scope : z_view_slice_empty(v) \/ z_view_string_empty(v)
    \/ \E v \in View \cap scope, p \in Bytes \cap scope :
          z_bytes_get_contiguous_view(v, p) \/ z_bytes_slice_iterator_next(v, p)
    \/ \E a \in Array \cap scope, r \in Loaned :
          z_string_array_push_by_copy(a, r.s) \/ z_string_array_push_by_alias(a, r)
    \/ \E a, b \in Array \cap scope : z_string_array_clone(a, b)
    \/ \E a \in Array \cap scope : z_string_array_drop(a)
    \/ \E p \in Bytes \cap scope, x \in Owned \cap scope :
          \/ z_bytes_from_slice(p, x) \/ z_bytes_from_string(p, x)
          \/ z_bytes_to_slice(x, p) \/ z_bytes_to_string(x, p)
    \/ \E p \in Bytes \cap scope, null, del \in BOOLEAN, n \in {0, 1} :
          z_bytes_from_buf(p, null, n, del) \/ z_bytes_from_str(p, null, n, del)
    \/ \E p \in Bytes \cap scope, null \in BOOLEAN, n \in {0, 1} :
          \/ z_bytes_from_static_buf(p, null, n) \/ z_bytes_from_static_str(p, null, n)
          \/ z_bytes_copy_from_buf(p, null, n) \/ z_bytes_copy_from_str(p, null, n)
    \/ \E p \in Bytes \cap scope, r \in Loaned :
          z_bytes_copy_from_slice(p, r.s) \/ z_bytes_copy_from_string(p, r.s)
    \/ \E p, q \in Bytes \cap scope : z_bytes_clone(p, q)
    \/ \E p \in Bytes \cap scope : z_bytes_drop(p)
    \/ \E w \in Writer \cap scope :
          \/ z_bytes_writer_empty(w) \/ z_bytes_writer_write_all(w)
          \/ z_bytes_writer_drop(w)
    \/ \E w \in Writer \cap scope, p \in Bytes \cap scope :
          z_bytes_writer_append(w, p) \/ z_bytes_writer_finish(w, p)

Next == Step /\ UNCHANGED scope

Spec == Init /\ [][Next]_vars

------------------------------------------------------------------------------
(* Everything that points to memory, by the place that holds it.            *)
Elements == UNION {ToSet(array[a]) : a \in Array}
Blocks == UNION {ToSet(bytes[p]) : p \in Payload}
Places == {slice[x] : x \in Owned} \cup {view[v] : v \in View} \cup Elements \cup Blocks

(* How many places will run the deleter of a cell; the payloads that share  *)
(* a slice are one place.                                                   *)
Owners(c) ==
    Cardinality({x \in Owned : slice[x].drop = c})
    + Cardinality({e \in Array \X (1..MaxStrings) :
                      e[2] \in DOMAIN array[e[1]] /\ array[e[1]][e[2]].drop = c})
    + (IF \E s \in Blocks : s.drop = c THEN 1 ELSE 0)

(* The variables have their types; a view never has a deleter and a writer  *)
(* that was finished or dropped refers to nothing.                          *)
TypeOK ==
    /\ scope \in Programs
    /\ mem \in Seq({"live", "freed", "twice"}) /\ Len(mem) <= MaxCells
    /\ slice \in [Owned -> CSlice]
    /\ view \in [View -> CSlice] /\ \A v \in View : view[v].drop = None
    /\ array \in [Array -> Seq(CSlice)]
    /\ bytes \in [Payload -> Seq(CSlice)]
    /\ open \subseteq Writer /\ \A w \in Writer \ open : bytes[w] = <<>>
    /\ loans \in [Borrower -> SUBSET (Owned \cup Array \cup Bytes \cup Other)]

(* "A thread-safe delete function to free the `data`. Will be called once": *)
(* through copies, clones, aliases, moves into payloads and appends, no     *)
(* memory has two owners, is freed twice or is owned after it was freed.    *)
FreedOnce ==
    \A c \in DOMAIN mem : /\ mem[c] # "twice"
                          /\ Owners(c) <= (IF mem[c] = "live" THEN 1 ELSE 0)

(* Whatever can still be read through a variable, a view, an element of an  *)
(* array or a payload is live, as long as the application respects its own  *)
(* loans: owned copies survive what they were copied from, shallow copies   *)
(* of a payload survive each other.                                         *)
ReadableIsLive ==
    \A s \in Places : s.len > 0 => /\ s.data # Null
                                   /\ s.data \in Cell => mem[s.data] = "live"

(* Nothing leaks: live memory always has an owner whose drop frees it, also *)
(* memory of no bytes, NULL with a context, and what an empty payload was   *)
(* made of.                                                                 *)
NothingLeaks == \A c \in DOMAIN mem : mem[c] = "live" => Owners(c) >= 1

------------------------------------------------------------------------------
(* The inductive invariant.  Who runs the deleter of a cell:                *)
Index == 1..MaxStrings
SliceOwns(x, c) == slice[x].drop = c
ElementOwns(a, i, c) == i \in DOMAIN array[a] /\ array[a][i].drop = c
BlockOwns(p, c) == \E i \in DOMAIN bytes[p] : bytes[p][i].drop = c

LiveCell(c) == c \in DOMAIN mem /\ mem[c] = "live"

(* A cell that is live has one owner, every other has none.                 *)
OneOwner(c) ==
    /\ LiveCell(c) <=> \/ \E x \in Owned : SliceOwns(x, c)
                       \/ \E a \in Array, i \in Index : ElementOwns(a, i, c)
                       \/ \E p \in Payload : BlockOwns(p, c)
    /\ \A x, y \in Owned : SliceOwns(x, c) /\ SliceOwns(y, c) => x = y
    /\ \A a, b \in Array, i, j \in Index :
          ElementOwns(a, i, c) /\ ElementOwns(b, j, c) => a = b /\ i = j
    /\ \A x \in Owned, a \in Array, i \in Index : ~(SliceOwns(x, c) /\ ElementOwns(a, i, c))
    /\ \A x \in Owned, p \in Payload : ~(SliceOwns(x, c) /\ BlockOwns(p, c))
    /\ \A a \in Array, i \in Index, p \in Payload : ~(ElementOwns(a, i, c) /\ BlockOwns(p, c))

CellsAreOwnedOnce == /\ \A c \in DOMAIN mem : mem[c] \in {"live", "freed"}
                     /\ \A c \in Cell : OneOwner(c)

(* A place with a deleter owns the memory it shows; one without borrows it. *)
Coherent(s) == s.len > 0 => s.data # Null /\ s.drop \in {None, s.data}
Borrowed(s) == s.len > 0 /\ s.data \in Cell /\ s.drop = None

PlacesAreCoherent ==
    /\ \A x \in Owned : Coherent(slice[x]) /\ ~Borrowed(slice[x])
    /\ \A v \in View : Coherent(view[v])
    /\ \A a \in Array : \A i \in DOMAIN array[a] : Coherent(array[a][i])
    /\ \A p \in Payload : \A i \in DOMAIN bytes[p] : Coherent(bytes[p][i])
    /\ \A p \in Bytes \cup Writer : \A i \in DOMAIN bytes[p] : ~Borrowed(bytes[p][i])

(* The variables whose memory can be borrowed, and what they own.           *)
Lender == Owned \cup Array \cup Bytes \cup Other
Owns(o, c) == \/ o \in Owned /\ SliceOwns(o, c)
              \/ o \in Array /\ \E i \in Index : ElementOwns(o, i, c)
              \/ o \in Bytes \cup Other /\ BlockOwns(o, c)

(* A loan holds together with everything the lender itself borrows.  A set  *)
(* that is closed under that and contains L has an owner of c: whoever      *)
(* keeps L, and all that L depends on, keeps c.                             *)
Closed(D) == \A b \in D \cap Borrower : loans[b] \subseteq D
Secured(L, c) == \A D \in SUBSET Lender : Closed(D) /\ L \subseteq D => \E o \in D : Owns(o, c)

SecuredView(v) == Borrowed(view[v]) => Secured(loans[v], view[v].data)
SecuredArray(a) == \A i \in DOMAIN array[a] :
                      Borrowed(array[a][i]) => Secured(loans[a], array[a][i].data)
SecuredOther(k) == \A i \in DOMAIN bytes[k] :
                      Borrowed(bytes[k][i]) => Secured(loans[k], bytes[k][i].data)

BorrowsAreSecured == /\ \A v \in View : SecuredView(v)
                     /\ \A a \in Array : SecuredArray(a)
                     /\ \A k \in Other : SecuredOther(k)

CollectionsInv ==
    /\ TypeOK /\ \A a \in Array : Len(array[a]) <= MaxStrings
    /\ CellsAreOwnedOnce /\ PlacesAreCoherent /\ BorrowsAreSecured
=============================================================================
