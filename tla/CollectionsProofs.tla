-------------------------- MODULE CollectionsProofs --------------------------
(* For any number of variables, cells and strings: the memory behind        *)
(* slices, strings, arrays, payloads, writers and key expressions is freed  *)
(* once, by its only owner, and never read afterwards, whatever is copied,  *)
(* aliased, shared, moved or dropped; key expressions that borrow the       *)
(* application's text are canonical, and its literals are not written.      *)
EXTENDS KeyExpr, FiniteSetTheorems, SequenceTheorems, TLAPS

(* The shapes that operations give to a new CSlice and to the memory.       *)
Grown(m, k) ==
    /\ m \in Seq({"live", "freed", "twice"}) /\ Len(m) = Len(mem) + k /\ Len(m) <= MaxCells
    /\ \A c \in 1..Len(mem) : m[c] = mem[c]
    /\ \A c \in Len(mem) + 1..Len(m) : m[c] = "live"

Made(s, m) ==
    /\ s \in CSlice /\ Coherent(s) /\ ~Borrowed(s)
    /\ \/ s.drop = None /\ Grown(m, 0)
       \/ s.drop = Fresh /\ Grown(m, 1)

------------------------------------------------------------------------------
(* Memory.                                                                  *)
LEMMA Pointers ==
  /\ None \notin Cell /\ Null \notin Cell /\ Static \notin Cell /\ Dangling \notin Cell
  /\ Null # Static /\ Null # Dangling
  /\ Cell \subseteq Nat /\ MaxCells \in Nat /\ MaxStrings \in Nat
  /\ Gravestone \in CSlice /\ Gravestone.drop = None /\ Gravestone.len = 0
  /\ Gravestone.data = Null
BY PointerAssumption, BoundsAssumption DEF Cell, Gravestone, CSlice, Pointer

LEMMA MemoryDomain ==
  ASSUME TypeOK
  PROVE  /\ Len(mem) \in Nat /\ DOMAIN mem = 1..Len(mem)
         /\ DOMAIN mem \subseteq Cell
         /\ Fresh = Len(mem) + 1 /\ Fresh \notin DOMAIN mem
BY LenProperties, BoundsAssumption DEF TypeOK, Cell, Fresh

LEMMA BoxesGrow ==
  ASSUME TypeOK, NEW k \in Nat, Len(mem) + k <= MaxCells
  PROVE  Grown(Boxes(k), k)
<1> DEFINE S == {"live", "freed", "twice"}
           b == [i \in 1..k |-> "live"]
<1>1. b \in Seq(S) /\ Len(b) = k
  <2>1. b \in [1..k -> S]
    OBVIOUS
  <2>2. b \in Seq(S)
    BY <2>1, SeqDef
  <2>. QED BY <2>2, LenProperties
<1>2. mem \in Seq(S)
  BY DEF TypeOK
<1>3. /\ mem \o b \in Seq(S) /\ Len(mem \o b) = Len(mem) + k
      /\ \A i \in 1 .. Len(mem) + k : (mem \o b)[i] = IF i <= Len(mem) THEN mem[i] ELSE b[i - Len(mem)]
  BY <1>1, <1>2, ConcatProperties
<1>. QED BY <1>3, <1>1, MemoryDomain DEF Grown, Boxes

LEMMA FreedMemory ==
  ASSUME NEW m \in Seq({"live", "freed", "twice"}), NEW F
  PROVE  /\ Freed(m, F) \in Seq({"live", "freed", "twice"}) /\ Len(Freed(m, F)) = Len(m)
         /\ DOMAIN Freed(m, F) = DOMAIN m
         /\ \A c \in DOMAIN m : Freed(m, F)[c] = IF c \notin F THEN m[c]
                                     ELSE IF m[c] = "live" THEN "freed" ELSE "twice"
<1> DEFINE S == {"live", "freed", "twice"}
           f == Freed(m, F)
<1>1. DOMAIN m = 1..Len(m) /\ Len(m) \in Nat /\ \A i \in 1..Len(m) : m[i] \in S
  BY LenProperties, ElementOfSeq
<1>2. f \in [1..Len(m) -> S]
  BY <1>1 DEF Freed
<1>3. f \in Seq(S) /\ DOMAIN f = 1..Len(m)
  BY <1>1, <1>2, SeqDef
<1>4. Len(f) = Len(m)
  BY <1>1, <1>3, LenProperties
<1>. QED BY <1>1, <1>3, <1>4 DEF Freed

------------------------------------------------------------------------------
(* The owners of one cell after a step.                                     *)
LEMMA SharedOwners ==
  ASSUME NEW c \in Cell, OneOwner(c), LiveCell(c)' <=> LiveCell(c),
         \A x \in Owned : SliceOwns(x, c)' <=> SliceOwns(x, c),
         \A a \in Array, i \in Index : ElementOwns(a, i, c)' <=> ElementOwns(a, i, c),
         (\E p \in Payload : BlockOwns(p, c)') <=> \E p \in Payload : BlockOwns(p, c)
  PROVE  OneOwner(c)'
BY DEF OneOwner

LEMMA SameOwners ==
  ASSUME NEW c \in Cell, OneOwner(c), LiveCell(c)' <=> LiveCell(c),
         \A x \in Owned : SliceOwns(x, c)' <=> SliceOwns(x, c),
         \A a \in Array, i \in Index : ElementOwns(a, i, c)' <=> ElementOwns(a, i, c),
         \A p \in Payload : BlockOwns(p, c)' <=> BlockOwns(p, c)
  PROVE  OneOwner(c)'
BY SharedOwners

LEMMA NoOwner ==
  ASSUME NEW c \in Cell, ~LiveCell(c)', \A x \in Owned : ~SliceOwns(x, c)',
         \A a \in Array, i \in Index : ~ElementOwns(a, i, c)', \A p \in Payload : ~BlockOwns(p, c)'
  PROVE  OneOwner(c)'
BY DEF OneOwner

LEMMA SliceIsOwner ==
  ASSUME NEW c \in Cell, LiveCell(c)', NEW x \in Owned,
         \A y \in Owned : SliceOwns(y, c)' <=> y = x,
         \A a \in Array, i \in Index : ~ElementOwns(a, i, c)', \A p \in Payload : ~BlockOwns(p, c)'
  PROVE  OneOwner(c)'
BY DEF OneOwner

LEMMA ElementIsOwner ==
  ASSUME NEW c \in Cell, LiveCell(c)', NEW a \in Array, NEW i \in Index,
         \A x \in Owned : ~SliceOwns(x, c)',
         \A b \in Array, j \in Index : ElementOwns(b, j, c)' <=> b = a /\ j = i,
         \A p \in Payload : ~BlockOwns(p, c)'
  PROVE  OneOwner(c)'
BY DEF OneOwner

LEMMA BlocksAreOwner ==
  ASSUME NEW c \in Cell, LiveCell(c)', NEW p \in Payload, BlockOwns(p, c)',
         \A x \in Owned : ~SliceOwns(x, c)',
         \A a \in Array, i \in Index : ~ElementOwns(a, i, c)'
  PROVE  OneOwner(c)'
BY DEF OneOwner

(* What one owner excludes.                                                 *)
LEMMA Exclusive ==
  ASSUME CollectionsInv, NEW c \in Cell
  PROVE  /\ OneOwner(c)
         /\ ~LiveCell(c) => /\ \A x \in Owned : ~SliceOwns(x, c)
                            /\ \A a \in Array, i \in Index : ~ElementOwns(a, i, c)
                            /\ \A p \in Payload : ~BlockOwns(p, c)
         /\ \A x \in Owned : SliceOwns(x, c) =>
              /\ LiveCell(c) /\ \A y \in Owned : SliceOwns(y, c) => y = x
              /\ \A a \in Array, i \in Index : ~ElementOwns(a, i, c)
              /\ \A p \in Payload : ~BlockOwns(p, c)
         /\ \A a \in Array, i \in Index : ElementOwns(a, i, c) =>
              /\ LiveCell(c) /\ \A x \in Owned : ~SliceOwns(x, c)
              /\ \A b \in Array, j \in Index : ElementOwns(b, j, c) => b = a /\ j = i
              /\ \A p \in Payload : ~BlockOwns(p, c)
         /\ \A p \in Payload : BlockOwns(p, c) =>
              /\ LiveCell(c) /\ \A x \in Owned : ~SliceOwns(x, c)
              /\ \A a \in Array, i \in Index : ~ElementOwns(a, i, c)
<1>1. OneOwner(c)
  BY DEF CollectionsInv, CellsAreOwnedOnce
<1>. QED BY <1>1 DEF OneOwner

(* A cell that a step does not touch keeps its state.                       *)
LEMMA GrownCells ==
  ASSUME CollectionsInv, NEW k \in Nat, Grown(mem', k)
  PROVE  /\ \A c \in DOMAIN mem' : mem'[c] \in {"live", "freed"}
         /\ \A c \in Cell : c \notin Len(mem) + 1..Len(mem) + k => (LiveCell(c)' <=> LiveCell(c))
         /\ \A c \in Len(mem) + 1..Len(mem) + k : /\ c \in Cell /\ LiveCell(c)' /\ ~LiveCell(c)
<1>1. DOMAIN mem' = 1..Len(mem) + k /\ Len(mem) + k <= MaxCells
  BY LenProperties DEF Grown
<1>2. TypeOK /\ \A c \in DOMAIN mem : mem[c] \in {"live", "freed"}
  BY DEF CollectionsInv, CellsAreOwnedOnce
<1>. QED BY <1>1, <1>2, MemoryDomain, Pointers DEF Grown, LiveCell, Cell

LEMMA FreedCells ==
  ASSUME CollectionsInv, NEW F, mem' = Freed(mem, F), \A c \in F : c \in Cell /\ LiveCell(c)
  PROVE  /\ mem' \in Seq({"live", "freed", "twice"}) /\ Len(mem') = Len(mem)
         /\ \A c \in DOMAIN mem' : mem'[c] \in {"live", "freed"}
         /\ \A c \in Cell : LiveCell(c)' <=> LiveCell(c) /\ c \notin F
<1>1. TypeOK /\ \A c \in DOMAIN mem : mem[c] \in {"live", "freed"}
  BY DEF CollectionsInv, CellsAreOwnedOnce
<1>2. mem \in Seq({"live", "freed", "twice"})
  BY <1>1 DEF TypeOK
<1>. QED BY <1>1, <1>2, FreedMemory DEF LiveCell

------------------------------------------------------------------------------
(* Loans.                                                                   *)
LEMMA LoansHold ==
  ASSUME CollectionsInv, NEW X, \A d \in X : ~Lent(d),
         \A b \in Borrower \ X : loans[b] \subseteq loans'[b],
         \A o \in Lender \ X, c \in Cell : Owns(o, c) => Owns(o, c)'
  PROVE  /\ \A c \in Cell, L \in SUBSET Lender : L \cap X = {} /\ Secured(L, c) => Secured(L, c)'
         /\ \A b \in Borrower \ X, c \in Cell : Secured(loans[b], c) => Secured(loans[b], c)'
<1>1. ASSUME NEW c \in Cell, NEW L, L \cap X = {}, Secured(L, c),
             NEW D \in SUBSET Lender, Closed(D)', L \subseteq D
      PROVE  \E o \in D : Owns(o, c)'
  <2>1. Closed(D \ X)
    BY <1>1 DEF Closed, Lent
  <2>2. L \subseteq D \ X
    BY <1>1
  <2>3. PICK o \in D \ X : Owns(o, c)
    BY <1>1, <2>1, <2>2 DEF Secured
  <2>. QED BY <2>3
<1>2. \A c \in Cell, L \in SUBSET Lender : L \cap X = {} /\ Secured(L, c) => Secured(L, c)'
  BY <1>1 DEF Secured
<1>3. ASSUME NEW b \in Borrower \ X, NEW c \in Cell, Secured(loans[b], c) PROVE Secured(loans[b], c)'
  <2>1. loans[b] \cap X = {} /\ loans[b] \subseteq loans'[b]
    BY DEF Lent
  <2>2. ASSUME NEW D \in SUBSET Lender, Closed(D)', loans'[b] \subseteq D
        PROVE  \E o \in D : Owns(o, c)'
    BY <1>1, <1>3, <2>1, <2>2
  <2>. QED BY <2>2 DEF Secured
<1>. QED BY <1>2, <1>3

(* Borrowers that a step does not touch.                                    *)
LEMMA KeptBorrows ==
  ASSUME CollectionsInv, NEW X, \A d \in X : ~Lent(d),
         \A b \in Borrower \ X : loans[b] \subseteq loans'[b],
         \A o \in Lender \ X, c \in Cell : Owns(o, c) => Owns(o, c)'
  PROVE  /\ \A v \in View \ X : view'[v] = view[v] => SecuredView(v)'
         /\ \A a \in Array \ X : array'[a] = array[a] => SecuredArray(a)'
         /\ \A k \in Other \ X : bytes'[k] = bytes[k] => SecuredOther(k)'
<1>1. \A b \in Borrower \ X, c \in Cell : Secured(loans[b], c) => Secured(loans[b], c)'
  BY LoansHold
<1>2. BorrowsAreSecured
  BY DEF CollectionsInv
<1>3. View \subseteq Borrower /\ Array \subseteq Borrower /\ Other \subseteq Borrower
  BY DEF Borrower
<1>4. ASSUME NEW v \in View \ X, view'[v] = view[v] PROVE SecuredView(v)'
  BY <1>1, <1>2, <1>3, <1>4 DEF BorrowsAreSecured, SecuredView, Borrowed
<1>5. ASSUME NEW a \in Array \ X, array'[a] = array[a] PROVE SecuredArray(a)'
  BY <1>1, <1>2, <1>3, <1>5 DEF BorrowsAreSecured, SecuredArray, Borrowed
<1>6. ASSUME NEW k \in Other \ X, bytes'[k] = bytes[k] PROVE SecuredOther(k)'
  BY <1>1, <1>2, <1>3, <1>6 DEF BorrowsAreSecured, SecuredOther, Borrowed
<1>. QED BY <1>4, <1>5, <1>6

------------------------------------------------------------------------------
(* The constructors.                                                        *)
LEMMA NewIsMade ==
  ASSUME TypeOK, NEW null \in BOOLEAN, NEW n \in {0, 1}, NEW del \in BOOLEAN, Len(mem) < MaxCells
  PROVE  Made(New(null, n, del), HandedOver(null, n, del))
<1> USE Pointers, MemoryDomain
<1>1. Fresh \in Cell
  BY DEF Cell
<1>2. Grown(mem, 0)
  BY DEF Grown, TypeOK
<1>3. Grown(Append(mem, "live"), 1)
  <2>1. mem \in Seq({"live", "freed", "twice"})
    BY DEF TypeOK
  <2>. QED BY <2>1, AppendProperties DEF Grown
<1>. QED BY <1>1, <1>2, <1>3 DEF Made, New, HandedOver, Refused, Gravestone, CSlice, Pointer, Coherent, Borrowed

LEMMA OwnedIsMade ==
  ASSUME TypeOK, NEW n \in {0, 1}, Len(mem) < MaxCells
  PROVE  Made(NewOwned(n, Fresh), Boxes(n)) /\ Made(FromVec(n, Fresh), Boxes(n))
<1> USE Pointers, MemoryDomain
<1>1. Fresh \in Cell
  BY DEF Cell
<1>2. Grown(Boxes(n), n)
  BY BoxesGrow
<1>. QED BY <1>1, <1>2 DEF Made, NewOwned, FromVec, Gravestone, CSlice, Pointer, Coherent, Borrowed

LEMMA CopyIsMade ==
  ASSUME TypeOK, NEW null \in BOOLEAN, NEW n \in {0, 1}, Len(mem) < MaxCells
  PROVE  Made(IF Refused(null, n) THEN Gravestone ELSE NewOwned(n, Fresh), Boxes(IF null THEN 0 ELSE n))
<1>1. NewOwned(0, Fresh) = Gravestone
  BY DEF NewOwned
<1>2. CASE null
  BY <1>1, <1>2, OwnedIsMade DEF Refused
<1>3. CASE ~null
  BY <1>3, OwnedIsMade DEF Refused
<1>. QED BY <1>2, <1>3

LEMMA CloneIsMade ==
  ASSUME TypeOK, NEW s \in CSlice, Len(mem) < MaxCells
  PROVE  Made(CloneToOwned(s, Fresh), Boxes(s.len))
BY OwnedIsMade DEF CloneToOwned, CSlice

(* What the application passes as a loan or as a pointer: a CSlice whose    *)
(* memory, if it is a cell, is secured by the variables it depends on.      *)
LEMMA LoanedIsSecured ==
  ASSUME CollectionsInv, NEW r \in Loaned
  PROVE  /\ r.s \in CSlice /\ Coherent(r.s) /\ r.from \in SUBSET Lender
         /\ r.s.len > 0 /\ r.s.data \in Cell => Secured(r.from, r.s.data)
<1> USE DEF CollectionsInv
<1>1. CASE \E x \in Owned : r = [s |-> slice[x], from |-> {x}]
  <2>1. PICK x \in Owned : r = [s |-> slice[x], from |-> {x}]
    BY <1>1
  <2>2. r.s \in CSlice /\ Coherent(r.s) /\ r.from \in SUBSET Lender
    BY <2>1 DEF TypeOK, PlacesAreCoherent, Lender
  <2>3. ASSUME r.s.len > 0, r.s.data \in Cell PROVE Owns(x, r.s.data)
    BY <2>1, <2>3, Pointers DEF PlacesAreCoherent, Coherent, Borrowed, Owns, SliceOwns
  <2>. QED BY <2>1, <2>2, <2>3 DEF Secured
<1>2. CASE \E v \in View : r = [s |-> view[v], from |-> loans[v]]
  <2>1. PICK v \in View : r = [s |-> view[v], from |-> loans[v]]
    BY <1>2
  <2>2. view[v] \in CSlice /\ view[v].drop = None /\ loans[v] \in SUBSET Lender
    BY DEF TypeOK, Borrower, Lender
  <2>3. Coherent(view[v]) /\ SecuredView(v)
    BY DEF PlacesAreCoherent, BorrowsAreSecured
  <2>. QED BY <2>1, <2>2, <2>3 DEF SecuredView, Borrowed
<1>3. CASE \E a \in Array : \E i \in DOMAIN array[a] : r = [s |-> array[a][i], from |-> {a}]
  <2>1. PICK a \in Array : \E i \in DOMAIN array[a] : r = [s |-> array[a][i], from |-> {a}]
    BY <1>3
  <2>2. PICK i \in DOMAIN array[a] : r = [s |-> array[a][i], from |-> {a}]
    BY <2>1
  <2>3. array[a] \in Seq(CSlice) /\ Len(array[a]) <= MaxStrings
    BY DEF TypeOK
  <2>4. DOMAIN array[a] = 1..Len(array[a]) /\ i \in Index
    BY <2>3, LenProperties, Pointers DEF Index
  <2>5. r.s \in CSlice /\ Coherent(r.s) /\ r.from \in SUBSET Lender
    BY <2>2, <2>3, <2>4, ElementOfSeq DEF PlacesAreCoherent, Lender
  <2>6. ASSUME r.s.len > 0, r.s.data \in Cell PROVE Secured(r.from, r.s.data)
    <3>1. CASE r.s.drop = None
      <4>1. Secured(loans[a], r.s.data)
        BY <2>2, <2>6, <3>1 DEF BorrowsAreSecured, SecuredArray, Borrowed
      <4>. QED BY <2>2, <4>1 DEF Secured, Closed, Borrower
    <3>2. CASE r.s.drop = r.s.data
      <4>1. Owns(a, r.s.data)
        BY <2>2, <2>4, <3>2 DEF Owns, ElementOwns
      <4>. QED BY <2>2, <4>1 DEF Secured
    <3>. QED BY <2>5, <2>6, <3>1, <3>2 DEF Coherent
  <2>. QED BY <2>5, <2>6
<1>. QED BY <1>1, <1>2, <1>3 DEF Loaned

LEMMA RawIsSecured ==
  ASSUME CollectionsInv, NEW d \in Raw
  PROVE  /\ d.data \in Pointer /\ d.from \in SUBSET Lender /\ d.from \in SUBSET Owned
         /\ d.data \in Cell => Secured(d.from, d.data)
<1> USE DEF CollectionsInv
<1>1. CASE \E q \in {Null, Static} : d = [data |-> q, from |-> {}]
  BY <1>1, Pointers DEF Pointer
<1>2. CASE \E x \in Owned : slice[x].len > 0 /\ d = [data |-> slice[x].data, from |-> {x}]
  <2>1. PICK x \in Owned : slice[x].len > 0 /\ d = [data |-> slice[x].data, from |-> {x}]
    BY <1>2
  <2>2. slice[x] \in CSlice
    BY DEF TypeOK
  <2>3. d.data \in Pointer /\ d.from \in SUBSET Lender /\ d.from \in SUBSET Owned
    BY <2>1, <2>2 DEF CSlice, Lender
  <2>4. ASSUME d.data \in Cell PROVE Owns(x, d.data)
    BY <2>1, <2>4, Pointers DEF PlacesAreCoherent, Coherent, Borrowed, Owns, SliceOwns
  <2>. QED BY <2>1, <2>3, <2>4 DEF Secured
<1>. QED BY <1>1, <1>2 DEF Raw

------------------------------------------------------------------------------
(* Owned slices and strings.                                                *)
LEMMA FillSlice ==
  ASSUME CollectionsInv, NEW x \in Owned, NEW s, slice[x] = Gravestone,
         slice' = [slice EXCEPT ![x] = s], Made(s, mem'),
         UNCHANGED <<scope, view, array, bytes, open, loans>>
  PROVE  CollectionsInv'
<1> USE Pointers DEF CollectionsInv
<1>1. TypeOK'
  BY DEF TypeOK, Made, Grown
<1>2. \A a \in Array : Len(array[a])' <= MaxStrings
  OBVIOUS
<1>3. /\ \A y \in Owned, c \in Cell : SliceOwns(y, c)' <=> IF y = x THEN s.drop = c ELSE SliceOwns(y, c)
      /\ \A a \in Array, i \in Index, c \in Cell : ElementOwns(a, i, c)' <=> ElementOwns(a, i, c)
      /\ \A p \in Payload, c \in Cell : BlockOwns(p, c)' <=> BlockOwns(p, c)
      /\ \A c \in Cell : ~SliceOwns(x, c)
  BY DEF TypeOK, SliceOwns, ElementOwns, BlockOwns
<1>4. /\ \A c \in DOMAIN mem' : mem'[c] \in {"live", "freed"}
      /\ \A c \in Cell : c # s.drop => (LiveCell(c)' <=> LiveCell(c))
      /\ s.drop \in Cell => LiveCell(s.drop)' /\ ~LiveCell(s.drop)
  BY MemoryDomain, GrownCells DEF Made
<1>5. ASSUME NEW c \in Cell PROVE OneOwner(c)'
  <2>1. CASE c = s.drop
    <3>1. ~LiveCell(c) /\ LiveCell(c)'
      BY <1>4, <2>1
    <3>2. /\ \A y \in Owned : ~SliceOwns(y, c)
          /\ \A a \in Array, i \in Index : ~ElementOwns(a, i, c)
          /\ \A p \in Payload : ~BlockOwns(p, c)
      BY <3>1, Exclusive
    <3>3. /\ \A y \in Owned : SliceOwns(y, c)' <=> y = x
          /\ \A a \in Array, i \in Index : ~ElementOwns(a, i, c)'
          /\ \A p \in Payload : ~BlockOwns(p, c)'
      BY <1>3, <2>1, <3>2
    <3>. QED BY <3>1, <3>3, SliceIsOwner
  <2>2. CASE c # s.drop
    <3>1. OneOwner(c) /\ (LiveCell(c)' <=> LiveCell(c))
      BY <1>4, <2>2, Exclusive
    <3>2. \A y \in Owned : SliceOwns(y, c)' <=> SliceOwns(y, c)
      BY <1>3, <2>2
    <3>. QED BY <1>3, <3>1, <3>2, SameOwners
  <2>. QED BY <2>1, <2>2
<1>6. PlacesAreCoherent'
  BY DEF PlacesAreCoherent, Made, TypeOK
<1>7. BorrowsAreSecured'
  <2>1. \A o \in Lender, c \in Cell : Owns(o, c) => Owns(o, c)'
    BY <1>3 DEF Owns, Payload
  <2>2. /\ \A v \in View \ {} : view'[v] = view[v] => SecuredView(v)'
        /\ \A a \in Array \ {} : array'[a] = array[a] => SecuredArray(a)'
        /\ \A k \in Other \ {} : bytes'[k] = bytes[k] => SecuredOther(k)'
    BY <2>1, KeptBorrows
  <2>. QED BY <2>2 DEF BorrowsAreSecured
<1>. QED BY <1>1, <1>2, <1>4, <1>5, <1>6, <1>7 DEF CellsAreOwnedOnce

LEMMA DropSliceInv ==
  ASSUME CollectionsInv, NEW x \in Owned, DropSlice(x), UNCHANGED scope
  PROVE  CollectionsInv'
<1> USE Pointers DEF CollectionsInv
<1> DEFINE F == Drops({slice[x]})
<1>1. /\ slice' = [slice EXCEPT ![x] = Gravestone] /\ mem' = Freed(mem, F) /\ ~Lent(x)
      /\ UNCHANGED <<scope, view, array, bytes, open, loans>>
  BY DEF DropSlice
<1>2. slice[x] \in CSlice /\ \A c \in Cell : c \in F <=> SliceOwns(x, c)
  BY DEF Drops, SliceOwns, TypeOK
<1>3. \A c \in F : c \in Cell
  BY <1>2 DEF Drops, CSlice
<1>4. \A c \in F : c \in Cell /\ LiveCell(c)
  BY <1>2, <1>3, Exclusive
<1>5. /\ mem' \in Seq({"live", "freed", "twice"}) /\ Len(mem') = Len(mem)
      /\ \A c \in DOMAIN mem' : mem'[c] \in {"live", "freed"}
      /\ \A c \in Cell : LiveCell(c)' <=> LiveCell(c) /\ c \notin F
  BY <1>1, <1>4, FreedCells
<1>6. TypeOK'
  BY <1>1, <1>5 DEF TypeOK
<1>7. /\ \A y \in Owned, c \in Cell : SliceOwns(y, c)' <=> y # x /\ SliceOwns(y, c)
      /\ \A a \in Array, i \in Index, c \in Cell : ElementOwns(a, i, c)' <=> ElementOwns(a, i, c)
      /\ \A p \in Payload, c \in Cell : BlockOwns(p, c)' <=> BlockOwns(p, c)
  BY <1>1 DEF TypeOK, SliceOwns, ElementOwns, BlockOwns
<1>8. ASSUME NEW c \in Cell PROVE OneOwner(c)'
  <2>1. CASE c \in F
    <3>1. SliceOwns(x, c) /\ ~LiveCell(c)'
      BY <1>2, <1>5, <2>1
    <3>2. /\ \A y \in Owned : SliceOwns(y, c) => y = x
          /\ \A a \in Array, i \in Index : ~ElementOwns(a, i, c)
          /\ \A p \in Payload : ~BlockOwns(p, c)
      BY <3>1, Exclusive
    <3>3. /\ \A y \in Owned : ~SliceOwns(y, c)'
          /\ \A a \in Array, i \in Index : ~ElementOwns(a, i, c)'
          /\ \A p \in Payload : ~BlockOwns(p, c)'
      BY <1>7, <3>2
    <3>. QED BY <3>1, <3>3, NoOwner
  <2>2. CASE c \notin F
    <3>1. OneOwner(c) /\ (LiveCell(c)' <=> LiveCell(c))
      BY <1>5, <2>2, Exclusive
    <3>2. \A y \in Owned : SliceOwns(y, c)' <=> SliceOwns(y, c)
      BY <1>2, <1>7, <2>2
    <3>. QED BY <1>7, <3>1, <3>2, SameOwners
  <2>. QED BY <2>1, <2>2
<1>9. PlacesAreCoherent'
  BY <1>1 DEF PlacesAreCoherent, TypeOK, Coherent, Borrowed
<1>10. BorrowsAreSecured'
  <2>1. \A o \in Lender \ {x}, c \in Cell : Owns(o, c) => Owns(o, c)'
    BY <1>7 DEF Owns, Payload
  <2>2. x \notin Borrower
    BY VariablesAssumption DEF Borrower, Owned
  <2>. QED BY <1>1, <2>1, <2>2, KeptBorrows DEF BorrowsAreSecured, Borrower
<1>. QED BY <1>1, <1>5, <1>6, <1>8, <1>9, <1>10 DEF CellsAreOwnedOnce

------------------------------------------------------------------------------
(* Views.                                                                   *)
LEMMA SetViewInv ==
  ASSUME CollectionsInv, NEW v \in View, NEW s, NEW from, SetView(v, s, from), UNCHANGED scope,
         s \in CSlice, s.drop = None, Coherent(s), from \in SUBSET Lender,
         Borrowed(s) => Secured(from, s.data)
  PROVE  CollectionsInv'
<1> USE DEF CollectionsInv
<1>1. /\ view' = [view EXCEPT ![v] = s] /\ loans' = [loans EXCEPT ![v] = from]
      /\ UNCHANGED <<mem, slice, array, bytes, open>>
  BY DEF SetView
<1>2. v \in Borrower /\ v \notin Lender
  BY VariablesAssumption DEF Borrower, Lender, Owned
<1>3. TypeOK'
  BY <1>1, <1>2 DEF TypeOK, Lender
<1>4. CellsAreOwnedOnce'
  <2>1. ASSUME NEW c \in Cell PROVE OneOwner(c)'
    BY <1>1, Exclusive, SameOwners DEF LiveCell, SliceOwns, ElementOwns, BlockOwns
  <2>. QED BY <1>1, <2>1 DEF CellsAreOwnedOnce
<1>5. PlacesAreCoherent'
  BY <1>1 DEF PlacesAreCoherent, TypeOK
<1>6. ~Lent(v)
  BY <1>2 DEF Lent, TypeOK, Lender
<1>7. \A o \in Lender, c \in Cell : Owns(o, c) => Owns(o, c)'
  BY <1>1 DEF Owns, SliceOwns, ElementOwns, BlockOwns
<1>8. \A b \in Borrower \ {v} : loans[b] \subseteq loans'[b]
  BY <1>1 DEF TypeOK
<1>9. SecuredView(v)'
  <2>1. view'[v] = s /\ loans'[v] = from
    BY <1>1, <1>2 DEF TypeOK
  <2>2. ASSUME Borrowed(s) PROVE Secured(from, s.data)'
    <3>1. s.data \in Cell /\ from \cap {v} = {}
      BY <1>2, <2>2 DEF Borrowed
    <3>2. \A c \in Cell, L \in SUBSET Lender : L \cap {v} = {} /\ Secured(L, c) => Secured(L, c)'
      BY <1>6, <1>7, <1>8, LoansHold
    <3>. QED BY <2>2, <3>1, <3>2
  <2>. QED BY <2>1, <2>2 DEF SecuredView, Borrowed
<1>10. BorrowsAreSecured'
  <2>1. /\ \A u \in View \ {v} : view'[u] = view[u] => SecuredView(u)'
        /\ \A a \in Array \ {v} : array'[a] = array[a] => SecuredArray(a)'
        /\ \A k \in Other \ {v} : bytes'[k] = bytes[k] => SecuredOther(k)'
    BY <1>6, <1>7, <1>8, KeptBorrows
  <2>2. v \notin Array /\ v \notin Other /\ \A u \in View \ {v} : view'[u] = view[u]
    BY <1>1, <1>2 DEF Lender, TypeOK
  <2>. QED BY <1>1, <1>9, <2>1, <2>2 DEF BorrowsAreSecured
<1>. QED BY <1>1, <1>3, <1>4, <1>5, <1>10

LEMMA BorrowedView ==
  ASSUME CollectionsInv, NEW v \in View, NEW d \in Raw, NEW n \in {0, 1}, UNCHANGED scope,
         SetView(v, NewBorrowed(d.data, n), d.from)
  PROVE  CollectionsInv'
<1>1. /\ d.data \in Pointer /\ d.from \in SUBSET Lender
      /\ d.data \in Cell => Secured(d.from, d.data)
  BY RawIsSecured
<1> DEFINE s == NewBorrowed(d.data, n)
<1>2. s \in CSlice /\ s.drop = None /\ Coherent(s) /\ (Borrowed(s) => d.data \in Cell /\ s.data = d.data)
  BY <1>1, Pointers DEF NewBorrowed, Refused, Gravestone, CSlice, Coherent, Borrowed
<1>. QED BY <1>1, <1>2, SetViewInv

------------------------------------------------------------------------------
(* String arrays.                                                           *)
LEMMA Arrays ==
  ASSUME CollectionsInv, NEW a \in Array
  PROVE  /\ array[a] \in Seq(CSlice) /\ Len(array[a]) \in Nat /\ Len(array[a]) <= MaxStrings
         /\ DOMAIN array[a] = 1..Len(array[a]) /\ DOMAIN array[a] \subseteq Index
         /\ \A i \in DOMAIN array[a] : array[a][i] \in CSlice /\ Coherent(array[a][i])
<1>1. array[a] \in Seq(CSlice) /\ Len(array[a]) <= MaxStrings
  BY DEF CollectionsInv, TypeOK
<1>2. DOMAIN array[a] = 1..Len(array[a]) /\ Len(array[a]) \in Nat
  BY <1>1, LenProperties
<1>3. \A i \in DOMAIN array[a] : array[a][i] \in CSlice
  BY <1>1, <1>2, ElementOfSeq
<1>. QED BY <1>1, <1>2, <1>3, Pointers DEF Index, CollectionsInv, PlacesAreCoherent

LEMMA PushedElement ==
  ASSUME CollectionsInv, NEW a \in Array, NEW s \in CSlice, Coherent(s), Len(array[a]) < MaxStrings,
         array' = [array EXCEPT ![a] = Append(@, s)]
  PROVE  /\ array' \in [Array -> Seq(CSlice)] /\ \A b \in Array : Len(array'[b]) <= MaxStrings
         /\ Len(array[a]) + 1 \in Index /\ array'[a][Len(array[a]) + 1] = s
         /\ DOMAIN array'[a] = DOMAIN array[a] \cup {Len(array[a]) + 1}
         /\ \A i \in DOMAIN array[a] : array'[a][i] = array[a][i]
         /\ \A b \in Array : b # a => array'[b] = array[b]
         /\ \A b \in Array : \A i \in DOMAIN array'[b] : Coherent(array'[b][i])
         /\ \A b \in Array, i \in Index, c \in Cell : ElementOwns(b, i, c)' <=>
               ElementOwns(b, i, c) \/ (b = a /\ i = Len(array[a]) + 1 /\ s.drop = c)
<1> DEFINE n == Len(array[a]) + 1
<1>1. /\ array \in [Array -> Seq(CSlice)] /\ array'[a] = Append(array[a], s)
      /\ \A b \in Array : b # a => array'[b] = array[b]
  BY DEF CollectionsInv, TypeOK
<1>2. /\ Append(array[a], s) \in Seq(CSlice) /\ Len(Append(array[a], s)) = n
      /\ \A i \in 1..Len(array[a]) : Append(array[a], s)[i] = array[a][i]
      /\ Append(array[a], s)[n] = s
  BY <1>1, AppendProperties
<1>3. DOMAIN array'[a] = 1..n
  BY <1>1, <1>2, LenProperties
<1>4. /\ Len(array[a]) \in Nat /\ DOMAIN array[a] = 1..Len(array[a])
      /\ \A b \in Array : Len(array[b]) <= MaxStrings
      /\ \A b \in Array : \A i \in DOMAIN array[b] : Coherent(array[b][i])
  BY Arrays
<1>5. n \in Index /\ DOMAIN array'[a] = DOMAIN array[a] \cup {n}
  BY <1>3, <1>4, Pointers DEF Index
<1>6. array' \in [Array -> Seq(CSlice)] /\ \A b \in Array : Len(array'[b]) <= MaxStrings
  BY <1>1, <1>2, <1>4, Pointers
<1>7. \A b \in Array : \A i \in DOMAIN array'[b] : Coherent(array'[b][i])
  BY <1>1, <1>2, <1>4, <1>5
<1>8. ASSUME NEW b \in Array, NEW i \in Index, NEW c \in Cell
      PROVE  ElementOwns(b, i, c)' <=> ElementOwns(b, i, c) \/ (b = a /\ i = n /\ s.drop = c)
  <2>1. n \notin DOMAIN array[a]
    BY <1>4
  <2>2. CASE b = a
    BY <1>1, <1>2, <1>4, <1>5, <2>1, <2>2 DEF ElementOwns
  <2>3. CASE b # a
    BY <1>1, <2>3 DEF ElementOwns
  <2>. QED BY <2>2, <2>3
<1>. QED BY <1>1, <1>2, <1>4, <1>5, <1>6, <1>7, <1>8

LEMMA PushMade ==
  ASSUME CollectionsInv, NEW a \in Array, NEW s, Made(s, mem'), Len(array[a]) < MaxStrings,
         array' = [array EXCEPT ![a] = Append(@, s)],
         UNCHANGED <<scope, slice, view, bytes, open, loans>>
  PROVE  CollectionsInv'
<1> DEFINE n == Len(array[a]) + 1
<1>1. s \in CSlice /\ Coherent(s) /\ ~Borrowed(s)
  BY DEF Made
<1>2. /\ array' \in [Array -> Seq(CSlice)] /\ \A b \in Array : Len(array'[b]) <= MaxStrings
      /\ n \in Index /\ array'[a][n] = s /\ DOMAIN array'[a] = DOMAIN array[a] \cup {n}
      /\ \A i \in DOMAIN array[a] : array'[a][i] = array[a][i]
      /\ \A b \in Array : b # a => array'[b] = array[b]
      /\ \A b \in Array : \A i \in DOMAIN array'[b] : Coherent(array'[b][i])
      /\ \A b \in Array, i \in Index, c \in Cell : ElementOwns(b, i, c)' <=>
            ElementOwns(b, i, c) \/ (b = a /\ i = n /\ s.drop = c)
  BY <1>1, PushedElement
<1>3. TypeOK'
  BY <1>2 DEF TypeOK, Made, Grown, CollectionsInv
<1>4. /\ \A c \in DOMAIN mem' : mem'[c] \in {"live", "freed"}
      /\ \A c \in Cell : c # s.drop => (LiveCell(c)' <=> LiveCell(c))
      /\ s.drop \in Cell => LiveCell(s.drop)' /\ ~LiveCell(s.drop)
  BY MemoryDomain, GrownCells, Pointers DEF Made, CollectionsInv
<1>5. /\ \A x \in Owned, c \in Cell : SliceOwns(x, c)' <=> SliceOwns(x, c)
      /\ \A p \in Payload, c \in Cell : BlockOwns(p, c)' <=> BlockOwns(p, c)
  BY DEF SliceOwns, BlockOwns
<1>6. ASSUME NEW c \in Cell PROVE OneOwner(c)'
  <2>1. CASE c = s.drop
    <3>1. ~LiveCell(c) /\ LiveCell(c)'
      BY <1>4, <2>1
    <3>2. /\ \A y \in Owned : ~SliceOwns(y, c)
          /\ \A b \in Array, i \in Index : ~ElementOwns(b, i, c)
          /\ \A p \in Payload : ~BlockOwns(p, c)
      BY <3>1, Exclusive
    <3>3. \A b \in Array, i \in Index : ElementOwns(b, i, c)' <=> b = a /\ i = n
      BY <1>2, <2>1, <3>2
    <3>. QED BY <1>2, <1>5, <3>1, <3>2, <3>3, ElementIsOwner
  <2>2. CASE c # s.drop
    <3>1. OneOwner(c) /\ (LiveCell(c)' <=> LiveCell(c))
      BY <1>4, <2>2, Exclusive
    <3>2. \A b \in Array, i \in Index : ElementOwns(b, i, c)' <=> ElementOwns(b, i, c)
      BY <1>2, <2>2
    <3>. QED BY <1>5, <3>1, <3>2, SameOwners
  <2>. QED BY <2>1, <2>2
<1>7. PlacesAreCoherent'
  BY <1>2 DEF PlacesAreCoherent, CollectionsInv
<1>8. \A o \in Lender, c \in Cell : Owns(o, c) => Owns(o, c)'
  BY <1>2, <1>5 DEF Owns, Payload
<1>9. SecuredArray(a)'
  <2>1. \A b \in Borrower \ {}, c \in Cell : Secured(loans[b], c) => Secured(loans[b], c)'
    BY <1>8, LoansHold
  <2>2. SecuredArray(a) /\ a \in Borrower
    BY DEF CollectionsInv, BorrowsAreSecured, Borrower
  <2>3. ASSUME NEW i \in DOMAIN array'[a], Borrowed(array'[a][i])
        PROVE  i \in DOMAIN array[a] /\ array'[a][i] = array[a][i]
    BY <1>1, <1>2, <2>3
  <2>. QED BY <2>1, <2>2, <2>3 DEF SecuredArray, Borrowed
<1>10. BorrowsAreSecured'
  <2>1. /\ \A v \in View \ {} : view'[v] = view[v] => SecuredView(v)'
        /\ \A b \in Array \ {} : array'[b] = array[b] => SecuredArray(b)'
        /\ \A k \in Other \ {} : bytes'[k] = bytes[k] => SecuredOther(k)'
    BY <1>8, KeptBorrows
  <2>. QED BY <1>2, <1>9, <2>1 DEF BorrowsAreSecured
<1>. QED BY <1>2, <1>3, <1>4, <1>6, <1>7, <1>10 DEF CollectionsInv, CellsAreOwnedOnce

LEMMA PushAlias ==
  ASSUME CollectionsInv, NEW a \in Array, NEW r \in Loaned, z_string_array_push_by_alias(a, r),
         UNCHANGED scope
  PROVE  CollectionsInv'
<1> DEFINE n == Len(array[a]) + 1
           s == CloneToBorrowed(r.s)
<1>1. /\ r.s \in CSlice /\ Coherent(r.s) /\ r.from \in SUBSET Lender
      /\ r.s.len > 0 /\ r.s.data \in Cell => Secured(r.from, r.s.data)
  BY LoanedIsSecured
<1>2. /\ s \in CSlice /\ Coherent(s) /\ s.drop = None
      /\ Borrowed(s) => s.data \in Cell /\ Secured(r.from, s.data)
  BY <1>1 DEF CloneToBorrowed, CSlice, Coherent, Borrowed
<1> HIDE DEF s
<1>3. /\ Len(array[a]) < MaxStrings /\ array' = [array EXCEPT ![a] = Append(@, s)]
      /\ loans' = [loans EXCEPT ![a] = @ \cup r.from]
      /\ UNCHANGED <<scope, mem, slice, view, bytes, open>>
  BY DEF z_string_array_push_by_alias, s
<1>4. /\ array' \in [Array -> Seq(CSlice)] /\ \A b \in Array : Len(array'[b]) <= MaxStrings
      /\ n \in Index /\ array'[a][n] = s /\ DOMAIN array'[a] = DOMAIN array[a] \cup {n}
      /\ \A i \in DOMAIN array[a] : array'[a][i] = array[a][i]
      /\ \A b \in Array : b # a => array'[b] = array[b]
      /\ \A b \in Array : \A i \in DOMAIN array'[b] : Coherent(array'[b][i])
      /\ \A b \in Array, i \in Index, c \in Cell : ElementOwns(b, i, c)' <=>
            ElementOwns(b, i, c) \/ (b = a /\ i = n /\ s.drop = c)
  BY <1>2, <1>3, PushedElement
<1>5. /\ a \in Borrower /\ loans \in [Borrower -> SUBSET Lender]
      /\ loans'[a] = loans[a] \cup r.from /\ \A b \in Borrower : loans[b] \subseteq loans'[b]
  BY <1>3 DEF CollectionsInv, TypeOK, Borrower, Lender
<1>6. TypeOK'
  BY <1>1, <1>3, <1>4 DEF TypeOK, CollectionsInv, Lender
<1>7. ASSUME NEW c \in Cell PROVE /\ \A b \in Array, i \in Index : ElementOwns(b, i, c)' <=> ElementOwns(b, i, c)
                                  /\ \A x \in Owned : SliceOwns(x, c)' <=> SliceOwns(x, c)
                                  /\ \A p \in Payload : BlockOwns(p, c)' <=> BlockOwns(p, c)
                                  /\ LiveCell(c)' <=> LiveCell(c)
  BY <1>2, <1>3, <1>4, Pointers DEF SliceOwns, BlockOwns, LiveCell
<1>8. CellsAreOwnedOnce'
  <2>1. ASSUME NEW c \in Cell PROVE OneOwner(c)'
    BY <1>7, Exclusive, SameOwners
  <2>. QED BY <1>3, <2>1 DEF CollectionsInv, CellsAreOwnedOnce
<1>9. PlacesAreCoherent'
  BY <1>3, <1>4 DEF PlacesAreCoherent, CollectionsInv
<1>10. \A o \in Lender, c \in Cell : Owns(o, c) => Owns(o, c)'
  BY <1>7 DEF Owns, Payload
<1>11. SecuredArray(a)'
  <2>1. /\ \A c \in Cell, L \in SUBSET Lender : L \cap {} = {} /\ Secured(L, c) => Secured(L, c)'
        /\ \A b \in Borrower \ {}, c \in Cell : Secured(loans[b], c) => Secured(loans[b], c)'
    BY <1>5, <1>10, LoansHold
  <2>2. SecuredArray(a)
    BY DEF CollectionsInv, BorrowsAreSecured
  <2>3. ASSUME NEW i \in DOMAIN array[a], Borrowed(array[a][i])
        PROVE  Secured(loans[a], array[a][i].data)'
    BY <1>4, <1>5, <2>1, <2>2, <2>3 DEF SecuredArray, Borrowed
  <2>4. ASSUME Borrowed(s) PROVE Secured(loans[a], s.data)'
    <3>1. Secured(r.from, s.data)' /\ r.from \subseteq loans'[a]
      BY <1>1, <1>2, <1>5, <2>1, <2>4
    <3>. QED BY <3>1 DEF Secured
  <2>. QED BY <1>4, <2>3, <2>4 DEF SecuredArray
<1>12. BorrowsAreSecured'
  <2>1. /\ \A v \in View \ {} : view'[v] = view[v] => SecuredView(v)'
        /\ \A b \in Array \ {} : array'[b] = array[b] => SecuredArray(b)'
        /\ \A k \in Other \ {} : bytes'[k] = bytes[k] => SecuredOther(k)'
    BY <1>5, <1>10, KeptBorrows
  <2>. QED BY <1>3, <1>4, <1>11, <2>1 DEF BorrowsAreSecured
<1>. QED BY <1>4, <1>6, <1>8, <1>9, <1>12 DEF CollectionsInv

(* The non-empty elements of an array are numbered without gaps.            *)
Numbered(S, r) == /\ Cardinality(S) \in Nat
                  /\ \A i \in S : r[i] \in 1..Cardinality(S)
                  /\ \A i, k \in S : r[i] = r[k] => i = k
                  /\ \A m \in 1..Cardinality(S) : \E i \in S : r[i] = m

LEMMA Ranks ==
  ASSUME NEW n \in Nat, NEW S \in SUBSET (1..n), NEW r,
         r = [i \in S |-> r[i]], \A i \in S : r[i] = Cardinality({j \in 1..i : j \in S})
  PROVE  Numbered(S, r)
<1> DEFINE P(i) == {j \in 1..i : j \in S}
<1>1. IsFiniteSet(1..n) /\ Cardinality(1..n) = n
  BY FS_Interval
<1>2. IsFiniteSet(S) /\ Cardinality(S) <= n /\ Cardinality(S) \in Nat
  BY <1>1, FS_Subset, FS_CardinalityType
<1>3. ASSUME NEW i \in S
      PROVE  IsFiniteSet(P(i)) /\ Cardinality(P(i)) \in 1..Cardinality(S)
  <2>1. P(i) \in SUBSET S
    OBVIOUS
  <2>2. IsFiniteSet(P(i)) /\ Cardinality(P(i)) <= Cardinality(S)
    BY <1>2, <2>1, FS_Subset
  <2>3. i \in P(i)
    OBVIOUS
  <2>4. Cardinality(P(i)) \in Nat /\ Cardinality(P(i)) # 0
    BY <2>2, <2>3, FS_EmptySet, FS_CardinalityType
  <2>. QED BY <1>2, <2>2, <2>4
<1>4. ASSUME NEW i \in S, NEW k \in S, i < k PROVE Cardinality(P(i)) # Cardinality(P(k))
  <2>1. P(i) \in SUBSET P(k) /\ k \in P(k) /\ k \notin P(i)
    BY <1>4
  <2>2. IsFiniteSet(P(k))
    BY <1>3
  <2>. QED BY <2>1, <2>2, FS_Subset
<1>5. \A i, k \in S : r[i] = r[k] => i = k
  <2> SUFFICES ASSUME NEW i \in S, NEW k \in S, r[i] = r[k] PROVE i = k
    OBVIOUS
  <2>1. ~(i < k) /\ ~(k < i)
    BY <1>4
  <2>. QED BY <2>1
<1>6. r \in [S -> 1..Cardinality(S)]
  BY <1>3
<1>7. r \in Injection(S, 1..Cardinality(S))
  BY <1>5, <1>6 DEF Injection, IsInjective
<1>8. IsFiniteSet(1..Cardinality(S)) /\ Cardinality(1..Cardinality(S)) = Cardinality(S)
  BY <1>2, FS_Interval
<1>9. r \in Surjection(S, 1..Cardinality(S))
  BY <1>7, <1>8, FS_Injection
<1>. QED BY <1>2, <1>5, <1>6, <1>9 DEF Surjection, Numbered

CloneFacts(b, k, ss) ==
  /\ k \in Nat /\ ss \in Seq(CSlice) /\ Len(ss) = Len(array[b]) /\ DOMAIN ss = DOMAIN array[b]
  /\ \A i \in DOMAIN ss : /\ Coherent(ss[i]) /\ ~Borrowed(ss[i])
                          /\ ss[i].drop \in Cell => ss[i].drop \in Len(mem) + 1..Len(mem) + k
  /\ \A c \in Len(mem) + 1..Len(mem) + k : \E i \in DOMAIN ss : ss[i].drop = c
  /\ \A c \in Cell, i, j \in DOMAIN ss : ss[i].drop = c /\ ss[j].drop = c => i = j

LEMMA ClonedElements ==
  ASSUME CollectionsInv, NEW b \in Array, Len(mem) + Cardinality(NonEmpty(array[b])) <= MaxCells
  PROVE  CloneFacts(b, Cardinality(NonEmpty(array[b])), CloneElements(array[b]))
<1> DEFINE k == Cardinality(NonEmpty(array[b]))
           ss == CloneElements(array[b])
           n == Len(array[b])
           S == NonEmpty(array[b])
           r == [i \in S |-> Cardinality({j \in 1..i : j \in S})]
<1>1. /\ array[b] \in Seq(CSlice) /\ n \in Nat /\ DOMAIN array[b] = 1..n
      /\ \A i \in DOMAIN array[b] : array[b][i] \in CSlice
  BY Arrays
<1>2. S \in SUBSET (1..n) /\ k = Cardinality(S)
  BY <1>1 DEF NonEmpty
<1>3. /\ k \in Nat /\ \A i \in S : r[i] \in 1..k
      /\ \A i, j \in S : r[i] = r[j] => i = j
      /\ \A m \in 1..k : \E i \in S : r[i] = m
  <2>1. r = [i \in S |-> r[i]] /\ \A i \in S : r[i] = Cardinality({j \in 1..i : j \in S})
    OBVIOUS
  <2>2. n \in Nat /\ S \in SUBSET (1..n)
    BY <1>1, <1>2
  <2> HIDE DEF S, r, n
  <2>3. Numbered(S, r)
    BY <2>1, <2>2, Ranks
  <2>. QED BY <1>2, <2>3 DEF Numbered
<1>4. Len(mem) \in Nat
  BY MemoryDomain DEF CollectionsInv
<1>5. ASSUME NEW i \in 1..n
      PROVE  ss[i] = IF i \in S THEN [data |-> Len(mem) + r[i], len |-> 1, drop |-> Len(mem) + r[i]]
                     ELSE Gravestone
  <2>1. ss[i] = NewOwned(array[b][i].len, Len(mem) + Cardinality({j \in 1..i : array[b][j].len > 0}))
    BY <1>1 DEF CloneElements, CloneToOwned
  <2>2. {j \in 1..i : array[b][j].len > 0} = {j \in 1..i : j \in S}
    BY <1>1 DEF NonEmpty
  <2>3. array[b][i].len \in {0, 1}
    BY <1>1 DEF CSlice
  <2>4. CASE i \in S
    <3>1. array[b][i].len = 1
      BY <2>3, <2>4 DEF NonEmpty
    <3>2. r[i] = Cardinality({j \in 1..i : j \in S})
      BY <2>4
    <3> HIDE DEF r, S
    <3>3. r[i] = Cardinality({j \in 1..i : array[b][j].len > 0})
      BY <2>2, <3>2
    <3>. QED BY <2>1, <2>4, <3>1, <3>3 DEF NewOwned
  <2>5. CASE i \notin S
    <3>1. array[b][i].len = 0
      BY <1>1, <2>3, <2>5 DEF NonEmpty
    <3>. QED BY <2>1, <2>5, <3>1 DEF NewOwned
  <2>. QED BY <2>4, <2>5
<1>6. DOMAIN ss = 1..n
  BY <1>1 DEF CloneElements
<1> HIDE DEF r, S
<1>7. ASSUME NEW i \in S
      PROVE  /\ i \in 1..n /\ ss[i] = [data |-> Len(mem) + r[i], len |-> 1, drop |-> Len(mem) + r[i]]
             /\ Len(mem) + r[i] \in Cell /\ Len(mem) + r[i] \in Len(mem) + 1..Len(mem) + k
             /\ ss[i].drop = Len(mem) + r[i]
  <2>1. i \in 1..n
    BY <1>2
  <2>2. ss[i] = [data |-> Len(mem) + r[i], len |-> 1, drop |-> Len(mem) + r[i]]
    BY <1>5, <2>1
  <2>3. Len(mem) + r[i] \in Cell /\ Len(mem) + r[i] \in Len(mem) + 1..Len(mem) + k
    BY <1>3, <1>4, Pointers DEF Cell
  <2>. QED BY <2>1, <2>2, <2>3
<1>8. ASSUME NEW i \in 1..n
      PROVE  /\ ss[i] \in CSlice /\ Coherent(ss[i]) /\ ~Borrowed(ss[i])
             /\ ss[i].drop \in Cell => i \in S
  <2>1. CASE i \in S
    <3>1. PICK m \in Cell : ss[i] = [data |-> m, len |-> 1, drop |-> m]
      BY <1>7, <2>1
    <3>. QED BY <2>1, <3>1, Pointers DEF CSlice, Pointer, Coherent, Borrowed
  <2>2. CASE i \notin S
    <3>1. ss[i] = Gravestone
      BY <1>5, <2>2
    <3>. QED BY <3>1, Pointers DEF Coherent, Borrowed
  <2>. QED BY <2>1, <2>2
<1>9. ss \in Seq(CSlice)
  <2>1. ss = [i \in 1..n |-> ss[i]]
    BY <1>1 DEF CloneElements
  <2>2. ss \in [1..n -> CSlice]
    BY <1>8, <2>1
  <2>. QED BY <1>1, <2>2, SeqDef
<1>10. Len(ss) = n
  BY <1>1, <1>6, <1>9, LenProperties
<1>11. ASSUME NEW c \in Len(mem) + 1..Len(mem) + k PROVE \E i \in DOMAIN ss : ss[i].drop = c
  <2>1. PICK i \in S : r[i] = c - Len(mem)
    BY <1>3, <1>4
  <2>2. i \in 1..n /\ ss[i].drop = Len(mem) + r[i]
    BY <1>7
  <2>3. Len(mem) + r[i] = c
    BY <1>3, <1>4, <2>1
  <2>. QED BY <1>6, <2>2, <2>3
<1>12. ASSUME NEW c \in Cell, NEW i \in 1..n, NEW j \in 1..n, ss[i].drop = c, ss[j].drop = c
       PROVE  i = j
  <2>1. i \in S /\ j \in S /\ Len(mem) + r[i] = Len(mem) + r[j]
    BY <1>7, <1>8, <1>12
  <2>2. r[i] = r[j]
    BY <1>3, <1>4, <2>1
  <2>. QED BY <1>3, <2>1, <2>2
<1>13. \A i \in DOMAIN ss : /\ Coherent(ss[i]) /\ ~Borrowed(ss[i])
                            /\ ss[i].drop \in Cell => ss[i].drop \in Len(mem) + 1..Len(mem) + k
  BY <1>6, <1>7, <1>8
<1>14. DOMAIN ss = DOMAIN array[b]
  BY <1>1, <1>6
<1>15. \A c \in Cell, i, j \in DOMAIN ss : ss[i].drop = c /\ ss[j].drop = c => i = j
  BY <1>6, <1>12
<1> HIDE DEF k, ss
<1>16. CloneFacts(b, k, ss)
  BY <1>3, <1>9, <1>10, <1>11, <1>13, <1>14, <1>15 DEF CloneFacts
<1>. QED BY <1>16 DEF k, ss

LEMMA ArrayCloneInv ==
  ASSUME CollectionsInv, NEW a \in Array, NEW b \in Array, z_string_array_clone(a, b), UNCHANGED scope
  PROVE  CollectionsInv'
<1> DEFINE k == Cardinality(NonEmpty(array[b]))
           ss == CloneElements(array[b])
<1>1. /\ array[a] = <<>> /\ Len(mem) + k <= MaxCells /\ array' = [array EXCEPT ![a] = ss]
      /\ mem' = Boxes(k) /\ UNCHANGED <<scope, slice, view, bytes, open, loans>>
  BY DEF z_string_array_clone
<1>2. /\ k \in Nat /\ ss \in Seq(CSlice) /\ Len(ss) = Len(array[b]) /\ DOMAIN ss = DOMAIN array[b]
      /\ \A i \in DOMAIN ss : /\ Coherent(ss[i]) /\ ~Borrowed(ss[i])
                              /\ ss[i].drop \in Cell => ss[i].drop \in Len(mem) + 1..Len(mem) + k
      /\ \A c \in Len(mem) + 1..Len(mem) + k : \E i \in DOMAIN ss : ss[i].drop = c
      /\ \A c \in Cell, i, j \in DOMAIN ss : ss[i].drop = c /\ ss[j].drop = c => i = j
  <2>1. CloneFacts(b, k, ss)
    BY <1>1, ClonedElements
  <2> HIDE DEF k, ss
  <2>. QED BY <2>1 DEF CloneFacts
<1> HIDE DEF k, ss
<1>3. Grown(mem', k)
  BY <1>1, <1>2, BoxesGrow DEF CollectionsInv
<1>4. /\ \A c \in DOMAIN mem' : mem'[c] \in {"live", "freed"}
      /\ \A c \in Cell : c \notin Len(mem) + 1..Len(mem) + k => (LiveCell(c)' <=> LiveCell(c))
      /\ \A c \in Len(mem) + 1..Len(mem) + k : c \in Cell /\ LiveCell(c)' /\ ~LiveCell(c)
  BY <1>2, <1>3, GrownCells
<1>5. array'[a] = ss /\ \A d \in Array : d # a => array'[d] = array[d]
  BY <1>1 DEF CollectionsInv, TypeOK
<1>6. TypeOK'
  BY <1>1, <1>2, <1>3 DEF CollectionsInv, TypeOK, Grown
<1>7. \A d \in Array : Len(array'[d]) <= MaxStrings
  BY <1>2, <1>5 DEF CollectionsInv
<1>8. DOMAIN ss \subseteq Index /\ DOMAIN array[a] = {}
  BY <1>1, <1>2, Arrays
<1>9. /\ \A d \in Array, i \in Index, c \in Cell : ElementOwns(d, i, c)' <=>
            ElementOwns(d, i, c) \/ (d = a /\ i \in DOMAIN ss /\ ss[i].drop = c)
      /\ \A i \in Index, c \in Cell : ~ElementOwns(a, i, c)
      /\ \A x \in Owned, c \in Cell : SliceOwns(x, c)' <=> SliceOwns(x, c)
      /\ \A p \in Payload, c \in Cell : BlockOwns(p, c)' <=> BlockOwns(p, c)
  BY <1>1, <1>5, <1>8 DEF ElementOwns, SliceOwns, BlockOwns
<1>10. ASSUME NEW c \in Cell PROVE OneOwner(c)'
  <2>1. CASE c \in Len(mem) + 1..Len(mem) + k
    <3>1. PICK i \in DOMAIN ss : ss[i].drop = c
      BY <1>2, <2>1
    <3>2. ~LiveCell(c) /\ LiveCell(c)'
      BY <1>4, <2>1
    <3>3. /\ \A y \in Owned : ~SliceOwns(y, c)
          /\ \A d \in Array, j \in Index : ~ElementOwns(d, j, c)
          /\ \A p \in Payload : ~BlockOwns(p, c)
      BY <3>2, Exclusive
    <3>4. \A d \in Array, j \in Index : ElementOwns(d, j, c)' <=> d = a /\ j = i
      BY <1>2, <1>8, <1>9, <3>1, <3>3
    <3>. QED BY <1>8, <1>9, <3>2, <3>3, <3>4, ElementIsOwner
  <2>2. CASE c \notin Len(mem) + 1..Len(mem) + k
    <3>1. OneOwner(c) /\ (LiveCell(c)' <=> LiveCell(c))
      BY <1>4, <2>2, Exclusive
    <3>2. \A d \in Array, i \in Index : ElementOwns(d, i, c)' <=> ElementOwns(d, i, c)
      BY <1>2, <1>9, <2>2
    <3>. QED BY <1>9, <3>1, <3>2, SameOwners
  <2>. QED BY <2>1, <2>2
<1>11. PlacesAreCoherent'
  BY <1>1, <1>2, <1>5 DEF PlacesAreCoherent, CollectionsInv
<1>12. \A o \in Lender, c \in Cell : Owns(o, c) => Owns(o, c)'
  BY <1>9 DEF Owns, Payload
<1>13. BorrowsAreSecured'
  <2>1. /\ \A v \in View \ {} : view'[v] = view[v] => SecuredView(v)'
        /\ \A d \in Array \ {} : array'[d] = array[d] => SecuredArray(d)'
        /\ \A l \in Other \ {} : bytes'[l] = bytes[l] => SecuredOther(l)'
    BY <1>1, <1>12, KeptBorrows
  <2>2. SecuredArray(a)'
    BY <1>2, <1>5 DEF SecuredArray
  <2>. QED BY <1>1, <1>5, <2>1, <2>2 DEF BorrowsAreSecured
<1>. QED BY <1>4, <1>6, <1>7, <1>10, <1>11, <1>13 DEF CollectionsInv, CellsAreOwnedOnce

LEMMA ArrayDropInv ==
  ASSUME CollectionsInv, NEW a \in Array, z_string_array_drop(a), UNCHANGED scope
  PROVE  CollectionsInv'
<1> DEFINE F == Drops(ToSet(array[a]))
<1>1. /\ array' = [array EXCEPT ![a] = <<>>] /\ mem' = Freed(mem, F) /\ ~Lent(a)
      /\ loans' = [loans EXCEPT ![a] = {}] /\ UNCHANGED <<scope, slice, view, bytes, open>>
  BY DEF z_string_array_drop
<1>2. /\ \A i \in DOMAIN array[a] : i \in Index /\ array[a][i] \in CSlice
  BY Arrays
<1>3. \A c : c \in F <=> c \in Cell /\ \E i \in Index : ElementOwns(a, i, c)
  BY <1>2, Pointers DEF Drops, ToSet, ElementOwns, CSlice
<1> HIDE DEF F
<1>4. \A c \in F : c \in Cell /\ LiveCell(c)
  BY <1>3, Exclusive
<1>5. /\ mem' \in Seq({"live", "freed", "twice"}) /\ Len(mem') = Len(mem)
      /\ \A c \in DOMAIN mem' : mem'[c] \in {"live", "freed"}
      /\ \A c \in Cell : LiveCell(c)' <=> LiveCell(c) /\ c \notin F
  BY <1>1, <1>4, FreedCells
<1>6. array'[a] = <<>> /\ \A b \in Array : b # a => array'[b] = array[b]
  BY <1>1 DEF CollectionsInv, TypeOK
<1>7. a \in Borrower /\ a \notin View /\ a \notin Other
  BY VariablesAssumption DEF Borrower
<1>8. TypeOK'
  BY <1>1, <1>5, <1>7 DEF CollectionsInv, TypeOK
<1>9. \A b \in Array : Len(array'[b]) <= MaxStrings
  BY <1>6, Pointers DEF CollectionsInv
<1>10. /\ \A b \in Array, i \in Index, c \in Cell : ElementOwns(b, i, c)' <=> b # a /\ ElementOwns(b, i, c)
       /\ \A x \in Owned, c \in Cell : SliceOwns(x, c)' <=> SliceOwns(x, c)
       /\ \A p \in Payload, c \in Cell : BlockOwns(p, c)' <=> BlockOwns(p, c)
  BY <1>1, <1>6 DEF ElementOwns, SliceOwns, BlockOwns
<1>11. ASSUME NEW c \in Cell PROVE OneOwner(c)'
  <2>1. CASE c \in F
    <3>1. PICK i \in Index : ElementOwns(a, i, c)
      BY <1>3, <2>1
    <3>2. /\ \A x \in Owned : ~SliceOwns(x, c)
          /\ \A b \in Array, j \in Index : ElementOwns(b, j, c) => b = a
          /\ \A p \in Payload : ~BlockOwns(p, c)
      BY <3>1, Exclusive
    <3>3. ~LiveCell(c)'
      BY <1>5, <2>1
    <3>. QED BY <1>10, <3>2, <3>3, NoOwner
  <2>2. CASE c \notin F
    <3>1. OneOwner(c) /\ (LiveCell(c)' <=> LiveCell(c))
      BY <1>5, <2>2, Exclusive
    <3>2. \A b \in Array, i \in Index : ElementOwns(b, i, c)' <=> ElementOwns(b, i, c)
      BY <1>3, <1>10, <2>2
    <3>. QED BY <1>10, <3>1, <3>2, SameOwners
  <2>. QED BY <2>1, <2>2
<1>12. PlacesAreCoherent'
  BY <1>1, <1>6 DEF PlacesAreCoherent, CollectionsInv
<1>13. \A o \in Lender \ {a}, c \in Cell : Owns(o, c) => Owns(o, c)'
  BY <1>10 DEF Owns, Payload
<1>14. \A b \in Borrower \ {a} : loans[b] \subseteq loans'[b]
  BY <1>1 DEF CollectionsInv, TypeOK
<1>15. BorrowsAreSecured'
  <2>1. /\ \A v \in View \ {a} : view'[v] = view[v] => SecuredView(v)'
        /\ \A b \in Array \ {a} : array'[b] = array[b] => SecuredArray(b)'
        /\ \A l \in Other \ {a} : bytes'[l] = bytes[l] => SecuredOther(l)'
    BY <1>1, <1>13, <1>14, KeptBorrows
  <2>2. SecuredArray(a)'
    BY <1>6 DEF SecuredArray
  <2>. QED BY <1>1, <1>6, <1>7, <2>1, <2>2 DEF BorrowsAreSecured
<1>. QED BY <1>5, <1>8, <1>9, <1>11, <1>12, <1>15 DEF CollectionsInv, CellsAreOwnedOnce

------------------------------------------------------------------------------
(* Payloads.  What a step does to a cell when slices and arrays stay as     *)
(* they are: nothing, a new cell gets a payload for owner, or the last      *)
(* payload lets go of it.                                                   *)
BlocksOwn(c) == \E p \in Payload : BlockOwns(p, c)

CellMoves(c) ==
    \/ (LiveCell(c)' <=> LiveCell(c)) /\ (BlocksOwn(c)' <=> BlocksOwn(c))
    \/ ~LiveCell(c) /\ LiveCell(c)' /\ BlocksOwn(c)'
    \/ ~LiveCell(c)' /\ BlocksOwn(c) /\ ~BlocksOwn(c)'

LEMMA PayloadCells ==
  ASSUME CollectionsInv, UNCHANGED <<slice, array>>, NEW c \in Cell, CellMoves(c)
  PROVE  OneOwner(c)'
<1>1. /\ \A x \in Owned : SliceOwns(x, c)' <=> SliceOwns(x, c)
      /\ \A a \in Array, i \in Index : ElementOwns(a, i, c)' <=> ElementOwns(a, i, c)
  BY DEF SliceOwns, ElementOwns
<1>2. CASE (LiveCell(c)' <=> LiveCell(c)) /\ (BlocksOwn(c)' <=> BlocksOwn(c))
  BY <1>1, <1>2, Exclusive, SharedOwners DEF BlocksOwn
<1>3. CASE ~LiveCell(c) /\ LiveCell(c)' /\ BlocksOwn(c)'
  <2>1. /\ \A x \in Owned : ~SliceOwns(x, c)'
        /\ \A a \in Array, i \in Index : ~ElementOwns(a, i, c)'
    BY <1>1, <1>3, Exclusive
  <2>2. PICK p \in Payload : BlockOwns(p, c)'
    BY <1>3 DEF BlocksOwn
  <2>. QED BY <1>3, <2>1, <2>2, BlocksAreOwner
<1>4. CASE ~LiveCell(c)' /\ BlocksOwn(c) /\ ~BlocksOwn(c)'
  <2>1. /\ \A x \in Owned : ~SliceOwns(x, c)'
        /\ \A a \in Array, i \in Index : ~ElementOwns(a, i, c)'
    BY <1>1, <1>4, Exclusive DEF BlocksOwn
  <2>2. \A p \in Payload : ~BlockOwns(p, c)'
    BY <1>4 DEF BlocksOwn
  <2>. QED BY <1>4, <2>1, <2>2, NoOwner
<1>. QED BY <1>2, <1>3, <1>4 DEF CellMoves

LEMMA PayloadInv ==
  ASSUME CollectionsInv, TypeOK', UNCHANGED <<slice, view, array>>,
         \A c \in DOMAIN mem' : mem'[c] \in {"live", "freed"},
         \A c \in Cell : CellMoves(c),
         \A p \in Payload : \A i \in DOMAIN bytes'[p] : Coherent(bytes'[p][i]),
         \A p \in Bytes \cup Writer : \A i \in DOMAIN bytes'[p] : ~Borrowed(bytes'[p][i]),
         NEW X \in SUBSET (Bytes \cup Other), \A d \in X : ~Lent(d),
         \A b \in Borrower \ X : loans'[b] = loans[b],
         \A p \in (Bytes \cup Other) \ X, c \in Cell : BlockOwns(p, c) => BlockOwns(p, c)',
         \A k \in Other \ X : bytes'[k] = bytes[k],
         \A k \in Other \cap X : SecuredOther(k)'
  PROVE  CollectionsInv'
<1>1. CellsAreOwnedOnce'
  BY PayloadCells DEF CellsAreOwnedOnce
<1>2. PlacesAreCoherent'
  BY DEF PlacesAreCoherent, CollectionsInv
<1>3. \A o \in Lender \ X, c \in Cell : Owns(o, c) => Owns(o, c)'
  BY DEF Owns, SliceOwns, ElementOwns
<1>4. \A b \in Borrower \ X : loans[b] \subseteq loans'[b]
  OBVIOUS
<1>5. BorrowsAreSecured'
  <2>1. /\ \A v \in View \ X : view'[v] = view[v] => SecuredView(v)'
        /\ \A a \in Array \ X : array'[a] = array[a] => SecuredArray(a)'
        /\ \A k \in Other \ X : bytes'[k] = bytes[k] => SecuredOther(k)'
    BY <1>3, <1>4, KeptBorrows
  <2>2. View \cap X = {} /\ Array \cap X = {}
    BY VariablesAssumption
  <2>. QED BY <2>1, <2>2 DEF BorrowsAreSecured
<1>. QED BY <1>1, <1>2, <1>5 DEF CollectionsInv

LEMMA Payloads ==
  ASSUME CollectionsInv, NEW p \in Payload
  PROVE  /\ bytes[p] \in Seq(CSlice) /\ Len(bytes[p]) \in Nat /\ DOMAIN bytes[p] = 1..Len(bytes[p])
         /\ \A i \in DOMAIN bytes[p] : bytes[p][i] \in CSlice /\ Coherent(bytes[p][i])
         /\ p \in Bytes \cup Writer => \A i \in DOMAIN bytes[p] : ~Borrowed(bytes[p][i])
<1>1. bytes[p] \in Seq(CSlice)
  BY DEF CollectionsInv, TypeOK
<1>2. DOMAIN bytes[p] = 1..Len(bytes[p]) /\ Len(bytes[p]) \in Nat
  BY <1>1, LenProperties
<1>3. \A i \in DOMAIN bytes[p] : bytes[p][i] \in CSlice
  BY <1>1, <1>2, ElementOfSeq
<1>. QED BY <1>1, <1>2, <1>3 DEF CollectionsInv, PlacesAreCoherent

(* A new block in a payload.                                                *)
LEMMA StoreCells ==
  ASSUME CollectionsInv, NEW p \in Payload, NEW e,
         (e = None /\ Grown(mem', 0)) \/ (e = Fresh /\ Grown(mem', 1)),
         \A q \in Payload \ {p}, c \in Cell : BlockOwns(q, c)' <=> BlockOwns(q, c),
         \A c \in Cell : BlockOwns(p, c)' <=> BlockOwns(p, c) \/ c = e
  PROVE  /\ \A c \in DOMAIN mem' : mem'[c] \in {"live", "freed"}
         /\ \A c \in Cell : CellMoves(c)
<1>1. /\ \A c \in DOMAIN mem' : mem'[c] \in {"live", "freed"}
      /\ \A c \in Cell : c # e => (LiveCell(c)' <=> LiveCell(c))
      /\ e \in Cell => LiveCell(e)' /\ ~LiveCell(e)
  BY MemoryDomain, GrownCells, Pointers DEF CollectionsInv
<1>2. ASSUME NEW c \in Cell PROVE CellMoves(c)
  <2>1. CASE c = e
    BY <1>1, <2>1 DEF CellMoves, BlocksOwn
  <2>2. CASE c # e
    BY <1>1, <2>2 DEF CellMoves, BlocksOwn
  <2>. QED BY <2>1, <2>2
<1>. QED BY <1>1, <1>2

(* The last payload to refer to a cell frees it.                            *)
LEMMA LastRefsAre ==
  ASSUME CollectionsInv, NEW p \in Payload
  PROVE  \A c : c \in LastRefs(p) <=> /\ c \in Cell /\ BlockOwns(p, c)
                                      /\ \A q \in Payload \ {p} : ~BlockOwns(q, c)
<1>1. ASSUME NEW q \in Payload
      PROVE  \A c : c \in Drops(ToSet(bytes[q])) <=> c \in Cell /\ BlockOwns(q, c)
  <2>1. \A i \in DOMAIN bytes[q] : bytes[q][i] \in CSlice
    BY Payloads
  <2>. QED BY <2>1, Pointers DEF Drops, ToSet, BlockOwns, CSlice
<1>2. \A c : c \in UNION {Drops(ToSet(bytes[q])) : q \in Payload \ {p}}
               <=> \E q \in Payload \ {p} : c \in Drops(ToSet(bytes[q]))
  OBVIOUS
<1>. QED BY <1>1, <1>2 DEF LastRefs

LEMMA ReleaseCells ==
  ASSUME CollectionsInv, NEW p \in Payload, mem' = Freed(mem, LastRefs(p)),
         \A q \in Payload \ {p}, c \in Cell : BlockOwns(q, c)' <=> BlockOwns(q, c),
         \A c \in Cell : ~BlockOwns(p, c)'
  PROVE  /\ mem' \in Seq({"live", "freed", "twice"}) /\ Len(mem') <= MaxCells
         /\ \A c \in DOMAIN mem' : mem'[c] \in {"live", "freed"}
         /\ \A c \in Cell : CellMoves(c)
<1> DEFINE F == LastRefs(p)
<1>1. \A c : c \in F <=> /\ c \in Cell /\ BlockOwns(p, c)
                         /\ \A q \in Payload \ {p} : ~BlockOwns(q, c)
  BY LastRefsAre
<1> HIDE DEF F
<1>2. \A c \in F : c \in Cell /\ LiveCell(c)
  BY <1>1, Exclusive
<1>3. /\ mem' \in Seq({"live", "freed", "twice"}) /\ Len(mem') = Len(mem)
      /\ \A c \in DOMAIN mem' : mem'[c] \in {"live", "freed"}
      /\ \A c \in Cell : LiveCell(c)' <=> LiveCell(c) /\ c \notin F
  BY <1>2, FreedCells DEF F
<1>4. ASSUME NEW c \in Cell PROVE CellMoves(c)
  <2>1. CASE c \in F
    BY <1>1, <1>3, <2>1 DEF CellMoves, BlocksOwn
  <2>2. CASE c \notin F
    <3>1. BlocksOwn(c)' <=> BlocksOwn(c)
      BY <1>1, <2>2 DEF BlocksOwn
    <3>. QED BY <1>3, <2>2, <3>1 DEF CellMoves
  <2>. QED BY <2>1, <2>2
<1>. QED BY <1>3, <1>4 DEF CollectionsInv, TypeOK

LEMMA FillPayload ==
  ASSUME CollectionsInv, NEW p \in Bytes, NEW s, NEW m, Made(s, m), FromCSlice(p, s, m),
         UNCHANGED <<scope, slice, view, array, open, loans>>
  PROVE  CollectionsInv'
<1>1. /\ s \in CSlice /\ Coherent(s) /\ ~Borrowed(s) /\ p \in Payload /\ p \notin Writer /\ p \notin Other
      /\ bytes[p] = <<>>
  BY VariablesAssumption DEF Made, Payload, FromCSlice
<1>2. ASSUME NEW c \in Cell PROVE ~BlockOwns(p, c)
  BY <1>1 DEF BlockOwns
<1>3. CASE s.len = 0
  <2>1. /\ bytes' = [bytes EXCEPT ![p] = <<>>] /\ mem' = Freed(m, Drops({s}))
    BY <1>3 DEF FromCSlice, Kept
  <2>2. bytes' = bytes
    BY <1>1, <2>1 DEF CollectionsInv, TypeOK
  <2>3. m \in Seq({"live", "freed", "twice"}) /\ Len(m) <= MaxCells /\ DOMAIN m = 1..Len(m)
    BY LenProperties DEF Made, Grown
  <2>4. /\ mem' \in Seq({"live", "freed", "twice"}) /\ Len(mem') = Len(m) /\ DOMAIN mem' = DOMAIN m
        /\ \A c \in DOMAIN m : mem'[c] = IF c \notin Drops({s}) THEN m[c]
                                  ELSE IF m[c] = "live" THEN "freed" ELSE "twice"
    BY <2>1, <2>3, FreedMemory
  <2>5. /\ Len(mem) \in Nat /\ DOMAIN mem = 1..Len(mem) /\ Fresh = Len(mem) + 1
        /\ \A c \in DOMAIN mem : mem[c] \in {"live", "freed"}
    BY MemoryDomain DEF CollectionsInv, CellsAreOwnedOnce
  <2>6. /\ \A c \in DOMAIN mem' : mem'[c] \in {"live", "freed"}
        /\ \A c \in Cell : LiveCell(c)' <=> LiveCell(c)
    <3>1. CASE s.drop = None /\ Grown(m, 0)
      <4>1. Drops({s}) = {}
        BY <3>1 DEF Drops
      <4>2. DOMAIN m = DOMAIN mem /\ \A c \in DOMAIN mem : m[c] = mem[c]
        BY <2>3, <2>5, <3>1 DEF Grown
      <4>3. DOMAIN mem' = DOMAIN mem /\ \A c \in DOMAIN mem : mem'[c] = mem[c]
        BY <2>4, <4>1, <4>2
      <4>. QED BY <2>5, <4>3 DEF LiveCell
    <3>2. CASE s.drop = Fresh /\ Grown(m, 1)
      <4>1. Fresh \in Cell
        BY <2>5, <3>2, Pointers DEF Grown, Cell
      <4>2. Drops({s}) = {Fresh}
        BY <3>2, <4>1, Pointers DEF Drops
      <4>3. /\ DOMAIN m = DOMAIN mem \cup {Fresh} /\ Fresh \notin DOMAIN mem
            /\ m[Fresh] = "live" /\ \A c \in DOMAIN mem : m[c] = mem[c]
        BY <2>3, <2>5, <3>2 DEF Grown
      <4>4. /\ DOMAIN mem' = DOMAIN mem \cup {Fresh} /\ mem'[Fresh] = "freed"
            /\ \A c \in DOMAIN mem : mem'[c] = mem[c]
        BY <2>4, <4>2, <4>3
      <4>. QED BY <2>5, <4>3, <4>4 DEF LiveCell
    <3>. QED BY <3>1, <3>2 DEF Made
  <2>7. TypeOK'
    BY <2>2, <2>3, <2>4 DEF CollectionsInv, TypeOK
  <2>8. \A c \in Cell : CellMoves(c)
    BY <2>2, <2>6 DEF CellMoves, BlocksOwn, BlockOwns
  <2>9. \A q \in Payload, c \in Cell : BlockOwns(q, c)' <=> BlockOwns(q, c)
    BY <2>2 DEF BlockOwns
  <2>10. /\ \A q \in Payload : \A i \in DOMAIN bytes'[q] : Coherent(bytes'[q][i])
         /\ \A q \in Bytes \cup Writer : \A i \in DOMAIN bytes'[q] : ~Borrowed(bytes'[q][i])
    BY <2>2 DEF CollectionsInv, PlacesAreCoherent
  <2> DEFINE X == {}
  <2>11. X \in SUBSET (Bytes \cup Other) /\ X = {}
    OBVIOUS
  <2> HIDE DEF X
  <2>. QED BY <2>2, <2>6, <2>7, <2>8, <2>9, <2>10, <2>11, PayloadInv DEF Payload
<1>4. CASE s.len # 0
  <2>1. /\ bytes' = [bytes EXCEPT ![p] = <<s>>] /\ mem' = m
    BY <1>4 DEF FromCSlice, Kept
  <2>2. bytes'[p] = <<s>> /\ \A q \in Payload \ {p} : bytes'[q] = bytes[q]
    BY <1>1, <2>1 DEF CollectionsInv, TypeOK
  <2>3. DOMAIN bytes'[p] = {1} /\ bytes'[p][1] = s
    BY <2>2
  <2>4. TypeOK'
    BY <1>1, <2>1, <2>2 DEF CollectionsInv, TypeOK, Made, Grown
  <2>5. /\ \A q \in Payload \ {p}, c \in Cell : BlockOwns(q, c)' <=> BlockOwns(q, c)
        /\ \A c \in Cell : BlockOwns(p, c)' <=> BlockOwns(p, c) \/ c = s.drop
    BY <1>2, <2>2, <2>3 DEF BlockOwns
  <2>6. /\ \A c \in DOMAIN mem' : mem'[c] \in {"live", "freed"}
        /\ \A c \in Cell : CellMoves(c)
    BY <1>1, <2>1, <2>5, StoreCells DEF Made
  <2>7. /\ \A q \in Payload : \A i \in DOMAIN bytes'[q] : Coherent(bytes'[q][i])
        /\ \A q \in Bytes \cup Writer : \A i \in DOMAIN bytes'[q] : ~Borrowed(bytes'[q][i])
    BY <1>1, <2>2, <2>3 DEF CollectionsInv, PlacesAreCoherent, Payload
  <2>8. \A q \in (Bytes \cup Other) \ {}, c \in Cell : BlockOwns(q, c) => BlockOwns(q, c)'
    BY <2>5 DEF Payload
  <2>9. \A k \in Other : bytes'[k] = bytes[k]
    BY <1>1, <2>2 DEF Payload
  <2> DEFINE X == {}
  <2>10. X \in SUBSET (Bytes \cup Other) /\ X = {}
    OBVIOUS
  <2> HIDE DEF X
  <2>. QED BY <2>4, <2>6, <2>7, <2>8, <2>9, <2>10, PayloadInv
<1>. QED BY <1>3, <1>4

LEMMA MoveInInv ==
  ASSUME CollectionsInv, NEW p \in Bytes, NEW x \in Owned, MoveIn(p, x), UNCHANGED scope
  PROVE  CollectionsInv'
<1> DEFINE s == slice[x]
<1>1. /\ ~Lent(x) /\ ~Lent(p) /\ bytes[p] = <<>> /\ bytes' = [bytes EXCEPT ![p] = Kept(s)]
      /\ mem' = IF s.len = 0 THEN Freed(mem, Drops({s})) ELSE mem
      /\ slice' = [slice EXCEPT ![x] = Gravestone] /\ UNCHANGED <<view, array, open, loans>>
  BY DEF MoveIn, FromCSlice
<1>2. p \in Payload /\ p \notin Writer /\ p \notin Other /\ x \notin Borrower
  BY VariablesAssumption DEF Payload, Borrower, Owned
<1>3. CASE s.len = 0
  <2>1. bytes' = bytes
    BY <1>1, <1>2, <1>3 DEF CollectionsInv, TypeOK, Kept
  <2>. QED BY <1>1, <1>3, <2>1, DropSliceInv DEF DropSlice
<1>4. CASE s.len # 0
  <2>1. /\ bytes' = [bytes EXCEPT ![p] = <<s>>] /\ mem' = mem
    BY <1>1, <1>4 DEF Kept
  <2>2. bytes'[p] = <<s>> /\ \A q \in Payload \ {p} : bytes'[q] = bytes[q]
    BY <1>2, <2>1 DEF CollectionsInv, TypeOK
  <2>3. DOMAIN bytes'[p] = {1} /\ bytes'[p][1] = s
    BY <2>2
  <2>4. s \in CSlice /\ Coherent(s) /\ ~Borrowed(s)
    BY DEF CollectionsInv, TypeOK, PlacesAreCoherent
  <2>5. TypeOK'
    <3>1. slice' \in [Owned -> CSlice]
      BY <1>1, Pointers DEF CollectionsInv, TypeOK
    <3>2. <<s>> \in Seq(CSlice)
      BY <2>4
    <3>3. bytes' \in [Payload -> Seq(CSlice)]
      BY <2>1, <3>2 DEF CollectionsInv, TypeOK
    <3>4. \A w \in Writer \ open : bytes'[w] = <<>>
      BY <1>2, <2>2 DEF CollectionsInv, TypeOK, Payload
    <3>. QED BY <1>1, <2>1, <3>1, <3>3, <3>4 DEF CollectionsInv, TypeOK
  <2>6. /\ \A q \in Payload \ {p}, c \in Cell : BlockOwns(q, c)' <=> BlockOwns(q, c)
        /\ \A c \in Cell : BlockOwns(p, c)' <=> c = s.drop
        /\ \A c \in Cell : ~BlockOwns(p, c)
    BY <1>1, <2>2, <2>3 DEF BlockOwns
  <2>7. /\ \A y \in Owned, c \in Cell : SliceOwns(y, c)' <=> y # x /\ SliceOwns(y, c)
        /\ \A c \in Cell : SliceOwns(x, c) <=> c = s.drop
        /\ \A a \in Array, i \in Index, c \in Cell : ElementOwns(a, i, c)' <=> ElementOwns(a, i, c)
        /\ \A c \in Cell : LiveCell(c)' <=> LiveCell(c)
    BY <1>1, <2>1, Pointers DEF CollectionsInv, TypeOK, SliceOwns, ElementOwns, LiveCell
  <2> HIDE DEF s
  <2>8. ASSUME NEW c \in Cell PROVE OneOwner(c)'
    <3>1. CASE c = s.drop
      <4>1. /\ LiveCell(c) /\ \A y \in Owned : SliceOwns(y, c) => y = x
            /\ \A a \in Array, i \in Index : ~ElementOwns(a, i, c)
        BY <2>7, <3>1, Exclusive
      <4>. QED BY <1>2, <2>6, <2>7, <3>1, <4>1, BlocksAreOwner
    <3>2. CASE c # s.drop
      <4>1. /\ \A y \in Owned : SliceOwns(y, c)' <=> SliceOwns(y, c)
            /\ \A q \in Payload : BlockOwns(q, c)' <=> BlockOwns(q, c)
        BY <2>6, <2>7, <3>2
      <4>2. OneOwner(c)
        BY Exclusive
      <4>. QED BY <2>7, <4>1, <4>2, SameOwners
    <3>. QED BY <3>1, <3>2
  <2>9. CellsAreOwnedOnce'
    BY <2>1, <2>8 DEF CollectionsInv, CellsAreOwnedOnce
  <2>10. PlacesAreCoherent'
    <3>1. \A y \in Owned : slice'[y] = Gravestone \/ slice'[y] = slice[y]
      BY <1>1 DEF CollectionsInv, TypeOK
    <3>2. Coherent(Gravestone) /\ ~Borrowed(Gravestone)
      BY Pointers DEF Coherent, Borrowed
    <3>. QED BY <1>1, <1>2, <2>2, <2>3, <2>4, <3>1, <3>2 DEF CollectionsInv, PlacesAreCoherent, Payload
  <2>11. \A o \in Lender \ {x}, c \in Cell : Owns(o, c) => Owns(o, c)'
    BY <2>6, <2>7 DEF Owns, Payload
  <2>12. BorrowsAreSecured'
    <3>1. /\ \A v \in View \ {x} : view'[v] = view[v] => SecuredView(v)'
          /\ \A a \in Array \ {x} : array'[a] = array[a] => SecuredArray(a)'
          /\ \A k \in Other \ {x} : bytes'[k] = bytes[k] => SecuredOther(k)'
      BY <1>1, <2>11, KeptBorrows
    <3>. QED BY <1>1, <1>2, <2>2, <3>1 DEF BorrowsAreSecured, Borrower, Payload
  <2>. QED BY <1>1, <2>5, <2>9, <2>10, <2>12 DEF CollectionsInv
<1>. QED BY <1>3, <1>4

(* Clones share, appending and finishing move: what payloads own together   *)
(* stays the same.                                                          *)
LEMMA SharedCells ==
  ASSUME mem' = mem, \A c \in Cell : BlocksOwn(c)' <=> BlocksOwn(c)
  PROVE  \A c \in Cell : CellMoves(c)
BY DEF CellMoves, LiveCell

LEMMA BytesCloneInv ==
  ASSUME CollectionsInv, NEW p \in Bytes, NEW q \in Bytes, z_bytes_clone(p, q), UNCHANGED scope
  PROVE  CollectionsInv'
<1>1. /\ bytes[p] = <<>> /\ bytes' = [bytes EXCEPT ![p] = bytes[q]]
      /\ UNCHANGED <<mem, slice, view, array, open, loans>>
  BY DEF z_bytes_clone
<1>2. p \in Payload /\ q \in Payload /\ p \notin Writer /\ p \notin Other
  BY VariablesAssumption DEF Payload
<1>3. bytes'[p] = bytes[q] /\ \A r \in Payload \ {p} : bytes'[r] = bytes[r]
  BY <1>1, <1>2 DEF CollectionsInv, TypeOK
<1>4. TypeOK'
  <2>1. bytes' \in [Payload -> Seq(CSlice)]
    BY <1>1, <1>2 DEF CollectionsInv, TypeOK
  <2>2. \A w \in Writer : bytes'[w] = bytes[w]
    BY <1>2, <1>3 DEF Payload
  <2>. QED BY <1>1, <2>1, <2>2 DEF CollectionsInv, TypeOK
<1>5. \A c \in Cell : /\ BlockOwns(p, c)' <=> BlockOwns(q, c)
                      /\ ~BlockOwns(p, c)
                      /\ \A r \in Payload \ {p} : BlockOwns(r, c)' <=> BlockOwns(r, c)
  BY <1>1, <1>3 DEF BlockOwns
<1>6. \A c \in Cell : CellMoves(c)
  BY <1>1, <1>2, <1>5, SharedCells DEF BlocksOwn
<1>7. /\ \A r \in Payload : \A i \in DOMAIN bytes'[r] : Coherent(bytes'[r][i])
      /\ \A r \in Bytes \cup Writer : \A i \in DOMAIN bytes'[r] : ~Borrowed(bytes'[r][i])
  BY <1>2, <1>3 DEF CollectionsInv, PlacesAreCoherent, Payload
<1>8. \A r \in Bytes \cup Other, c \in Cell : BlockOwns(r, c) => BlockOwns(r, c)'
  BY <1>5 DEF Payload
<1>9. \A k \in Other : bytes'[k] = bytes[k]
  BY <1>2, <1>3 DEF Payload
<1>10. \A c \in DOMAIN mem' : mem'[c] \in {"live", "freed"}
  BY <1>1 DEF CollectionsInv, CellsAreOwnedOnce
<1> DEFINE X == {}
<1>11. X \in SUBSET (Bytes \cup Other) /\ X = {}
  OBVIOUS
<1> HIDE DEF X
<1>. QED BY <1>1, <1>4, <1>6, <1>7, <1>8, <1>9, <1>10, <1>11, PayloadInv

(* z_bytes_drop and z_bytes_writer_drop.                                    *)
LEMMA ReleasePayload ==
  ASSUME CollectionsInv, NEW p \in Bytes \cup Writer, p \in Bytes => ~Lent(p),
         bytes' = [bytes EXCEPT ![p] = <<>>], mem' = Freed(mem, LastRefs(p)),
         open' \in {open, open \ {p}}, UNCHANGED <<scope, slice, view, array, loans>>
  PROVE  CollectionsInv'
<1>1. p \in Payload /\ p \notin Other /\ (p \in Bytes <=> p \notin Writer)
  BY VariablesAssumption DEF Payload
<1>2. bytes'[p] = <<>> /\ \A r \in Payload \ {p} : bytes'[r] = bytes[r]
  BY <1>1 DEF CollectionsInv, TypeOK
<1>3. \A c \in Cell : /\ ~BlockOwns(p, c)'
                      /\ \A r \in Payload \ {p} : BlockOwns(r, c)' <=> BlockOwns(r, c)
  BY <1>2 DEF BlockOwns
<1>4. /\ mem' \in Seq({"live", "freed", "twice"}) /\ Len(mem') <= MaxCells
      /\ \A c \in DOMAIN mem' : mem'[c] \in {"live", "freed"}
      /\ \A c \in Cell : CellMoves(c)
  BY <1>1, <1>3, ReleaseCells
<1>5. TypeOK'
  <2>1. bytes' \in [Payload -> Seq(CSlice)]
    BY EmptySeq DEF CollectionsInv, TypeOK
  <2>2. open' \subseteq Writer /\ \A w \in Writer \ open' : bytes'[w] = <<>>
    BY <1>2 DEF CollectionsInv, TypeOK, Payload
  <2>. QED BY <1>4, <2>1, <2>2 DEF CollectionsInv, TypeOK
<1>6. /\ \A r \in Payload : \A i \in DOMAIN bytes'[r] : Coherent(bytes'[r][i])
      /\ \A r \in Bytes \cup Writer : \A i \in DOMAIN bytes'[r] : ~Borrowed(bytes'[r][i])
  BY <1>2 DEF CollectionsInv, PlacesAreCoherent, Payload
<1> DEFINE X == {p} \cap Bytes
<1>7. /\ X \in SUBSET (Bytes \cup Other) /\ \A d \in X : ~Lent(d)
      /\ \A r \in (Bytes \cup Other) \ X : r # p /\ r \in Payload
      /\ X \cap Other = {}
  BY <1>1 DEF Payload
<1> HIDE DEF X
<1>8. \A r \in (Bytes \cup Other) \ X, c \in Cell : BlockOwns(r, c) => BlockOwns(r, c)'
  BY <1>3, <1>7
<1>9. \A k \in Other \ X : bytes'[k] = bytes[k]
  BY <1>2, <1>7
<1>. QED BY <1>4, <1>5, <1>6, <1>7, <1>8, <1>9, PayloadInv

LEMMA WriteAllInv ==
  ASSUME CollectionsInv, NEW w \in Writer, z_bytes_writer_write_all(w), UNCHANGED scope
  PROVE  CollectionsInv'
<1> DEFINE s == FromVec(1, Fresh)
           n == Len(bytes[w]) + 1
<1>1. /\ w \in open /\ Len(mem) < MaxCells /\ bytes' = [bytes EXCEPT ![w] = Append(@, s)]
      /\ mem' = Boxes(1) /\ UNCHANGED <<slice, view, array, open, loans>>
  BY DEF z_bytes_writer_write_all
<1>2. Made(s, mem')
  BY <1>1, OwnedIsMade DEF CollectionsInv
<1> HIDE DEF s
<1>3. w \in Payload /\ w \notin Bytes /\ w \notin Other
  BY VariablesAssumption DEF Payload
<1>4. bytes'[w] = Append(bytes[w], s) /\ \A r \in Payload \ {w} : bytes'[r] = bytes[r]
  BY <1>1, <1>3 DEF CollectionsInv, TypeOK
<1>5. s \in CSlice /\ Coherent(s) /\ ~Borrowed(s)
  BY <1>2 DEF Made
<1>6. /\ bytes[w] \in Seq(CSlice) /\ Len(bytes[w]) \in Nat /\ DOMAIN bytes[w] = 1..Len(bytes[w])
      /\ \A i \in DOMAIN bytes[w] : Coherent(bytes[w][i]) /\ ~Borrowed(bytes[w][i])
  BY <1>3, Payloads
<1>7. /\ bytes'[w] \in Seq(CSlice) /\ DOMAIN bytes'[w] = 1..n
      /\ \A i \in 1..Len(bytes[w]) : bytes'[w][i] = bytes[w][i]
      /\ bytes'[w][n] = s
  BY <1>4, <1>5, <1>6, AppendProperties, LenProperties
<1>8. DOMAIN bytes'[w] = DOMAIN bytes[w] \cup {n}
  BY <1>6, <1>7
<1>9. TypeOK'
  <2>1. bytes' \in [Payload -> Seq(CSlice)]
    BY <1>1, <1>3, <1>4, <1>7 DEF CollectionsInv, TypeOK
  <2>2. \A u \in Writer \ open : bytes'[u] = <<>>
    BY <1>1, <1>4 DEF CollectionsInv, TypeOK, Payload
  <2>. QED BY <1>1, <1>2, <2>1, <2>2 DEF CollectionsInv, TypeOK, Made, Grown
<1>10. /\ \A r \in Payload \ {w}, c \in Cell : BlockOwns(r, c)' <=> BlockOwns(r, c)
       /\ \A c \in Cell : BlockOwns(w, c)' <=> BlockOwns(w, c) \/ c = s.drop
  BY <1>4, <1>6, <1>7, <1>8 DEF BlockOwns
<1>11. /\ \A c \in DOMAIN mem' : mem'[c] \in {"live", "freed"}
       /\ \A c \in Cell : CellMoves(c)
  BY <1>2, <1>3, <1>10, StoreCells DEF Made
<1>12. /\ \A r \in Payload : \A i \in DOMAIN bytes'[r] : Coherent(bytes'[r][i])
       /\ \A r \in Bytes \cup Writer : \A i \in DOMAIN bytes'[r] : ~Borrowed(bytes'[r][i])
  <2>1. \A i \in DOMAIN bytes'[w] : Coherent(bytes'[w][i]) /\ ~Borrowed(bytes'[w][i])
    BY <1>5, <1>6, <1>7, <1>8
  <2>. QED BY <1>4, <2>1 DEF CollectionsInv, PlacesAreCoherent, Payload
<1>13. \A r \in Bytes \cup Other, c \in Cell : BlockOwns(r, c) => BlockOwns(r, c)'
  BY <1>3, <1>10 DEF Payload
<1>14. \A k \in Other : bytes'[k] = bytes[k]
  BY <1>3, <1>4 DEF Payload
<1> DEFINE X == {}
<1>15. X \in SUBSET (Bytes \cup Other) /\ X = {}
  OBVIOUS
<1> HIDE DEF X
<1>. QED BY <1>1, <1>9, <1>11, <1>12, <1>13, <1>14, <1>15, PayloadInv

Joins(u, s, t) ==
    /\ \A i \in DOMAIN u : (\E j \in DOMAIN s : u[i] = s[j]) \/ (\E j \in DOMAIN t : u[i] = t[j])
    /\ \A j \in DOMAIN s : \E i \in DOMAIN u : u[i] = s[j]
    /\ \A j \in DOMAIN t : \E i \in DOMAIN u : u[i] = t[j]

LEMMA Concatenated ==
  ASSUME NEW S, NEW s \in Seq(S), NEW t \in Seq(S)
  PROVE  Joins(s \o t, s, t)
<1> DEFINE u == s \o t
<1>1. /\ u \in Seq(S) /\ Len(u) = Len(s) + Len(t)
      /\ \A i \in 1 .. Len(s) + Len(t) : u[i] = IF i <= Len(s) THEN s[i] ELSE t[i - Len(s)]
  BY ConcatProperties
<1> HIDE DEF u
<1>2. /\ DOMAIN u = 1..Len(s) + Len(t) /\ DOMAIN s = 1..Len(s) /\ DOMAIN t = 1..Len(t)
      /\ Len(s) \in Nat /\ Len(t) \in Nat
  BY <1>1, LenProperties
<1>3. ASSUME NEW i \in DOMAIN u
      PROVE  \/ \E j \in DOMAIN s : u[i] = s[j]
             \/ \E j \in DOMAIN t : u[i] = t[j]
  <2>1. CASE i <= Len(s)
    BY <1>1, <1>2, <2>1
  <2>2. CASE ~(i <= Len(s))
    <3>1. i - Len(s) \in DOMAIN t /\ u[i] = t[i - Len(s)]
      BY <1>1, <1>2, <2>2
    <3>. QED BY <3>1
  <2>. QED BY <2>1, <2>2
<1>4. ASSUME NEW j \in DOMAIN s PROVE j \in DOMAIN u /\ u[j] = s[j]
  BY <1>1, <1>2
<1>5. ASSUME NEW j \in DOMAIN t PROVE \E i \in DOMAIN u : u[i] = t[j]
  <2>1. Len(s) + j \in 1..Len(s) + Len(t) /\ ~(Len(s) + j <= Len(s)) /\ (Len(s) + j) - Len(s) = j
    BY <1>2
  <2>2. u[Len(s) + j] = t[j]
    BY <1>1, <2>1
  <2>. QED BY <1>2, <2>1, <2>2
<1>6. Joins(u, s, t)
  BY <1>3, <1>4, <1>5 DEF Joins
<1>. QED BY <1>6 DEF u

LEMMA AppendInv ==
  ASSUME CollectionsInv, NEW w \in Writer, NEW p \in Bytes, z_bytes_writer_append(w, p), UNCHANGED scope
  PROVE  CollectionsInv'
<1>1. /\ w \in open /\ ~Lent(p) /\ bytes' = [bytes EXCEPT ![w] = @ \o bytes[p], ![p] = <<>>]
      /\ UNCHANGED <<mem, slice, view, array, open, loans>>
  BY DEF z_bytes_writer_append
<1>2. w \in Payload /\ p \in Payload /\ w # p /\ w \notin Bytes /\ w \notin Other /\ p \notin Other /\ p \notin Writer
  BY VariablesAssumption DEF Payload
<1>3. /\ bytes'[w] = bytes[w] \o bytes[p] /\ bytes'[p] = <<>>
      /\ \A r \in Payload \ {w, p} : bytes'[r] = bytes[r]
  BY <1>1, <1>2 DEF CollectionsInv, TypeOK
<1>4. /\ bytes[w] \in Seq(CSlice) /\ bytes[p] \in Seq(CSlice)
      /\ \A i \in DOMAIN bytes[w] : Coherent(bytes[w][i]) /\ ~Borrowed(bytes[w][i])
      /\ \A i \in DOMAIN bytes[p] : Coherent(bytes[p][i]) /\ ~Borrowed(bytes[p][i])
  BY <1>2, Payloads
<1>5. bytes'[w] \in Seq(CSlice)
  BY <1>3, <1>4, ConcatProperties
<1>6. Joins(bytes'[w], bytes[w], bytes[p])
  <2>1. Joins(bytes[w] \o bytes[p], bytes[w], bytes[p])
    BY <1>4, Concatenated
  <2>. QED BY <1>3, <2>1
<1>7. TypeOK'
  <2>1. bytes' \in [Payload -> Seq(CSlice)]
    <3>1. bytes' = [r \in Payload |-> bytes'[r]]
      BY <1>1 DEF CollectionsInv, TypeOK
    <3>2. \A r \in Payload : bytes'[r] \in Seq(CSlice)
      BY <1>2, <1>3, <1>5, Payloads, EmptySeq
    <3>. QED BY <3>1, <3>2
  <2>2. \A u \in Writer \ open : bytes'[u] = <<>>
    BY <1>1, <1>2, <1>3 DEF CollectionsInv, TypeOK, Payload
  <2>. QED BY <1>1, <2>1, <2>2 DEF CollectionsInv, TypeOK
<1>8. \A c \in Cell : /\ BlockOwns(w, c)' <=> BlockOwns(w, c) \/ BlockOwns(p, c)
                      /\ ~BlockOwns(p, c)'
                      /\ \A r \in Payload \ {w, p} : BlockOwns(r, c)' <=> BlockOwns(r, c)
  <2>1. ASSUME NEW c \in Cell PROVE BlockOwns(w, c)' <=> BlockOwns(w, c) \/ BlockOwns(p, c)
    BY <1>6 DEF BlockOwns, Joins
  <2>2. ASSUME NEW c \in Cell PROVE ~BlockOwns(p, c)'
    BY <1>3 DEF BlockOwns
  <2>3. ASSUME NEW c \in Cell, NEW r \in Payload \ {w, p} PROVE BlockOwns(r, c)' <=> BlockOwns(r, c)
    BY <1>3 DEF BlockOwns
  <2>. QED BY <2>1, <2>2, <2>3
<1>9. \A c \in Cell : CellMoves(c)
  <2>1. ASSUME NEW c \in Cell PROVE BlocksOwn(c)' <=> BlocksOwn(c)
    BY <1>2, <1>8 DEF BlocksOwn
  <2>. QED BY <1>1, <2>1, SharedCells
<1>10. /\ \A r \in Payload : \A i \in DOMAIN bytes'[r] : Coherent(bytes'[r][i])
       /\ \A r \in Bytes \cup Writer : \A i \in DOMAIN bytes'[r] : ~Borrowed(bytes'[r][i])
  <2>1. \A i \in DOMAIN bytes'[w] : Coherent(bytes'[w][i]) /\ ~Borrowed(bytes'[w][i])
    BY <1>4, <1>6 DEF Joins
  <2>2. DOMAIN bytes'[p] = {}
    BY <1>3
  <2>. QED BY <1>3, <2>1, <2>2 DEF CollectionsInv, PlacesAreCoherent, Payload
<1>11. \A c \in DOMAIN mem' : mem'[c] \in {"live", "freed"}
  BY <1>1 DEF CollectionsInv, CellsAreOwnedOnce
<1> DEFINE X == {p}
<1>12. /\ X \in SUBSET (Bytes \cup Other) /\ (\A d \in X : ~Lent(d)) /\ X \cap Other = {}
       /\ \A r \in (Bytes \cup Other) \ X : r \in Payload \ {w, p}
  BY <1>1, <1>2 DEF Payload
<1> HIDE DEF X
<1>13. /\ \A r \in (Bytes \cup Other) \ X, c \in Cell : BlockOwns(r, c) => BlockOwns(r, c)'
       /\ \A k \in Other \ X : bytes'[k] = bytes[k]
  BY <1>3, <1>8, <1>12
<1>. QED BY <1>1, <1>7, <1>9, <1>10, <1>11, <1>12, <1>13, PayloadInv

LEMMA FinishInv ==
  ASSUME CollectionsInv, NEW w \in Writer, NEW p \in Bytes, z_bytes_writer_finish(w, p), UNCHANGED scope
  PROVE  CollectionsInv'
<1>1. /\ bytes[p] = <<>> /\ bytes' = [bytes EXCEPT ![p] = bytes[w], ![w] = <<>>]
      /\ open' = open \ {w} /\ UNCHANGED <<mem, slice, view, array, loans>>
  BY DEF z_bytes_writer_finish
<1>2. w \in Payload /\ p \in Payload /\ w # p /\ w \notin Bytes /\ w \notin Other /\ p \notin Other /\ p \notin Writer
  BY VariablesAssumption DEF Payload
<1>3. /\ bytes'[p] = bytes[w] /\ bytes'[w] = <<>>
      /\ \A r \in Payload \ {w, p} : bytes'[r] = bytes[r]
  BY <1>1, <1>2 DEF CollectionsInv, TypeOK
<1>4. TypeOK'
  <2>1. bytes' \in [Payload -> Seq(CSlice)]
    BY <1>1, <1>2 DEF CollectionsInv, TypeOK
  <2>2. open' \subseteq Writer /\ \A u \in Writer \ open' : bytes'[u] = <<>>
    BY <1>1, <1>2, <1>3 DEF CollectionsInv, TypeOK, Payload
  <2>. QED BY <1>1, <2>1, <2>2 DEF CollectionsInv, TypeOK
<1>5. \A c \in Cell : /\ BlockOwns(p, c)' <=> BlockOwns(w, c)
                      /\ ~BlockOwns(w, c)' /\ ~BlockOwns(p, c)
                      /\ \A r \in Payload \ {w, p} : BlockOwns(r, c)' <=> BlockOwns(r, c)
  <2>1. ASSUME NEW c \in Cell PROVE BlockOwns(p, c)' <=> BlockOwns(w, c)
    BY <1>3 DEF BlockOwns
  <2>2. ASSUME NEW c \in Cell PROVE ~BlockOwns(w, c)' /\ ~BlockOwns(p, c)
    BY <1>1, <1>3 DEF BlockOwns
  <2>3. ASSUME NEW c \in Cell, NEW r \in Payload \ {w, p} PROVE BlockOwns(r, c)' <=> BlockOwns(r, c)
    BY <1>3 DEF BlockOwns
  <2>. QED BY <2>1, <2>2, <2>3
<1>6. \A c \in Cell : CellMoves(c)
  <2>1. ASSUME NEW c \in Cell PROVE BlocksOwn(c)' <=> BlocksOwn(c)
    BY <1>2, <1>5 DEF BlocksOwn
  <2>. QED BY <1>1, <2>1, SharedCells
<1>7. /\ \A r \in Payload : \A i \in DOMAIN bytes'[r] : Coherent(bytes'[r][i])
      /\ \A r \in Bytes \cup Writer : \A i \in DOMAIN bytes'[r] : ~Borrowed(bytes'[r][i])
  <2>1. DOMAIN bytes'[w] = {}
    BY <1>3
  <2>. QED BY <1>2, <1>3, <2>1 DEF CollectionsInv, PlacesAreCoherent, Payload
<1>8. \A c \in DOMAIN mem' : mem'[c] \in {"live", "freed"}
  BY <1>1 DEF CollectionsInv, CellsAreOwnedOnce
<1>9. /\ \A r \in Bytes \cup Other, c \in Cell : BlockOwns(r, c) => BlockOwns(r, c)'
      /\ \A k \in Other : bytes'[k] = bytes[k]
  BY <1>2, <1>3, <1>5 DEF Payload
<1> DEFINE X == {}
<1>10. X \in SUBSET (Bytes \cup Other) /\ X = {}
  OBVIOUS
<1> HIDE DEF X
<1>. QED BY <1>1, <1>4, <1>6, <1>7, <1>8, <1>9, <1>10, PayloadInv

LEMMA NothingMoves ==
  ASSUME CollectionsInv, UNCHANGED <<scope, mem, slice, view, array, bytes, loans>>,
         open' = open \/ \E w \in Writer : w \notin open /\ open' = open \cup {w}
  PROVE  CollectionsInv'
<1>1. TypeOK'
  BY DEF CollectionsInv, TypeOK
<1>2. /\ \A c \in Cell : CellMoves(c)
      /\ \A p \in Payload, c \in Cell : BlockOwns(p, c) => BlockOwns(p, c)'
  BY DEF CellMoves, BlocksOwn, BlockOwns, LiveCell
<1> DEFINE X == {}
<1>3. X \in SUBSET (Bytes \cup Other) /\ X = {}
  OBVIOUS
<1> HIDE DEF X
<1>. QED BY <1>1, <1>2, <1>3, PayloadInv DEF CollectionsInv, CellsAreOwnedOnce, PlacesAreCoherent, Payload

------------------------------------------------------------------------------
(* All operations.                                                          *)
LEMMA InitCollectionsInv == Init => CollectionsInv
<1> SUFFICES ASSUME Init PROVE CollectionsInv
  OBVIOUS
<1> USE Pointers DEF Init
<1>1. <<>> \in Seq(CSlice) /\ mem \in Seq({"live", "freed", "twice"}) /\ Len(mem) = 0
  BY EmptySeq
<1>2. TypeOK
  <2>1. array \in [Array -> Seq(CSlice)] /\ bytes \in [Payload -> Seq(CSlice)]
    BY <1>1
  <2>2. slice \in [Owned -> CSlice] /\ view \in [View -> CSlice] /\ \A v \in View : view[v].drop = None
    OBVIOUS
  <2>3. \A w \in Writer : bytes[w] = <<>>
    BY DEF Payload
  <2>. QED BY <1>1, <2>1, <2>2, <2>3 DEF TypeOK
<1>3. \A a \in Array : Len(array[a]) <= MaxStrings
  OBVIOUS
<1>4. CellsAreOwnedOnce
  <2>1. ASSUME NEW c \in Cell PROVE OneOwner(c)
    BY DEF OneOwner, LiveCell, SliceOwns, ElementOwns, BlockOwns
  <2>. QED BY <2>1 DEF CellsAreOwnedOnce
<1>5. PlacesAreCoherent
  BY DEF PlacesAreCoherent, Coherent, Borrowed, Payload
<1>6. BorrowsAreSecured
  BY DEF BorrowsAreSecured, SecuredView, SecuredArray, SecuredOther, Borrowed, Payload
<1>. QED BY <1>2, <1>3, <1>4, <1>5, <1>6 DEF CollectionsInv

LEMMA SliceStep ==
  ASSUME CollectionsInv, NEW x \in Owned, UNCHANGED scope,
         \/ \E null, del \in BOOLEAN, n \in {0, 1} : Wrap(x, null, n, del)
         \/ \E null \in BOOLEAN, n \in {0, 1} : Copy(x, null, n)
         \/ \E r \in Loaned : Clone(x, r.s)
         \/ \E p \in Bytes : CopyOut(x, p)
         \/ DropSlice(x)
  PROVE  CollectionsInv'
<1>1. TypeOK
  BY DEF CollectionsInv
<1>2. ASSUME NEW null \in BOOLEAN, NEW del \in BOOLEAN, NEW n \in {0, 1}, Wrap(x, null, n, del)
      PROVE  CollectionsInv'
  BY <1>1, <1>2, NewIsMade, FillSlice DEF Wrap
<1>3. ASSUME NEW null \in BOOLEAN, NEW n \in {0, 1}, Copy(x, null, n) PROVE CollectionsInv'
  BY <1>1, <1>3, CopyIsMade, FillSlice DEF Copy
<1>4. ASSUME NEW r \in Loaned, Clone(x, r.s) PROVE CollectionsInv'
  BY <1>1, <1>4, LoanedIsSecured, CloneIsMade, FillSlice DEF Clone
<1>5. ASSUME NEW p \in Bytes, CopyOut(x, p) PROVE CollectionsInv'
  <2> DEFINE n == IF bytes[p] = <<>> THEN 0 ELSE 1
  <2>1. n \in {0, 1} /\ Len(mem) < MaxCells
    BY <1>5 DEF CopyOut
  <2>2. Made(FromVec(n, Fresh), Boxes(n))
    BY <1>1, <2>1, OwnedIsMade
  <2>. QED BY <1>5, <2>2, FillSlice DEF CopyOut
<1>. QED BY <1>2, <1>3, <1>4, <1>5, DropSliceInv

LEMMA ViewStep ==
  ASSUME CollectionsInv, NEW v \in View, UNCHANGED scope,
         \/ \E d \in Raw, n \in {0, 1} : \/ z_view_slice_from_buf(v, d, n)
                                         \/ z_view_string_from_substr(v, d, n)
                                         \/ z_view_string_from_str(v, d, n)
         \/ z_view_slice_empty(v) \/ z_view_string_empty(v)
         \/ \E p \in Bytes : z_bytes_get_contiguous_view(v, p) \/ z_bytes_slice_iterator_next(v, p)
  PROVE  CollectionsInv'
<1>1. ASSUME NEW d \in Raw, NEW n \in {0, 1},
             \/ z_view_slice_from_buf(v, d, n) \/ z_view_string_from_substr(v, d, n)
             \/ z_view_string_from_str(v, d, n)
      PROVE  CollectionsInv'
  <2>1. PICK k \in {0, 1} : SetView(v, NewBorrowed(d.data, k), d.from)
    BY <1>1 DEF z_view_slice_from_buf, z_view_string_from_substr, z_view_string_from_str, strlen_or_zero
  <2>. QED BY <2>1, BorrowedView
<1>2. CASE z_view_slice_empty(v) \/ z_view_string_empty(v)
  <2>1. SetView(v, Gravestone, {}) /\ Coherent(Gravestone) /\ ~Borrowed(Gravestone)
    BY <1>2, Pointers DEF z_view_slice_empty, z_view_string_empty, Coherent, Borrowed
  <2>. QED BY <2>1, Pointers, SetViewInv
<1>3. ASSUME NEW p \in Bytes PROVE p \in Lender /\ p \in Payload
  BY DEF Lender, Payload
<1>4. ASSUME NEW p \in Bytes, NEW i \in DOMAIN bytes[p], SetView(v, CloneToBorrowed(bytes[p][i]), {p})
      PROVE  CollectionsInv'
  <2> DEFINE s == CloneToBorrowed(bytes[p][i])
  <2>1. bytes[p][i] \in CSlice /\ Coherent(bytes[p][i]) /\ ~Borrowed(bytes[p][i])
    BY <1>3, Payloads
  <2>2. s \in CSlice /\ s.drop = None /\ Coherent(s) /\ s.data = bytes[p][i].data
        /\ s.len = bytes[p][i].len
    BY <2>1 DEF CloneToBorrowed, CSlice, Coherent
  <2>3. ASSUME Borrowed(s) PROVE Secured({p}, s.data)
    <3>1. Owns(p, s.data)
      BY <2>1, <2>2, <2>3 DEF Borrowed, Coherent, Owns, BlockOwns
    <3>. QED BY <3>1 DEF Secured
  <2>4. SetView(v, s, {p}) /\ {p} \in SUBSET Lender
    BY <1>3, <1>4
  <2> HIDE DEF s
  <2>. QED BY <2>2, <2>3, <2>4, SetViewInv
<1>5. ASSUME NEW p \in Bytes, z_bytes_get_contiguous_view(v, p) PROVE CollectionsInv'
  <2> DEFINE e == [data |-> Dangling, len |-> 0, drop |-> None]
  <2>1. CASE bytes[p] = <<>>
    <3>1. SetView(v, e, {p})
      BY <1>5, <2>1 DEF z_bytes_get_contiguous_view
    <3>2. e \in CSlice /\ e.drop = None /\ Coherent(e) /\ ~Borrowed(e) /\ {p} \in SUBSET Lender
      BY <1>3 DEF CSlice, Pointer, Coherent, Borrowed
    <3> HIDE DEF e
    <3>. QED BY <3>1, <3>2, SetViewInv
  <2>2. CASE bytes[p] # <<>>
    <3>1. 1 \in DOMAIN bytes[p]
      BY <1>3, <2>2, Payloads, EmptySeq
    <3>. QED BY <1>4, <1>5, <2>2, <3>1 DEF z_bytes_get_contiguous_view
  <2>. QED BY <2>1, <2>2
<1>6. ASSUME NEW p \in Bytes, z_bytes_slice_iterator_next(v, p) PROVE CollectionsInv'
  BY <1>4, <1>6 DEF z_bytes_slice_iterator_next
<1>. QED BY <1>1, <1>2, <1>5, <1>6

LEMMA PayloadStep ==
  ASSUME CollectionsInv, NEW p \in Bytes, UNCHANGED scope,
         \/ \E null, del \in BOOLEAN, n \in {0, 1} : WrapIn(p, null, n, del)
         \/ \E null \in BOOLEAN, n \in {0, 1} : CopyIn(p, null, n)
         \/ \E r \in Loaned : z_bytes_copy_from_slice(p, r.s)
  PROVE  CollectionsInv'
<1>1. TypeOK
  BY DEF CollectionsInv
<1>2. ASSUME NEW null \in BOOLEAN, NEW del \in BOOLEAN, NEW n \in {0, 1}, WrapIn(p, null, n, del)
      PROVE  CollectionsInv'
  BY <1>1, <1>2, NewIsMade, FillPayload DEF WrapIn
<1>3. ASSUME NEW null \in BOOLEAN, NEW n \in {0, 1}, CopyIn(p, null, n) PROVE CollectionsInv'
  BY <1>1, <1>3, CopyIsMade, FillPayload DEF CopyIn
<1>4. ASSUME NEW r \in Loaned, z_bytes_copy_from_slice(p, r.s) PROVE CollectionsInv'
  BY <1>1, <1>4, LoanedIsSecured, CloneIsMade, FillPayload DEF z_bytes_copy_from_slice
<1>. QED BY <1>2, <1>3, <1>4

LEMMA NextCollectionsInv ==
  ASSUME CollectionsInv, Step, UNCHANGED scope
  PROVE  CollectionsInv'
<1>1. CASE \E x \in Owned \cap scope, null, del \in BOOLEAN, n \in {0, 1} :
             z_slice_from_buf(x, null, n, del) \/ z_string_from_str(x, null, n, del)
  <2>1. PICK x \in Owned, null \in BOOLEAN, del \in BOOLEAN, n \in {0, 1} : Wrap(x, null, n, del)
    BY <1>1 DEF z_slice_from_buf, z_string_from_str, strlen_or_zero
  <2>. QED BY <2>1, SliceStep
<1>2. CASE \E x \in Owned \cap scope, null \in BOOLEAN, n \in {0, 1} :
             \/ z_slice_copy_from_buf(x, null, n) \/ z_string_copy_from_substr(x, null, n)
             \/ z_string_copy_from_str(x, null, n)
  <2>1. PICK x \in Owned, null \in BOOLEAN, n \in {0, 1} : Copy(x, null, n)
    BY <1>2 DEF z_slice_copy_from_buf, z_string_copy_from_substr, z_string_copy_from_str, strlen_or_zero
  <2>. QED BY <2>1, SliceStep
<1>3. CASE \E x \in Owned \cap scope, r \in Loaned : z_slice_clone(x, r.s) \/ z_string_clone(x, r.s)
  <2>1. PICK x \in Owned, r \in Loaned : Clone(x, r.s)
    BY <1>3 DEF z_slice_clone, z_string_clone
  <2>. QED BY <2>1, SliceStep
<1>4. CASE \E x \in Owned \cap scope : z_slice_drop(x) \/ z_string_drop(x)
  BY <1>4, DropSliceInv DEF z_slice_drop, z_string_drop
<1>5. CASE \E v \in View \cap scope, d \in Raw, n \in {0, 1} :
             \/ z_view_slice_from_buf(v, d, n) \/ z_view_string_from_substr(v, d, n)
             \/ z_view_string_from_str(v, d, n)
  BY <1>5, ViewStep
<1>6. CASE \E v \in View \cap scope : z_view_slice_empty(v) \/ z_view_string_empty(v)
  BY <1>6, ViewStep
<1>7. CASE \E v \in View \cap scope, p \in Bytes \cap scope :
             z_bytes_get_contiguous_view(v, p) \/ z_bytes_slice_iterator_next(v, p)
  BY <1>7, ViewStep
<1>8. CASE \E a \in Array \cap scope, r \in Loaned :
             z_string_array_push_by_copy(a, r.s) \/ z_string_array_push_by_alias(a, r)
  <2>1. PICK a \in Array, r \in Loaned :
              z_string_array_push_by_copy(a, r.s) \/ z_string_array_push_by_alias(a, r)
    BY <1>8
  <2>2. CASE z_string_array_push_by_copy(a, r.s)
    <3>1. r.s \in CSlice
      BY LoanedIsSecured
    <3>2. Made(CloneToOwned(r.s, Fresh), mem')
      BY <2>2, <3>1, CloneIsMade DEF CollectionsInv, z_string_array_push_by_copy
    <3>. QED BY <2>2, <3>2, PushMade DEF z_string_array_push_by_copy
  <2>3. CASE z_string_array_push_by_alias(a, r)
    BY <2>3, PushAlias
  <2>. QED BY <2>1, <2>2, <2>3
<1>9. CASE \E a, b \in Array \cap scope : z_string_array_clone(a, b)
  BY <1>9, ArrayCloneInv
<1>10. CASE \E a \in Array \cap scope : z_string_array_drop(a)
  BY <1>10, ArrayDropInv
<1>11. CASE \E p \in Bytes \cap scope, x \in Owned \cap scope :
              \/ z_bytes_from_slice(p, x) \/ z_bytes_from_string(p, x)
              \/ z_bytes_to_slice(x, p) \/ z_bytes_to_string(x, p)
  <2>1. PICK p \in Bytes, x \in Owned : MoveIn(p, x) \/ CopyOut(x, p) \/ UNCHANGED vars
    BY <1>11 DEF z_bytes_from_slice, z_bytes_from_string, z_bytes_to_slice, z_bytes_to_string
  <2>. QED BY <2>1, MoveInInv, SliceStep, NothingMoves DEF vars
<1>12. CASE \E p \in Bytes \cap scope, null, del \in BOOLEAN, n \in {0, 1} :
              z_bytes_from_buf(p, null, n, del) \/ z_bytes_from_str(p, null, n, del)
  <2>1. PICK p \in Bytes, null \in BOOLEAN, del \in BOOLEAN, n \in {0, 1} : WrapIn(p, null, n, del)
    BY <1>12 DEF z_bytes_from_buf, z_bytes_from_str, strlen_or_zero
  <2>. QED BY <2>1, PayloadStep
<1>13. CASE \E p \in Bytes \cap scope, null \in BOOLEAN, n \in {0, 1} :
              \/ z_bytes_from_static_buf(p, null, n) \/ z_bytes_from_static_str(p, null, n)
              \/ z_bytes_copy_from_buf(p, null, n) \/ z_bytes_copy_from_str(p, null, n)
  <2>1. PICK p \in Bytes, null \in BOOLEAN, n \in {0, 1} : WrapIn(p, null, n, FALSE) \/ CopyIn(p, null, n)
    BY <1>13 DEF z_bytes_from_static_buf, z_bytes_from_static_str, z_bytes_copy_from_buf,
                 z_bytes_copy_from_str, strlen_or_zero
  <2>. QED BY <2>1, PayloadStep
<1>14. CASE \E p \in Bytes \cap scope, r \in Loaned :
              z_bytes_copy_from_slice(p, r.s) \/ z_bytes_copy_from_string(p, r.s)
  BY <1>14, PayloadStep DEF z_bytes_copy_from_string
<1>15. CASE \E p, q \in Bytes \cap scope : z_bytes_clone(p, q)
  BY <1>15, BytesCloneInv
<1>16. CASE \E p \in Bytes \cap scope : z_bytes_drop(p)
  BY <1>16, ReleasePayload DEF z_bytes_drop
<1>17. CASE \E w \in Writer \cap scope :
              z_bytes_writer_empty(w) \/ z_bytes_writer_write_all(w) \/ z_bytes_writer_drop(w)
  <2>1. PICK w \in Writer :
              z_bytes_writer_empty(w) \/ z_bytes_writer_write_all(w) \/ z_bytes_writer_drop(w)
    BY <1>17
  <2>2. w \notin Bytes
    BY VariablesAssumption
  <2>3. CASE z_bytes_writer_empty(w)
    BY <2>3, NothingMoves DEF z_bytes_writer_empty
  <2>4. CASE z_bytes_writer_drop(w)
    BY <2>2, <2>4, ReleasePayload DEF z_bytes_writer_drop
  <2>. QED BY <2>1, <2>3, <2>4, WriteAllInv
<1>18. CASE \E w \in Writer \cap scope, p \in Bytes \cap scope :
              z_bytes_writer_append(w, p) \/ z_bytes_writer_finish(w, p)
  BY <1>18, AppendInv, FinishInv
<1>. QED BY <1>1, <1>2, <1>3, <1>4, <1>5, <1>6, <1>7, <1>8, <1>9, <1>10, <1>11, <1>12, <1>13,
            <1>14, <1>15, <1>16, <1>17, <1>18 DEF Step

------------------------------------------------------------------------------
(* What the invariant says.                                                 *)
LEMMA AtMostOneElement ==
  ASSUME NEW S, \A x, y \in S : x = y
  PROVE  Cardinality(S) = IF S = {} THEN 0 ELSE 1
<1>1. CASE S = {}
  BY <1>1, FS_EmptySet
<1>2. CASE S # {}
  <2>1. PICK x : S = {x}
    BY <1>2
  <2>. QED BY <1>2, <2>1, FS_Singleton
<1>. QED BY <1>1, <1>2

LEMMA CountOwners ==
  ASSUME CollectionsInv, NEW c \in DOMAIN mem
  PROVE  Owners(c) = IF mem[c] = "live" THEN 1 ELSE 0
<1> DEFINE S == {x \in Owned : slice[x].drop = c}
           E == {e \in Array \X (1..MaxStrings) :
                   e[2] \in DOMAIN array[e[1]] /\ array[e[1]][e[2]].drop = c}
           b == \E s \in Blocks : s.drop = c
<1>1. c \in Cell /\ (LiveCell(c) <=> mem[c] = "live")
  BY MemoryDomain DEF CollectionsInv, LiveCell
<1>2. \A x : x \in S <=> x \in Owned /\ SliceOwns(x, c)
  BY DEF SliceOwns
<1>3. \A e : e \in E <=> e \in Array \X Index /\ ElementOwns(e[1], e[2], c)
  BY DEF ElementOwns, Index
<1>4. b <=> \E p \in Payload : BlockOwns(p, c)
  BY DEF Blocks, ToSet, BlockOwns
<1> HIDE DEF S, E, b
<1>5. OneOwner(c)
  BY <1>1, Exclusive
<1>6. Cardinality(S) = IF S = {} THEN 0 ELSE 1
  <2>1. \A x, y \in S : x = y
    BY <1>2, <1>5 DEF OneOwner
  <2>. QED BY <2>1, AtMostOneElement
<1>7. Cardinality(E) = IF E = {} THEN 0 ELSE 1
  <2>1. \A d, e \in E : d[1] = e[1] /\ d[2] = e[2]
    BY <1>3, <1>5 DEF OneOwner
  <2>2. \A d, e \in E : d = e
    BY <1>3, <2>1
  <2>. QED BY <2>2, AtMostOneElement
<1>8. E # {} <=> \E a \in Array, i \in Index : ElementOwns(a, i, c)
  <2>1. ASSUME NEW a \in Array, NEW i \in Index, ElementOwns(a, i, c) PROVE <<a, i>> \in E
    BY <1>3, <2>1
  <2>2. ASSUME NEW e \in E PROVE e[1] \in Array /\ e[2] \in Index /\ ElementOwns(e[1], e[2], c)
    BY <1>3
  <2>. QED BY <2>1, <2>2
<1>9. S # {} <=> \E x \in Owned : SliceOwns(x, c)
  BY <1>2
<1>10. Owners(c) = Cardinality(S) + Cardinality(E) + IF b THEN 1 ELSE 0
  BY DEF Owners, S, E, b
<1>11. /\ ~(S # {} /\ E # {}) /\ ~(S # {} /\ b) /\ ~(E # {} /\ b)
       /\ LiveCell(c) <=> (S # {} \/ E # {} \/ b)
  BY <1>4, <1>5, <1>8, <1>9 DEF OneOwner
<1>. QED BY <1>1, <1>6, <1>7, <1>10, <1>11

LEMMA InvFreedOnce == CollectionsInv => FreedOnce /\ NothingLeaks
BY CountOwners DEF FreedOnce, NothingLeaks, CollectionsInv, CellsAreOwnedOnce

LEMMA OwnedIsLive ==
  ASSUME CollectionsInv, NEW o \in Lender, NEW c \in Cell, Owns(o, c)
  PROVE  mem[c] = "live"
BY Exclusive DEF Owns, Payload, LiveCell

LEMMA InvReadableIsLive == CollectionsInv => ReadableIsLive
<1> SUFFICES ASSUME CollectionsInv, NEW s \in Places, s.len > 0
             PROVE  s.data # Null /\ (s.data \in Cell => mem[s.data] = "live")
  BY DEF ReadableIsLive
<1>1. Closed(Lender)
  BY DEF Closed, CollectionsInv, TypeOK, Lender
<1>2. ASSUME NEW c \in Cell, NEW b \in Borrower, Secured(loans[b], c) PROVE mem[c] = "live"
  <2>1. loans[b] \subseteq Lender
    BY DEF CollectionsInv, TypeOK, Lender
  <2>2. PICK o \in Lender : Owns(o, c)
    BY <1>1, <1>2, <2>1 DEF Secured
  <2>. QED BY <2>2, OwnedIsLive
<1>3. CASE \E x \in Owned : s = slice[x]
  BY <1>3, Exclusive DEF CollectionsInv, PlacesAreCoherent, Coherent, Borrowed, SliceOwns, LiveCell
<1>4. CASE \E v \in View : s = view[v]
  <2>1. PICK v \in View : s = view[v]
    BY <1>4
  <2>2. Coherent(s) /\ s.drop = None /\ SecuredView(v) /\ v \in Borrower
    BY <2>1 DEF CollectionsInv, PlacesAreCoherent, TypeOK, BorrowsAreSecured, Borrower
  <2>. QED BY <1>2, <2>1, <2>2 DEF Coherent, SecuredView, Borrowed
<1>5. CASE \E a \in Array : \E i \in DOMAIN array[a] : s = array[a][i]
  <2>1. PICK a \in Array : \E i \in DOMAIN array[a] : s = array[a][i]
    BY <1>5
  <2>2. PICK i \in DOMAIN array[a] : s = array[a][i]
    BY <2>1
  <2>3. Coherent(s) /\ SecuredArray(a) /\ a \in Borrower /\ i \in Index
    BY <2>2, Arrays DEF CollectionsInv, BorrowsAreSecured, Borrower
  <2>4. CASE s.drop = s.data
    BY <2>2, <2>3, <2>4, Exclusive DEF Coherent, ElementOwns, LiveCell
  <2>5. CASE s.drop = None
    BY <1>2, <2>2, <2>3, <2>5 DEF Coherent, SecuredArray, Borrowed
  <2>. QED BY <2>3, <2>4, <2>5 DEF Coherent
<1>6. CASE \E p \in Payload : \E i \in DOMAIN bytes[p] : s = bytes[p][i]
  <2>1. PICK p \in Payload : \E i \in DOMAIN bytes[p] : s = bytes[p][i]
    BY <1>6
  <2>2. PICK i \in DOMAIN bytes[p] : s = bytes[p][i]
    BY <2>1
  <2>3. Coherent(s) /\ (p \in Bytes \cup Writer => ~Borrowed(s))
    BY <2>2, Payloads
  <2>4. CASE s.drop = s.data
    BY <2>2, <2>3, <2>4, Exclusive DEF Coherent, BlockOwns, LiveCell
  <2>5. CASE s.drop = None /\ s.data \in Cell
    <3>1. p \in Other /\ SecuredOther(p) /\ p \in Borrower
      BY <2>3, <2>5 DEF Borrowed, Payload, CollectionsInv, BorrowsAreSecured, Borrower
    <3>. QED BY <1>2, <2>2, <2>3, <2>5, <3>1 DEF Coherent, SecuredOther, Borrowed
  <2>. QED BY <2>3, <2>4, <2>5 DEF Coherent
<1>. QED BY <1>3, <1>4, <1>5, <1>6 DEF Places, Elements, Blocks, ToSet

------------------------------------------------------------------------------
(* Key expressions, and the theorems about the whole.                       *)
(* What a key expression holds, without ToSet.                              *)
LEMMA KeyTexts ==
  KeyInv => /\ \A k \in Other : \A i \in DOMAIN bytes[k] :
                  /\ bytes[k][i].data = Static => Fits(piece[k], static)
                  /\ bytes[k][i].len > 0
            /\ \A q \in KeyView : \A i \in DOMAIN bytes[q] : bytes[q][i].drop = None
<1> SUFFICES ASSUME KeyInv
             PROVE  /\ \A k \in Other : \A i \in DOMAIN bytes[k] :
                          /\ bytes[k][i].data = Static => Fits(piece[k], static)
                          /\ bytes[k][i].len > 0
                    /\ \A q \in KeyView : \A i \in DOMAIN bytes[q] : bytes[q][i].drop = None
  OBVIOUS
<1>1. \A k : \A i \in DOMAIN bytes[k] : bytes[k][i] \in ToSet(bytes[k])
  BY DEF ToSet
<1>2. \A k \in Other : \A i \in DOMAIN bytes[k] :
         /\ bytes[k][i].data = Static => Fits(piece[k], static)
         /\ bytes[k][i].len > 0
  BY <1>1 DEF KeyInv
<1>3. ASSUME NEW q \in KeyView, NEW i \in DOMAIN bytes[q] PROVE bytes[q][i].drop = None
  BY <1>1 DEF KeyInv, Drops
<1>. QED BY <1>2, <1>3

LEMMA KeyInvHolds ==
  ASSUME CollectionsInv', static' \in CharArray, piece' \in [Other -> 0..MaxText],
         \A k \in Other : \A i \in DOMAIN bytes'[k] :
            /\ bytes'[k][i].data = Static => Fits(piece'[k], static')
            /\ bytes'[k][i].len > 0,
         \A q \in KeyView : \A i \in DOMAIN bytes'[q] : bytes'[q][i].drop = None
  PROVE  KeyInv'
<1>1. \A k \in Other : \A s \in ToSet(bytes'[k]) :
         s.len > 0 /\ (s.data = Static => Fits(piece'[k], static'))
  BY DEF ToSet
<1>2. \A q \in KeyView : Drops(ToSet(bytes'[q])) = {}
  BY DEF ToSet, Drops
<1>. QED BY <1>1, <1>2 DEF KeyInv

LEMMA InitKeyInv == KeyInit => KeyInv
<1> SUFFICES ASSUME KeyInit PROVE KeyInv
  OBVIOUS
<1>1. CollectionsInv
  BY InitCollectionsInv DEF KeyInit
<1>2. \A k \in Other : ToSet(bytes[k]) = {}
  BY DEF KeyInit, Init, Payload, ToSet
<1>3. KeyView \subseteq Other
  BY KeyAssumption
<1>4. piece \in [Other -> 0..MaxText] /\ static \in CharArray
  BY TextAssumption DEF KeyInit
<1>. QED BY <1>1, <1>2, <1>3, <1>4 DEF KeyInv, Drops

(* The operations of Collections do not touch key expressions.              *)
LEMMA StepKeepsKeys ==
  ASSUME CollectionsInv, Step
  PROVE  \A k \in Other : bytes'[k] = bytes[k]
<1> SUFFICES ASSUME NEW k \in Other PROVE bytes'[k] = bytes[k]
  OBVIOUS
<1>1. k \notin Bytes /\ k \notin Writer /\ k \in Payload
  BY VariablesAssumption DEF Payload
<1>2. bytes \in [Payload -> Seq(CSlice)]
  BY DEF CollectionsInv, TypeOK
<1>3. /\ \A x, null, n, del : Wrap(x, null, n, del) => bytes' = bytes
      /\ \A x, null, n : Copy(x, null, n) => bytes' = bytes
      /\ \A x, s : Clone(x, s) => bytes' = bytes
      /\ \A x : DropSlice(x) => bytes' = bytes
      /\ \A v, s, from : SetView(v, s, from) => bytes' = bytes
      /\ \A x, p : CopyOut(x, p) => bytes' = bytes
  BY DEF Wrap, Copy, Clone, DropSlice, SetView, CopyOut
<1>4. \A p \in Bytes : \A s, m : FromCSlice(p, s, m) => bytes'[k] = bytes[k]
  BY <1>1, <1>2 DEF FromCSlice
<1>5. /\ \A p \in Bytes, x \in Owned : MoveIn(p, x) => bytes'[k] = bytes[k]
      /\ \A p \in Bytes, null, del \in BOOLEAN, n \in {0, 1} : WrapIn(p, null, n, del) => bytes'[k] = bytes[k]
      /\ \A p \in Bytes, null \in BOOLEAN, n \in {0, 1} : CopyIn(p, null, n) => bytes'[k] = bytes[k]
      /\ \A p \in Bytes, r \in Loaned : z_bytes_copy_from_slice(p, r.s) => bytes'[k] = bytes[k]
  BY <1>4 DEF MoveIn, WrapIn, CopyIn, z_bytes_copy_from_slice
<1>6. CASE \E x \in Owned \cap scope, null, del \in BOOLEAN, n \in {0, 1} :
             z_slice_from_buf(x, null, n, del) \/ z_string_from_str(x, null, n, del)
  BY <1>3, <1>6 DEF z_slice_from_buf, z_string_from_str
<1>7. CASE \E x \in Owned \cap scope, null \in BOOLEAN, n \in {0, 1} :
             \/ z_slice_copy_from_buf(x, null, n) \/ z_string_copy_from_substr(x, null, n)
             \/ z_string_copy_from_str(x, null, n)
  BY <1>3, <1>7 DEF z_slice_copy_from_buf, z_string_copy_from_substr, z_string_copy_from_str
<1>8. CASE \/ \E x \in Owned \cap scope, r \in Loaned : z_slice_clone(x, r.s) \/ z_string_clone(x, r.s)
           \/ \E x \in Owned \cap scope : z_slice_drop(x) \/ z_string_drop(x)
  BY <1>3, <1>8 DEF z_slice_clone, z_string_clone, z_slice_drop, z_string_drop
<1>9. CASE \/ \E v \in View \cap scope, d \in Raw, n \in {0, 1} :
                 \/ z_view_slice_from_buf(v, d, n) \/ z_view_string_from_substr(v, d, n)
                 \/ z_view_string_from_str(v, d, n)
           \/ \E v \in View \cap scope : z_view_slice_empty(v) \/ z_view_string_empty(v)
  BY <1>3, <1>9 DEF z_view_slice_from_buf, z_view_string_from_substr, z_view_string_from_str,
                    z_view_slice_empty, z_view_string_empty
<1>10. CASE \E v \in View \cap scope, p \in Bytes \cap scope :
              z_bytes_get_contiguous_view(v, p) \/ z_bytes_slice_iterator_next(v, p)
  BY <1>3, <1>10 DEF z_bytes_get_contiguous_view, z_bytes_slice_iterator_next
<1>11. CASE \/ \E a \in Array \cap scope, r \in Loaned :
                  z_string_array_push_by_copy(a, r.s) \/ z_string_array_push_by_alias(a, r)
            \/ \E a, b \in Array \cap scope : z_string_array_clone(a, b)
            \/ \E a \in Array \cap scope : z_string_array_drop(a)
  BY <1>11 DEF z_string_array_push_by_copy, z_string_array_push_by_alias, z_string_array_clone,
               z_string_array_drop
<1>12. CASE \E p \in Bytes \cap scope, x \in Owned \cap scope :
              \/ z_bytes_from_slice(p, x) \/ z_bytes_from_string(p, x)
              \/ z_bytes_to_slice(x, p) \/ z_bytes_to_string(x, p)
  BY <1>3, <1>5, <1>12 DEF z_bytes_from_slice, z_bytes_from_string, z_bytes_to_slice,
                           z_bytes_to_string, vars
<1>13. CASE \/ \E p \in Bytes \cap scope, null, del \in BOOLEAN, n \in {0, 1} :
                  z_bytes_from_buf(p, null, n, del) \/ z_bytes_from_str(p, null, n, del)
            \/ \E p \in Bytes \cap scope, null \in BOOLEAN, n \in {0, 1} :
                  \/ z_bytes_from_static_buf(p, null, n) \/ z_bytes_from_static_str(p, null, n)
                  \/ z_bytes_copy_from_buf(p, null, n) \/ z_bytes_copy_from_str(p, null, n)
            \/ \E p \in Bytes \cap scope, r \in Loaned :
                  z_bytes_copy_from_slice(p, r.s) \/ z_bytes_copy_from_string(p, r.s)
  BY <1>5, <1>13 DEF z_bytes_from_buf, z_bytes_from_str, z_bytes_from_static_buf, z_bytes_from_static_str,
          z_bytes_copy_from_buf, z_bytes_copy_from_str, z_bytes_copy_from_string, strlen_or_zero
<1>14. CASE \/ \E p, q \in Bytes \cap scope : z_bytes_clone(p, q)
            \/ \E p \in Bytes \cap scope : z_bytes_drop(p)
  BY <1>1, <1>2, <1>14 DEF z_bytes_clone, z_bytes_drop
<1>15. CASE \E w \in Writer \cap scope :
              z_bytes_writer_empty(w) \/ z_bytes_writer_write_all(w) \/ z_bytes_writer_drop(w)
  BY <1>1, <1>2, <1>15 DEF z_bytes_writer_empty, z_bytes_writer_write_all, z_bytes_writer_drop
<1>16. CASE \E w \in Writer \cap scope, p \in Bytes \cap scope :
              z_bytes_writer_append(w, p) \/ z_bytes_writer_finish(w, p)
  BY <1>1, <1>2, <1>16 DEF z_bytes_writer_append, z_bytes_writer_finish
<1>. QED BY <1>6, <1>7, <1>8, <1>9, <1>10, <1>11, <1>12, <1>13, <1>14, <1>15, <1>16 DEF Step

------------------------------------------------------------------------------
(* What is written to a key expression that nobody has borrowed.            *)
LEMMA StoreKey ==
  ASSUME CollectionsInv, NEW k \in Other, ~Lent(k), NEW bs \in Seq(CSlice),
         NEW L \in SUBSET Lender, k \notin L,
         bytes' = [bytes EXCEPT ![k] = bs], loans' = [loans EXCEPT ![k] = L],
         \A i \in DOMAIN bs : Coherent(bs[i]) /\ (Borrowed(bs[i]) => Secured(L, bs[i].data)),
         mem' \in Seq({"live", "freed", "twice"}), Len(mem') <= MaxCells,
         \A c \in DOMAIN mem' : mem'[c] \in {"live", "freed"},
         \A c \in Cell : CellMoves(c),
         UNCHANGED <<scope, slice, view, array, open>>
  PROVE  CollectionsInv'
<1>1. k \in Payload /\ k \in Borrower /\ k \in Lender /\ k \notin Bytes \cup Writer
  BY VariablesAssumption DEF Payload, Borrower, Lender
<1>2. /\ bytes'[k] = bs /\ \A p \in Payload \ {k} : bytes'[p] = bytes[p]
      /\ loans'[k] = L /\ \A b \in Borrower \ {k} : loans'[b] = loans[b]
  BY <1>1 DEF CollectionsInv, TypeOK
<1>3. TypeOK'
  <2>1. bytes' \in [Payload -> Seq(CSlice)] /\ loans' \in [Borrower -> SUBSET Lender]
    BY <1>1 DEF CollectionsInv, TypeOK, Lender
  <2>2. \A w \in Writer : bytes'[w] = bytes[w]
    BY <1>1, <1>2 DEF Payload
  <2>. QED BY <2>1, <2>2 DEF CollectionsInv, TypeOK, Lender
<1>4. /\ \A p \in Payload : \A i \in DOMAIN bytes'[p] : Coherent(bytes'[p][i])
      /\ \A p \in Bytes \cup Writer : \A i \in DOMAIN bytes'[p] : ~Borrowed(bytes'[p][i])
  BY <1>1, <1>2 DEF CollectionsInv, PlacesAreCoherent, Payload
<1>5. \A p \in Payload \ {k}, c \in Cell : BlockOwns(p, c) => BlockOwns(p, c)'
  BY <1>2 DEF BlockOwns
<1>6. SecuredOther(k)'
  <2>1. \A o \in Lender \ {k}, c \in Cell : Owns(o, c) => Owns(o, c)'
    BY <1>5 DEF Owns, SliceOwns, ElementOwns, Payload
  <2>2. \A c \in Cell, M \in SUBSET Lender : M \cap {k} = {} /\ Secured(M, c) => Secured(M, c)'
    BY <1>2, <2>1, LoansHold
  <2>3. \A c \in Cell : Secured(L, c) => Secured(L, c)'
    BY <2>2
  <2>. QED BY <1>2, <2>3 DEF SecuredOther, Borrowed
<1> DEFINE X == {k}
<1>7. /\ X \in SUBSET (Bytes \cup Other) /\ \A d \in X : ~Lent(d)
      /\ \A b \in Borrower \ X : loans'[b] = loans[b]
      /\ \A p \in (Bytes \cup Other) \ X, c \in Cell : BlockOwns(p, c) => BlockOwns(p, c)'
      /\ \A o \in Other \ X : bytes'[o] = bytes[o]
      /\ \A o \in Other \cap X : SecuredOther(o)'
  BY <1>2, <1>5, <1>6 DEF Payload
<1> HIDE DEF X
<1>. QED BY <1>3, <1>4, <1>7, PayloadInv

(* Before it is written, the variable owns nothing: an owned one is a       *)
(* gravestone, a view has no deleter.                                       *)
OwnsNothing(k) == \A c \in Cell : ~BlockOwns(k, c)

LEMMA UnusedOwnsNothing ==
  ASSUME KeyInv, NEW k \in Other, k \in KeyView \/ bytes[k] = <<>>
  PROVE  OwnsNothing(k)
BY KeyTexts, Pointers DEF OwnsNothing, BlockOwns

(* A text that is copied into a new box, or borrowed.                       *)
LEMMA StoreText ==
  ASSUME CollectionsInv, NEW k \in Other, ~Lent(k), OwnsNothing(k),
         NEW s \in CSlice, Coherent(s), NEW L \in SUBSET Lender, k \notin L,
         Borrowed(s) => Secured(L, s.data),
         (s.drop = None /\ Grown(mem', 0)) \/ (s.drop = Fresh /\ Grown(mem', 1)),
         bytes' = [bytes EXCEPT ![k] = <<s>>], loans' = [loans EXCEPT ![k] = L],
         UNCHANGED <<scope, slice, view, array, open>>
  PROVE  CollectionsInv'
<1>1. k \in Payload
  BY DEF Payload
<1>2. bytes'[k] = <<s>> /\ \A p \in Payload \ {k} : bytes'[p] = bytes[p]
  BY <1>1 DEF CollectionsInv, TypeOK
<1>3. DOMAIN <<s>> = {1} /\ <<s>>[1] = s /\ <<s>> \in Seq(CSlice)
  OBVIOUS
<1>4. /\ \A q \in Payload \ {k}, c \in Cell : BlockOwns(q, c)' <=> BlockOwns(q, c)
      /\ \A c \in Cell : BlockOwns(k, c)' <=> BlockOwns(k, c) \/ c = s.drop
  BY <1>2, <1>3 DEF BlockOwns, OwnsNothing
<1>5. /\ \A c \in DOMAIN mem' : mem'[c] \in {"live", "freed"}
      /\ \A c \in Cell : CellMoves(c)
  BY <1>1, <1>4, StoreCells
<1>6. mem' \in Seq({"live", "freed", "twice"}) /\ Len(mem') <= MaxCells
  BY DEF Grown
<1> DEFINE bs == <<s>>
<1>7. /\ bs \in Seq(CSlice) /\ bytes' = [bytes EXCEPT ![k] = bs]
      /\ \A i \in DOMAIN bs : Coherent(bs[i]) /\ (Borrowed(bs[i]) => Secured(L, bs[i].data))
  BY <1>3
<1> HIDE DEF bs
<1>. QED BY <1>5, <1>6, <1>7, StoreKey

(* Texts that another key expression keeps as well, or none.                *)
LEMMA StoreShared ==
  ASSUME CollectionsInv, NEW k \in Other, ~Lent(k), OwnsNothing(k), NEW l \in Other,
         NEW bs \in Seq(CSlice), NEW L \in SUBSET Lender, k \notin L,
         \A i \in DOMAIN bs : /\ \E j \in DOMAIN bytes[l] : bs[i] = bytes[l][j]
                              /\ Borrowed(bs[i]) => Secured(L, bs[i].data),
         bytes' = [bytes EXCEPT ![k] = bs], loans' = [loans EXCEPT ![k] = L],
         UNCHANGED <<scope, mem, slice, view, array, open>>
  PROVE  CollectionsInv'
<1>1. k \in Payload /\ l \in Payload
  BY DEF Payload
<1>2. bytes'[k] = bs /\ \A p \in Payload \ {k} : bytes'[p] = bytes[p]
  BY <1>1 DEF CollectionsInv, TypeOK
<1>3. \A i \in DOMAIN bs : Coherent(bs[i])
  BY <1>1, Payloads
<1>4. \A c \in Cell : /\ ~BlockOwns(k, c)
                      /\ BlockOwns(k, c)' => BlockOwns(l, c)
                      /\ \A p \in Payload \ {k} : BlockOwns(p, c)' <=> BlockOwns(p, c)
  BY <1>2 DEF BlockOwns, OwnsNothing
<1>5. ASSUME NEW c \in Cell PROVE BlocksOwn(c)' <=> BlocksOwn(c)
  BY <1>1, <1>4 DEF BlocksOwn
<1>6. \A c \in Cell : CellMoves(c)
  BY <1>5, SharedCells
<1>7. /\ mem' \in Seq({"live", "freed", "twice"}) /\ Len(mem') <= MaxCells
      /\ \A c \in DOMAIN mem' : mem'[c] \in {"live", "freed"}
  BY DEF CollectionsInv, TypeOK, CellsAreOwnedOnce
<1>. QED BY <1>3, <1>6, <1>7, StoreKey

LEMMA StoreNothing ==
  ASSUME CollectionsInv, NEW k \in Other, ~Lent(k), OwnsNothing(k),
         bytes' = [bytes EXCEPT ![k] = <<>>], loans' = [loans EXCEPT ![k] = {}],
         UNCHANGED <<scope, mem, slice, view, array, open>>
  PROVE  CollectionsInv'
<1> DEFINE bs == <<>>
           L == {}
<1>1. bs \in Seq(CSlice) /\ DOMAIN bs = {} /\ L \in SUBSET Lender /\ k \notin L
  BY EmptySeq
<1>2. bytes' = [bytes EXCEPT ![k] = bs] /\ loans' = [loans EXCEPT ![k] = L]
  OBVIOUS
<1> HIDE DEF bs, L
<1>. QED BY <1>1, <1>2, StoreShared

LEMMA ReleaseKey ==
  ASSUME CollectionsInv, NEW k \in Other, ~Lent(k), mem' = Freed(mem, LastRefs(k)),
         bytes' = [bytes EXCEPT ![k] = <<>>], loans' = [loans EXCEPT ![k] = {}],
         UNCHANGED <<scope, slice, view, array, open>>
  PROVE  CollectionsInv'
<1>1. k \in Payload
  BY DEF Payload
<1>2. bytes'[k] = <<>> /\ \A p \in Payload \ {k} : bytes'[p] = bytes[p]
  BY <1>1 DEF CollectionsInv, TypeOK
<1>3. /\ \A c \in Cell : ~BlockOwns(k, c)'
      /\ \A p \in Payload \ {k}, c \in Cell : BlockOwns(p, c)' <=> BlockOwns(p, c)
  BY <1>2 DEF BlockOwns
<1>4. /\ mem' \in Seq({"live", "freed", "twice"}) /\ Len(mem') <= MaxCells
      /\ \A c \in DOMAIN mem' : mem'[c] \in {"live", "freed"}
      /\ \A c \in Cell : CellMoves(c)
  BY <1>1, <1>3, ReleaseCells
<1> DEFINE bs == <<>>
           L == {}
<1>5. bs \in Seq(CSlice) /\ DOMAIN bs = {} /\ L \in SUBSET Lender /\ k \notin L
  BY EmptySeq
<1>6. bytes' = [bytes EXCEPT ![k] = bs] /\ loans' = [loans EXCEPT ![k] = L]
  OBVIOUS
<1> HIDE DEF bs, L
<1>. QED BY <1>4, <1>5, <1>6, StoreKey

------------------------------------------------------------------------------
(* What key expressions refer to after one of them was written.             *)
LEMMA KeyStored ==
  ASSUME KeyInv, CollectionsInv', NEW k \in Other, NEW bs, bytes' = [bytes EXCEPT ![k] = bs],
         NEW p \in 0..MaxText, piece' = [piece EXCEPT ![k] = p],
         static' \in CharArray, \A n : Fits(n, static) => Fits(n, static'),
         \A i \in DOMAIN bs : /\ bs[i].data = Static => Fits(p, static')
                              /\ bs[i].len > 0
                              /\ k \in KeyView => bs[i].drop = None
  PROVE  KeyInv'
<1>1. k \in Payload /\ KeyView \subseteq Other /\ Other \subseteq Payload
  BY KeyAssumption DEF Payload
<1>2. bytes'[k] = bs /\ \A o \in Payload \ {k} : bytes'[o] = bytes[o]
  BY <1>1 DEF KeyInv, CollectionsInv, TypeOK
<1>3. /\ piece' \in [Other -> 0..MaxText] /\ piece'[k] = p
      /\ \A o \in Other \ {k} : piece'[o] = piece[o]
  BY DEF KeyInv
<1>4. /\ \A o \in Other : \A i \in DOMAIN bytes[o] :
            /\ bytes[o][i].data = Static => Fits(piece[o], static)
            /\ bytes[o][i].len > 0
      /\ \A q \in KeyView : \A i \in DOMAIN bytes[q] : bytes[q][i].drop = None
  BY KeyTexts
<1>5. ASSUME NEW o \in Other, NEW i \in DOMAIN bytes'[o]
      PROVE  /\ bytes'[o][i].data = Static => Fits(piece'[o], static')
             /\ bytes'[o][i].len > 0
  <2>1. CASE o = k
    BY <1>2, <1>3, <1>5, <2>1
  <2>2. CASE o # k
    <3>1. bytes'[o] = bytes[o] /\ piece'[o] = piece[o]
      BY <1>1, <1>2, <1>3, <2>2
    <3>. QED BY <1>4, <1>5, <3>1
  <2>. QED BY <2>1, <2>2
<1>6. \A q \in KeyView : \A i \in DOMAIN bytes'[q] : bytes'[q][i].drop = None
  BY <1>1, <1>2, <1>4
<1>. QED BY <1>3, <1>5, <1>6, KeyInvHolds

LEMMA KeyStoredText ==
  ASSUME KeyInv, CollectionsInv', NEW k \in Other, NEW s, bytes' = [bytes EXCEPT ![k] = <<s>>],
         NEW p \in 0..MaxText, piece' = [piece EXCEPT ![k] = p],
         static' \in CharArray, \A n : Fits(n, static) => Fits(n, static'),
         s.data = Static => Fits(p, static'), s.len > 0, k \in KeyView => s.drop = None
  PROVE  KeyInv'
<1>1. PICK bs : bs = <<s>>
  OBVIOUS
<1>2. bytes' = [bytes EXCEPT ![k] = bs]
  BY <1>1
<1>3. DOMAIN bs = {1} /\ bs[1] = s
  BY <1>1
<1>4. ASSUME NEW i \in DOMAIN bs
      PROVE  /\ bs[i].data = Static => Fits(p, static')
             /\ bs[i].len > 0
             /\ k \in KeyView => bs[i].drop = None
  BY <1>3
<1>. QED BY <1>2, <1>4, KeyStored

(* The lengths a program passes: all of the array, unless it cuts pieces.   *)
Measured(d, n) == IF d = Static
                  THEN n \in 0..MaxText /\ (static.use # "pieces" => n = static.end)
                  ELSE n \in {0, 1}

LEMMA LengthsAreMeasured ==
  ASSUME static \in CharArray, NEW r, NEW n, n \in Passed(r) \/ n \in Strlen(r)
  PROVE  Measured(r.data, n)
<1>1. static.end \in 0..MaxText /\ static.use \in {"string", "buffer", "pieces"}
  BY DEF CharArray
<1>2. CASE n \in Passed(r)
  BY <1>1, <1>2 DEF Passed, Measured
<1>3. CASE n \in Strlen(r)
  BY <1>1, <1>3 DEF Strlen, Measured, strlen_or_zero
<1>. QED BY <1>2, <1>3

(* What keyexpr_create returns, and what it leaves of the text it checked:  *)
(* a canonical text is not rewritten.                                       *)
LEMMA OutcomeTexts ==
  ASSUME static \in CharArray, NEW d, NEW n, Measured(d, n), NEW canonize \in BOOLEAN,
         NEW c \in Outcomes(d, n, canonize)
  PROVE  /\ c.text \in Text /\ c.len \in 0..MaxText /\ c.ok \in BOOLEAN
         /\ c.ok => d # Null /\ n # 0
         /\ d # Static => c.text = static.text
         /\ d = Static /\ c.ok => c.len \in 1..n /\ c.text[c.len] = "canon"
         /\ d = Static /\ ~canonize => c.text = static.text /\ (c.ok => c.len = n)
         /\ d = Static /\ n # 0 /\ static.text[n] = "canon" =>
               c.text = static.text /\ c.len = n
<1>1. static.text \in Text /\ Canonize("canon") = "canon"
  BY DEF CharArray, Canonize
<1>2. CASE d = Null \/ n = 0
  <2>1. c = [text |-> static.text, len |-> 0, ok |-> FALSE]
    BY <1>2 DEF Outcomes
  <2>2. 0 \in 0..MaxText
    BY TextAssumption
  <2>3. d = Static => n = 0
    BY <1>2, PointerAssumption
  <2>. QED BY <1>1, <2>1, <2>2, <2>3
<1>3. CASE d # Null /\ n # 0 /\ d # Static
  <2>1. c \in [text : {static.text}, len : {1}, ok : BOOLEAN]
    BY <1>3 DEF Outcomes
  <2>2. c.text = static.text /\ c.len = 1 /\ c.ok \in BOOLEAN
    BY <2>1
  <2>3. 1 \in 0..MaxText
    BY TextAssumption
  <2>. QED BY <1>1, <1>3, <2>2, <2>3
<1>4. CASE d # Null /\ n # 0 /\ d = Static
  <2>1. n \in 1..MaxText
    BY <1>4, TextAssumption DEF Measured
  <2> DEFINE S == IF canonize THEN Canonizations(n) ELSE [text : {static.text}, len : {n}]
  <2>2. Outcomes(d, n, canonize)
          = {[text |-> e.text, len |-> e.len, ok |-> e.text[e.len] = "canon"] : e \in S}
    BY <1>4, PointerAssumption DEF Outcomes
  <2>3. PICK e \in S : c = [text |-> e.text, len |-> e.len, ok |-> e.text[e.len] = "canon"]
    BY <2>2
  <2>4. c.text = e.text /\ c.len = e.len
    BY <2>3
  <2>5. c.ok = (e.text[e.len] = "canon")
    BY <2>3
  <2>6. c.ok \in BOOLEAN /\ (c.ok => c.text[c.len] = "canon")
    BY <2>4, <2>5
  <2>7. CASE ~canonize
    <3>1. e \in [text : {static.text}, len : {n}]
      BY <2>7
    <3>2. c.text = static.text /\ c.len = n
      BY <2>4, <3>1
    <3>3. n \in 0..MaxText /\ n \in 1..n
      BY <2>1, TextAssumption
    <3>. QED BY <1>1, <1>4, <2>6, <3>2, <3>3
  <2>8. CASE canonize
    <3> DEFINE to == Canonize(static.text[n])
    <3>1. e \in Canonizations(n)
      BY <2>8
    <3>2. CASE to = static.text[n]
      <4>1. e = [text |-> static.text, len |-> n]
        BY <3>1, <3>2 DEF Canonizations
      <4>2. c.text = static.text /\ c.len = n
        BY <2>4, <4>1
      <4>3. n \in 0..MaxText /\ n \in 1..n
        BY <2>1, TextAssumption
      <4>. QED BY <1>1, <1>4, <2>6, <2>8, <4>2, <4>3
    <3>3. CASE to # static.text[n]
      <4>1. e \in [text : Text, len : 1..n]
        BY <3>1, <3>3 DEF Canonizations
      <4>2. c.text \in Text /\ c.len \in 1..n
        BY <2>4, <4>1
      <4>3. c.len \in 0..MaxText
        BY <2>1, <4>2, TextAssumption
      <4>4. static.text[n] # "canon"
        BY <1>1, <3>3
      <4>. QED BY <1>4, <2>6, <2>8, <4>2, <4>3, <4>4
    <3>. QED BY <3>2, <3>3
  <2>. QED BY <2>7, <2>8
<1>. QED BY <1>2, <1>3, <1>4

(* Whoever has borrowed the text up to its end still finds it there, and an *)
(* accepted text ends where the caller has been told.                       *)
LEMMA Canonized ==
  ASSUME static \in CharArray, NEW d, NEW n, Measured(d, n), NEW canonize \in BOOLEAN,
         NEW copy \in BOOLEAN, NEW tell \in BOOLEAN, tell => canonize,
         canonize /\ ~copy => tell, NEW c \in Outcomes(d, n, canonize),
         static' = Rewritten(d, c, copy, tell)
  PROVE  /\ static' \in CharArray /\ c.len \in 0..MaxText /\ c.ok \in BOOLEAN
         /\ \A m : Fits(m, static) => Fits(m, static')
         /\ c.ok => d # Null /\ n # 0
         /\ c.ok /\ d = Static /\ ~copy => Fits(c.len, static')
<1>1. /\ c.text \in Text /\ c.len \in 0..MaxText /\ c.ok \in BOOLEAN
      /\ c.ok => d # Null /\ n # 0
      /\ d # Static => c.text = static.text
      /\ d = Static /\ c.ok => c.len \in 1..n /\ c.text[c.len] = "canon"
      /\ d = Static /\ ~canonize => c.text = static.text /\ (c.ok => c.len = n)
      /\ d = Static /\ n # 0 /\ static.text[n] = "canon" => c.text = static.text /\ c.len = n
  BY OutcomeTexts
<1>2. /\ static.text \in Text /\ static.end \in 0..MaxText
      /\ static.use \in {"string", "buffer", "pieces"} /\ static.literal \in BOOLEAN
  BY DEF CharArray
<1> DEFINE t == CanonizeInPlace(c, copy)
           e == Told(d, c, tell)
<1>3. static' = [static EXCEPT !.text = t, !.end = e]
  BY DEF Rewritten
<1>4. t \in Text /\ (copy => t = static.text) /\ (~copy => t = c.text)
  BY <1>1, <1>2 DEF CanonizeInPlace
<1>5. /\ e \in 0..MaxText
      /\ tell /\ c.ok /\ d = Static /\ static.use # "pieces" => e = c.len
      /\ ~(tell /\ c.ok /\ d = Static /\ static.use # "pieces") => e = static.end
  BY <1>1, <1>2 DEF Told
<1> HIDE DEF t, e
<1>6. static' \in CharArray /\ static'.text = t /\ static'.end = e /\ static'.use = static.use
  BY <1>2, <1>3, <1>4, <1>5 DEF CharArray
<1>7. d = Static => n \in 0..MaxText /\ (static.use # "pieces" => n = static.end)
  BY DEF Measured
<1>8. ASSUME NEW m, Fits(m, static) PROVE Fits(m, static')
  <2>1. m \in 1..MaxText
    BY <1>8 DEF Fits
  <2>2. ASSUME static.use # "pieces" PROVE m = e /\ t[m] = "canon"
    <3>1. m = static.end /\ static.text[m] = "canon"
      BY <1>8, <2>2 DEF Fits
    <3>2. CASE d = Static
      <4>1. n = m /\ n # 0
        BY <1>7, <2>1, <2>2, <3>1, <3>2, TextAssumption
      <4>2. c.text = static.text /\ c.len = n
        BY <1>1, <3>1, <3>2, <4>1
      <4>. QED BY <1>4, <1>5, <3>1, <4>1, <4>2
    <3>3. CASE d # Static
      BY <1>1, <1>4, <1>5, <3>1, <3>3
    <3>. QED BY <3>2, <3>3
  <2>. QED BY <1>6, <2>1, <2>2 DEF Fits
<1>9. ASSUME c.ok, d = Static, ~copy PROVE Fits(c.len, static')
  <2>1. c.len \in 1..MaxText
    <3>1. n \in 0..MaxText /\ c.len \in 1..n
      BY <1>1, <1>7, <1>9
    <3>. QED BY <3>1, TextAssumption
  <2>2. ASSUME static.use # "pieces" PROVE c.len = e /\ t[c.len] = "canon"
    <3>1. t[c.len] = "canon"
      BY <1>1, <1>4, <1>9
    <3>2. CASE canonize
      BY <1>5, <1>9, <2>2, <3>1, <3>2
    <3>3. CASE ~canonize
      BY <1>1, <1>5, <1>7, <1>9, <2>2, <3>1, <3>3
    <3>. QED BY <3>2, <3>3
  <2>. QED BY <1>6, <2>1, <2>2 DEF Fits
<1>. QED BY <1>1, <1>6, <1>8, <1>9

LEMMA CreateInv ==
  ASSUME KeyInv, NEW k \in Other, NEW r \in Raw, NEW n, Measured(r.data, n),
         NEW canonize \in BOOLEAN, NEW copy \in BOOLEAN, NEW tell \in BOOLEAN,
         tell => canonize, canonize /\ ~copy => tell,
         copy \/ k \in KeyView, copy => k \in Key /\ bytes[k] = <<>>,
         keyexpr_create(k, r, n, canonize, copy, tell), UNCHANGED scope
  PROVE  KeyInv'
<1>1. CollectionsInv /\ static \in CharArray /\ TypeOK
  BY DEF KeyInv, CollectionsInv
<1>2. ~Lent(k) /\ OwnsNothing(k) /\ (copy => k \notin KeyView) /\ k \notin r.from
  BY UnusedOwnsNothing, RawIsSecured, <1>1, VariablesAssumption, KeyAssumption DEF keyexpr_create, Owned
<1>3. UNCHANGED <<slice, view, array, open>> /\ (copy => Len(mem) < MaxCells)
  BY DEF keyexpr_create
<1>4. PICK c \in Outcomes(r.data, n, canonize) :
         /\ Store(k, c.ok, KeyText(r.data, copy), IF copy THEN {} ELSE r.from, c.len)
         /\ mem' = IF c.ok /\ copy THEN Boxes(1) ELSE mem
         /\ static' = Rewritten(r.data, c, copy, tell)
  BY DEF keyexpr_create
<1>5. /\ static' \in CharArray /\ c.len \in 0..MaxText /\ c.ok \in BOOLEAN
      /\ \A m : Fits(m, static) => Fits(m, static')
      /\ c.ok => r.data # Null /\ n # 0
      /\ c.ok /\ r.data = Static /\ ~copy => Fits(c.len, static')
  BY <1>1, <1>4, Canonized
<1>6. 0 \in 0..MaxText
  BY TextAssumption
<1>7. CASE ~c.ok
  <2>1. /\ bytes' = [bytes EXCEPT ![k] = <<>>] /\ loans' = [loans EXCEPT ![k] = {}] /\ mem' = mem
        /\ piece' = [piece EXCEPT ![k] = 0]
    BY <1>4, <1>7 DEF Store
  <2>2. CollectionsInv'
    BY <1>1, <1>2, <1>3, <2>1, StoreNothing
  <2> DEFINE bs == <<>>
  <2>3. bytes' = [bytes EXCEPT ![k] = bs] /\ DOMAIN bs = {}
    BY <2>1
  <2> HIDE DEF bs
  <2>. QED BY <1>5, <1>6, <2>1, <2>2, <2>3, KeyStored
<1>8. CASE c.ok
  <2> DEFINE s == KeyText(r.data, copy)
             L == IF copy THEN {} ELSE r.from
             p == IF s.data = Static THEN c.len ELSE 0
  <2>1. /\ bytes' = [bytes EXCEPT ![k] = <<s>>] /\ loans' = [loans EXCEPT ![k] = L]
        /\ mem' = IF copy THEN Boxes(1) ELSE mem
        /\ piece' = [piece EXCEPT ![k] = p]
    BY <1>4, <1>8 DEF Store
  <2>2. r.data # Null /\ (~copy /\ r.data = Static => Fits(c.len, static'))
    BY <1>5, <1>8
  <2>3. /\ r.data \in Pointer /\ r.from \in SUBSET Lender
        /\ r.data \in Cell => Secured(r.from, r.data)
    BY <1>1, RawIsSecured
  <2>4. /\ s \in CSlice /\ Coherent(s) /\ L \in SUBSET Lender /\ k \notin L
        /\ Borrowed(s) => Secured(L, s.data)
        /\ (s.drop = None /\ Grown(mem', 0)) \/ (s.drop = Fresh /\ Grown(mem', 1))
        /\ s.data = Static => Fits(c.len, static')
        /\ s.len > 0 /\ (k \in KeyView => s.drop = None)
    <3>1. CASE copy
      <4>1. s = NewOwned(1, Fresh) /\ L = {} /\ mem' = Boxes(1)
        BY <2>1, <3>1 DEF KeyText
      <4>2. Made(s, mem')
        BY <1>1, <1>3, <3>1, <4>1, OwnedIsMade
      <4>3. s.data = Fresh /\ s.len = 1 /\ s.drop = Fresh
        BY <4>1 DEF NewOwned
      <4>4. Fresh \in Cell
        BY <1>1, <1>3, <3>1, MemoryDomain, Pointers DEF Cell
      <4>5. s \in CSlice /\ Coherent(s) /\ ~Borrowed(s)
        BY <4>2 DEF Made
      <4>6. s.drop = Fresh /\ Grown(mem', 1)
        BY <4>2, <4>3, <4>4, Pointers DEF Made
      <4> HIDE DEF s, L, p
      <4>. QED BY <1>2, <3>1, <4>1, <4>3, <4>4, <4>5, <4>6, Pointers
    <3>2. CASE ~copy
      <4>1. s = [data |-> r.data, len |-> 1, drop |-> None] /\ L = r.from /\ mem' = mem
        BY <2>1, <2>2, <3>2 DEF KeyText, NewBorrowed, Refused
      <4>2. Grown(mem', 0)
        BY <1>1, <4>1, MemoryDomain DEF Grown, TypeOK
      <4>3. s \in CSlice /\ Coherent(s)
        BY <2>2, <2>3, <4>1 DEF CSlice, Coherent
      <4> HIDE DEF p
      <4>. QED BY <1>2, <2>2, <2>3, <3>2, <4>1, <4>2, <4>3 DEF Borrowed
    <3>. QED BY <3>1, <3>2
  <2>5. p \in 0..MaxText /\ (s.data = Static => Fits(p, static'))
    BY <1>5, <1>6, <2>4
  <2> HIDE DEF s, L, p
  <2>6. CollectionsInv'
    BY <1>1, <1>2, <1>3, <2>1, <2>4, StoreText
  <2>. QED BY <1>5, <2>1, <2>4, <2>5, <2>6, KeyStoredText
<1>. QED BY <1>5, <1>7, <1>8

LEMMA UncheckedInv ==
  ASSUME KeyInv, NEW q \in Other, NEW r \in Raw, NEW n, Measured(r.data, n),
         z_view_keyexpr_from_substr_unchecked(q, r, n), UNCHANGED scope
  PROVE  KeyInv'
<1>1. CollectionsInv /\ static \in CharArray /\ TypeOK
  BY DEF KeyInv, CollectionsInv
<1>2. /\ q \in KeyView /\ ~Lent(q) /\ (r.data = Static /\ n > 0 => static.text[n] = "canon")
      /\ Store(q, r.data # Null /\ n > 0, KeyText(r.data, FALSE), r.from, n)
      /\ UNCHANGED <<mem, slice, view, array, open, static>>
  BY DEF z_view_keyexpr_from_substr_unchecked
<1>3. OwnsNothing(q)
  BY <1>2, UnusedOwnsNothing
<1>4. static' \in CharArray /\ (\A m : Fits(m, static) => Fits(m, static')) /\ 0 \in 0..MaxText
  BY <1>1, <1>2, TextAssumption
<1>5. CASE ~(r.data # Null /\ n > 0)
  <2> DEFINE bs == <<>>
  <2>1. /\ bytes' = [bytes EXCEPT ![q] = bs] /\ loans' = [loans EXCEPT ![q] = {}]
        /\ piece' = [piece EXCEPT ![q] = 0] /\ DOMAIN bs = {}
    <3>1. Store(q, FALSE, KeyText(r.data, FALSE), r.from, n)
      BY <1>2, <1>5
    <3>. QED BY <3>1 DEF Store
  <2>2. CollectionsInv'
    BY <1>1, <1>2, <1>3, <2>1, StoreNothing
  <2> HIDE DEF bs
  <2>. QED BY <1>4, <2>1, <2>2, KeyStored
<1>6. CASE r.data # Null /\ n > 0
  <2>1. PICK s : s = KeyText(r.data, FALSE)
    OBVIOUS
  <2>2. PICK p : p = IF s.data = Static THEN n ELSE 0
    OBVIOUS
  <2>3. Store(q, TRUE, s, r.from, n)
    BY <1>2, <1>6, <2>1
  <2>4. /\ bytes' = [bytes EXCEPT ![q] = <<s>>] /\ loans' = [loans EXCEPT ![q] = r.from]
        /\ piece' = [piece EXCEPT ![q] = p]
    BY <2>2, <2>3 DEF Store
  <2>5. s = [data |-> r.data, len |-> 1, drop |-> None]
    BY <1>6, <2>1 DEF KeyText, NewBorrowed, Refused
  <2>6. s.data = r.data /\ s.len = 1 /\ s.drop = None
    BY <2>5
  <2>7. /\ r.data \in Pointer /\ r.from \in SUBSET Lender /\ q \notin r.from
        /\ r.data \in Cell => Secured(r.from, r.data)
    BY <1>1, RawIsSecured, VariablesAssumption DEF Owned
  <2>8. s \in CSlice /\ Coherent(s) /\ (Borrowed(s) => Secured(r.from, s.data))
    BY <1>6, <2>5, <2>7 DEF CSlice, Coherent, Borrowed
  <2>9. Grown(mem', 0)
    BY <1>1, <1>2, MemoryDomain DEF Grown, TypeOK
  <2>10. p \in 0..MaxText /\ (s.data = Static => Fits(p, static'))
    <3>1. CASE s.data = Static
      <4>1. n \in 0..MaxText /\ (static.use # "pieces" => n = static.end)
        BY <2>6, <3>1 DEF Measured
      <4>2. p = n /\ n \in 1..MaxText
        BY <1>6, <2>2, <3>1, <4>1, TextAssumption
      <4>3. static.text[n] = "canon" /\ static' = static
        BY <1>2, <1>6, <2>6, <3>1
      <4>4. Fits(n, static')
        BY <4>1, <4>2, <4>3 DEF Fits
      <4>. QED BY <4>1, <4>2, <4>4
    <3>2. CASE s.data # Static
      BY <1>4, <2>2, <3>2
    <3>. QED BY <3>1, <3>2
  <2>11. CollectionsInv'
    BY <1>1, <1>2, <1>3, <2>4, <2>6, <2>7, <2>8, <2>9, StoreText
  <2>12. s.len > 0
    BY <2>6
  <2>. QED BY <1>4, <2>4, <2>6, <2>10, <2>11, <2>12, KeyStoredText
<1>. QED BY <1>5, <1>6

(* z_view_keyexpr_empty, z_keyexpr_drop and z_undeclare_keyexpr.            *)
LEMMA EmptiedInv ==
  ASSUME KeyInv, NEW k \in Other, UNCHANGED scope, z_view_keyexpr_empty(k) \/ z_keyexpr_drop(k)
  PROVE  KeyInv'
<1>1. CollectionsInv /\ static \in CharArray
  BY DEF KeyInv
<1>2. 0 \in 0..MaxText
  BY TextAssumption
<1> DEFINE bs == <<>>
<1>3. /\ ~Lent(k) /\ bytes' = [bytes EXCEPT ![k] = bs] /\ loans' = [loans EXCEPT ![k] = {}]
      /\ piece' = [piece EXCEPT ![k] = 0]
      /\ UNCHANGED <<slice, view, array, open, static>> /\ DOMAIN bs = {}
  BY DEF z_view_keyexpr_empty, z_keyexpr_drop, Store
<1>4. CollectionsInv'
  <2>1. CASE z_view_keyexpr_empty(k)
    BY <1>1, <1>3, <2>1, UnusedOwnsNothing, StoreNothing DEF z_view_keyexpr_empty
  <2>2. CASE z_keyexpr_drop(k)
    BY <1>1, <1>3, <2>2, ReleaseKey DEF z_keyexpr_drop
  <2>. QED BY <2>1, <2>2
<1> HIDE DEF bs
<1>. QED BY <1>1, <1>2, <1>3, <1>4, KeyStored

LEMMA KeyCloneInv ==
  ASSUME KeyInv, NEW k \in Other, NEW l \in Other, z_keyexpr_clone(k, l), UNCHANGED scope
  PROVE  KeyInv'
<1>1. CollectionsInv /\ static \in CharArray
  BY DEF KeyInv
<1>2. /\ k \in Key /\ bytes[k] = <<>> /\ ~Lent(k)
      /\ bytes' = [bytes EXCEPT ![k] = bytes[l]] /\ loans' = [loans EXCEPT ![k] = loans[l]]
      /\ piece' = [piece EXCEPT ![k] = piece[l]]
      /\ UNCHANGED <<mem, slice, view, array, open, static>>
  BY DEF z_keyexpr_clone
<1>3. OwnsNothing(k) /\ k \notin KeyView
  BY <1>2, UnusedOwnsNothing, KeyAssumption
<1>4. bytes[l] \in Seq(CSlice) /\ loans[l] \in SUBSET Lender /\ k \notin loans[l]
  BY <1>1, <1>2 DEF CollectionsInv, TypeOK, Payload, Borrower, Lender, Lent
<1>5. \A i \in DOMAIN bytes[l] : Borrowed(bytes[l][i]) => Secured(loans[l], bytes[l][i].data)
  BY <1>1 DEF CollectionsInv, BorrowsAreSecured, SecuredOther
<1>6. CollectionsInv'
  BY <1>1, <1>2, <1>3, <1>4, <1>5, StoreShared
<1>7. \A i \in DOMAIN bytes[l] : /\ bytes[l][i].data = Static => Fits(piece[l], static)
                                 /\ bytes[l][i].len > 0
  BY KeyTexts
<1>8. piece[l] \in 0..MaxText
  BY DEF KeyInv
<1>. QED BY <1>1, <1>2, <1>3, <1>6, <1>7, <1>8, KeyStored

(* A new text in a box of its own, or none.                                 *)
LEMMA NewTextInv ==
  ASSUME KeyInv, NEW k \in Key, bytes[k] = <<>>, ~Lent(k), Len(mem) < MaxCells, NEW ok \in BOOLEAN,
         Store(k, ok, NewOwned(1, Fresh), {}, 0), mem' = IF ok THEN Boxes(1) ELSE mem,
         UNCHANGED <<scope, slice, view, array, open, static>>
  PROVE  KeyInv'
<1>1. CollectionsInv /\ static \in CharArray /\ TypeOK
  BY DEF KeyInv, CollectionsInv
<1>2. k \in Other /\ k \notin KeyView
  BY KeyAssumption
<1>3. OwnsNothing(k)
  BY <1>2, UnusedOwnsNothing
<1>4. 0 \in 0..MaxText
  BY TextAssumption
<1>5. CASE ~ok
  <2> DEFINE bs == <<>>
  <2>1. bytes' = [bytes EXCEPT ![k] = bs] /\ loans' = [loans EXCEPT ![k] = {}] /\ mem' = mem
 /\ DOMAIN bs = {}
        /\ piece' = [piece EXCEPT ![k] = 0]
    BY <1>5 DEF Store
  <2>2. CollectionsInv'
    BY <1>1, <1>2, <1>3, <2>1, StoreNothing
  <2> HIDE DEF bs
  <2>. QED BY <1>1, <1>2, <1>4, <2>1, <2>2, KeyStored
<1>6. CASE ok
  <2> DEFINE s == NewOwned(1, Fresh)
             bs == <<s>>
             L == {}
  <2>1. /\ bytes' = [bytes EXCEPT ![k] = bs] /\ loans' = [loans EXCEPT ![k] = L] /\ mem' = Boxes(1)
        /\ L \in SUBSET Lender /\ k \notin L
        /\ piece' = [piece EXCEPT ![k] = 0]
    BY <1>6 DEF Store
  <2>2. Made(s, mem')
    BY <1>1, <2>1, OwnedIsMade
  <2>3. s.data = Fresh /\ s.len = 1 /\ s.drop = Fresh
    BY DEF NewOwned
  <2>4. Fresh \in Cell
    BY <1>1, MemoryDomain, Pointers DEF Cell
  <2>5. bs = <<s>> /\ DOMAIN bs = {1} /\ bs[1] = s
    OBVIOUS
  <2> HIDE DEF s, bs, L
  <2>6. s \in CSlice /\ Coherent(s) /\ ~Borrowed(s) /\ s.drop = Fresh /\ Grown(mem', 1)
    BY <2>2, <2>3, <2>4, Pointers DEF Made
  <2>7. CollectionsInv'
    BY <1>1, <1>2, <1>3, <2>1, <2>5, <2>6, StoreText
  <2>8. s.data # Static
    BY <2>3, <2>4, Pointers
  <2>9. /\ static' \in CharArray /\ static' = static
        /\ \A i \in DOMAIN bs : bs[i].data # Static /\ bs[i].len > 0
    BY <1>1, <2>3, <2>5, <2>8
  <2>. QED BY <1>2, <1>4, <2>1, <2>7, <2>9, KeyStored
<1>. QED BY <1>5, <1>6

LEMMA DeclareInv ==
  ASSUME KeyInv, NEW k \in Other, NEW l \in Other, z_declare_keyexpr(k, l), UNCHANGED scope
  PROVE  KeyInv'
<1>1. CollectionsInv /\ static \in CharArray /\ TypeOK
  BY DEF KeyInv, CollectionsInv
<1> DEFINE t == bytes[l][1]
           s == IntoOwned(t)
<1>2. /\ k \in Key /\ bytes[k] = <<>> /\ ~Lent(k) /\ Len(mem) < MaxCells /\ bytes[l] # <<>>
      /\ UNCHANGED <<slice, view, array, open, static>>
  BY DEF z_declare_keyexpr
<1>3. PICK ok \in BOOLEAN : /\ Store(k, ok, s, {}, 0)
                            /\ mem' = IF ok /\ s.drop = Fresh THEN Boxes(1) ELSE mem
  BY DEF z_declare_keyexpr
<1>4. l \in Payload /\ 1 \in DOMAIN bytes[l]
  BY <1>1, <1>2, Payloads, EmptySeq DEF Payload
<1>5. t \in CSlice
  BY <1>1, <1>4, Payloads
<1>6. OwnsNothing(k) /\ k \notin KeyView
  BY <1>2, UnusedOwnsNothing, KeyAssumption
<1>7. CASE t.drop = None
  <2>1. s = NewOwned(1, Fresh)
    BY <1>7 DEF IntoOwned
  <2>2. s.drop = Fresh
    BY <2>1 DEF NewOwned
  <2>. QED BY <1>2, <1>3, <2>1, <2>2, NewTextInv
<1>8. CASE t.drop # None
  <2>1. s = t
    BY <1>8 DEF IntoOwned
  <2>2. t.drop \in Cell /\ BlockOwns(l, t.drop)
    BY <1>4, <1>5, <1>8 DEF CSlice, BlockOwns
  <2>3. LiveCell(t.drop)
    BY <1>1, <1>4, <2>2, Exclusive
  <2>4. t.drop # Fresh
    BY <1>1, <2>3, MemoryDomain DEF LiveCell
  <2>5. mem' = mem
    BY <1>3, <2>1, <2>4
  <2> DEFINE bs == IF ok THEN <<t>> ELSE <<>>
             L == {}
  <2>6. /\ bytes' = [bytes EXCEPT ![k] = bs] /\ loans' = [loans EXCEPT ![k] = L]
        /\ L \in SUBSET Lender /\ k \notin L /\ piece' = [piece EXCEPT ![k] = 0]
    BY <1>3, <2>1 DEF Store
  <2>7. bs \in Seq(CSlice) /\ \A i \in DOMAIN bs : bs[i] = t
    BY <1>5, EmptySeq
  <2>8. ~Borrowed(t)
    BY <1>8 DEF Borrowed
  <2>9. t.data # Static /\ t.len > 0 /\ 0 \in 0..MaxText
    <3>1. t.len > 0
      BY <1>4, KeyTexts
    <3>2. Coherent(t)
      BY <1>1, <1>4, Payloads
    <3>3. t.data = t.drop
      BY <1>8, <3>1, <3>2 DEF Coherent
    <3>. QED BY <2>2, <3>1, <3>3, Pointers, TextAssumption
  <2> HIDE DEF bs, L
  <2>10. \A i \in DOMAIN bs : /\ \E j \in DOMAIN bytes[l] : bs[i] = bytes[l][j]
                              /\ Borrowed(bs[i]) => Secured(L, bs[i].data)
    BY <1>4, <2>7, <2>8
  <2>11. CollectionsInv'
    BY <1>1, <1>2, <1>6, <2>5, <2>6, <2>7, <2>10, StoreShared
  <2>. QED BY <1>1, <1>2, <1>6, <2>6, <2>7, <2>9, <2>11, KeyStored
<1>. QED BY <1>7, <1>8

LEMMA AsViewInv ==
  ASSUME KeyInv, NEW v \in View, NEW l \in Other, z_keyexpr_as_view_string(v, l), UNCHANGED scope
  PROVE  KeyInv'
<1>1. CollectionsInv /\ static \in CharArray
  BY DEF KeyInv
<1> DEFINE t == bytes[l][1]
           s == NewBorrowed(t.data, 1)
           L == {l} \cup loans[l]
<1>2. bytes[l] # <<>> /\ SetView(v, s, L) /\ UNCHANGED <<static, piece>> /\ bytes' = bytes
  BY DEF z_keyexpr_as_view_string, SetView
<1>3. l \in Payload /\ l \in Lender /\ l \in Borrower /\ 1 \in DOMAIN bytes[l]
  BY <1>1, <1>2, Payloads, EmptySeq DEF Payload, Lender, Borrower
<1>4. t \in CSlice /\ Coherent(t) /\ t.len > 0
  BY <1>1, <1>3, Payloads, KeyTexts
<1>5. s = [data |-> t.data, len |-> 1, drop |-> None]
  BY <1>4 DEF NewBorrowed, Refused, Coherent
<1>6. s \in CSlice /\ s.drop = None /\ s.data = t.data /\ Coherent(s)
  BY <1>4, <1>5 DEF CSlice, Coherent
<1>7. L \in SUBSET Lender
  BY <1>1, <1>3 DEF CollectionsInv, TypeOK, Lender
<1>8. ASSUME Borrowed(s) PROVE Secured(L, s.data)
  <2>1. CASE t.drop = None
    <3>1. Borrowed(t)
      BY <1>4, <1>6, <1>8, <2>1 DEF Borrowed
    <3>2. Secured(loans[l], t.data)
      BY <1>1, <1>3, <3>1 DEF CollectionsInv, BorrowsAreSecured, SecuredOther
    <3>. QED BY <1>6, <3>2 DEF Secured
  <2>2. CASE t.drop = t.data
    <3>1. Owns(l, t.data)
      BY <1>3, <2>2 DEF Owns, BlockOwns
    <3>. QED BY <1>6, <3>1 DEF Secured
  <2>. QED BY <1>4, <2>1, <2>2 DEF Coherent
<1> HIDE DEF s, L
<1>9. CollectionsInv'
  BY <1>1, <1>2, <1>6, <1>7, <1>8, SetViewInv
<1>10. piece \in [Other -> 0..MaxText]
  BY DEF KeyInv
<1>. QED BY <1>1, <1>2, <1>9, <1>10, KeyTexts, KeyInvHolds

LEMMA CanonizeInv ==
  ASSUME KeyInv, NEW r, NEW n, Measured(r.data, n), z_keyexpr_canonize(r, n), UNCHANGED scope
  PROVE  KeyInv'
<1>1. CollectionsInv /\ static \in CharArray /\ piece \in [Other -> 0..MaxText]
  BY DEF KeyInv
<1>2. UNCHANGED <<mem, slice, view, array, bytes, open, loans, piece>>
  BY DEF z_keyexpr_canonize
<1>3. PICK c \in Outcomes(r.data, n, TRUE) : static' = Rewritten(r.data, c, FALSE, TRUE)
  BY DEF z_keyexpr_canonize
<1>4. static' \in CharArray /\ \A m : Fits(m, static) => Fits(m, static')
  BY <1>1, <1>3, Canonized
<1>5. CollectionsInv'
  BY <1>1, <1>2, NothingMoves
<1>. QED BY <1>1, <1>2, <1>4, <1>5, KeyTexts, KeyInvHolds

(* The constructors of KeyStep, told apart by what they pass to             *)
(* keyexpr_create.                                                          *)
OwnedCreate(k, r, n) ==
    \/ z_keyexpr_from_substr(k, r, n) \/ z_keyexpr_from_substr_autocanonize(k, r, n)
    \/ z_keyexpr_from_str(k, r, n) \/ z_keyexpr_from_str_autocanonize(k, r, n)
ViewCreate(k, r, n) ==
    \/ z_view_keyexpr_from_substr(k, r, n) \/ z_view_keyexpr_from_substr_autocanonize(k, r, n)
    \/ z_view_keyexpr_from_str(k, r, n) \/ z_view_keyexpr_from_str_autocanonize(k, r, n)
Unchecked(k, r, n) ==
    z_view_keyexpr_from_substr_unchecked(k, r, n) \/ z_view_keyexpr_from_str_unchecked(k, r, n)
Canonizes(r, n) == z_keyexpr_canonize(r, n) \/ z_keyexpr_canonize_null_terminated(r, n)

LEMMA OwnedCreates ==
  ASSUME NEW k, NEW r, NEW n, OwnedCreate(k, r, n)
  PROVE  /\ k \in Key /\ bytes[k] = <<>>
         /\ \E canonize, tell \in BOOLEAN : /\ tell => canonize
                                           /\ keyexpr_create(k, r, n, canonize, TRUE, tell)
BY DEF OwnedCreate, z_keyexpr_from_substr, z_keyexpr_from_str, z_keyexpr_from_substr_autocanonize,
       z_keyexpr_from_str_autocanonize

LEMMA ViewCreates ==
  ASSUME NEW k, NEW r, NEW n, ViewCreate(k, r, n)
  PROVE  /\ k \in KeyView
         /\ \E canonize \in BOOLEAN : /\ canonize => Writable(r)
                                     /\ keyexpr_create(k, r, n, canonize, FALSE, canonize)
BY DEF ViewCreate, z_view_keyexpr_from_substr, z_view_keyexpr_from_str,
       z_view_keyexpr_from_substr_autocanonize, z_view_keyexpr_from_str_autocanonize

LEMMA KeySteps ==
  KeyStep => \/ \E k \in Other, r \in Raw : \E n \in Passed(r) \cup Strlen(r) :
                   OwnedCreate(k, r, n) \/ ViewCreate(k, r, n) \/ Unchecked(k, r, n)
             \/ \E r \in Raw : \E n \in Passed(r) \cup Strlen(r) : Canonizes(r, n)
             \/ \E k, l \in Other : z_keyexpr_clone(k, l) \/ Combine(k, l) \/ z_declare_keyexpr(k, l)
             \/ \E k \in Other :
                   z_view_keyexpr_empty(k) \/ z_keyexpr_drop(k) \/ z_undeclare_keyexpr(k)
             \/ \E v \in View, l \in Other : z_keyexpr_as_view_string(v, l)
BY DEF KeyStep, OwnedCreate, ViewCreate, Unchecked, Canonizes

LEMMA NextKeyInv == KeyInv /\ [KeyNext]_keyVars => KeyInv'
<1> SUFFICES ASSUME KeyInv, [KeyNext]_keyVars PROVE KeyInv'
  OBVIOUS
<1>1. CollectionsInv /\ static \in CharArray /\ piece \in [Other -> 0..MaxText]
  BY DEF KeyInv
<1>2. CASE UNCHANGED keyVars
  <2>1. UNCHANGED <<scope, mem, slice, view, array, bytes, open, loans, static, piece>>
    BY <1>2 DEF keyVars, vars
  <2>2. CollectionsInv'
    BY <1>1, <2>1, NothingMoves
  <2>. QED BY <1>1, <2>1, <2>2, KeyTexts, KeyInvHolds
<1>3. CASE Step /\ UNCHANGED <<scope, static, piece>>
  <2>1. CollectionsInv'
    BY <1>1, <1>3, NextCollectionsInv
  <2>2. (\A k \in Other : bytes'[k] = bytes[k]) /\ KeyView \subseteq Other
    BY <1>1, <1>3, StepKeepsKeys, KeyAssumption
  <2>. QED BY <1>1, <1>3, <2>1, <2>2, KeyTexts, KeyInvHolds
<1>4. CASE KeyStep /\ UNCHANGED scope
  <2>1. ASSUME NEW k \in Other, NEW r \in Raw, NEW n \in Passed(r) \cup Strlen(r),
               OwnedCreate(k, r, n) \/ ViewCreate(k, r, n) \/ Unchecked(k, r, n)
        PROVE  KeyInv'
    <3>1. Measured(r.data, n)
      BY <1>1, LengthsAreMeasured
    <3>2. CASE OwnedCreate(k, r, n)
      <4>1. /\ k \in Key /\ bytes[k] = <<>>
            /\ \E canonize, tell \in BOOLEAN : /\ tell => canonize
                                              /\ keyexpr_create(k, r, n, canonize, TRUE, tell)
        BY <3>2, OwnedCreates
      <4>2. PICK canonize, tell \in BOOLEAN : /\ tell => canonize
                                              /\ keyexpr_create(k, r, n, canonize, TRUE, tell)
        BY <4>1
      <4>. QED BY <1>4, <3>1, <4>1, <4>2, CreateInv
    <3>3. CASE ViewCreate(k, r, n)
      <4>1. /\ k \in KeyView
            /\ \E canonize \in BOOLEAN : keyexpr_create(k, r, n, canonize, FALSE, canonize)
        BY <3>3, ViewCreates
      <4>2. PICK canonize \in BOOLEAN : keyexpr_create(k, r, n, canonize, FALSE, canonize)
        BY <4>1
      <4>. QED BY <1>4, <3>1, <4>1, <4>2, CreateInv
    <3>4. CASE Unchecked(k, r, n)
      BY <1>4, <3>1, <3>4, UncheckedInv DEF Unchecked, z_view_keyexpr_from_str_unchecked
    <3>. QED BY <2>1, <3>2, <3>3, <3>4
  <2>2. ASSUME NEW r \in Raw, NEW n \in Passed(r) \cup Strlen(r), Canonizes(r, n) PROVE KeyInv'
    <3>1. z_keyexpr_canonize(r, n) /\ Measured(r.data, n)
      BY <1>1, <2>2, LengthsAreMeasured DEF Canonizes, z_keyexpr_canonize_null_terminated
    <3>. QED BY <1>4, <3>1, CanonizeInv
  <2>3. ASSUME NEW k \in Other, NEW l \in Other, Combine(k, l) PROVE KeyInv'
    BY <1>4, <2>3, NewTextInv DEF Combine
  <2>4. ASSUME NEW k \in Other, NEW l \in Other, z_keyexpr_clone(k, l) \/ z_declare_keyexpr(k, l)
        PROVE  KeyInv'
    BY <1>4, <2>4, KeyCloneInv, DeclareInv
  <2>5. ASSUME NEW k \in Other,
               z_view_keyexpr_empty(k) \/ z_keyexpr_drop(k) \/ z_undeclare_keyexpr(k)
        PROVE  KeyInv'
    BY <1>4, <2>5, EmptiedInv DEF z_undeclare_keyexpr
  <2>6. ASSUME NEW v \in View, NEW l \in Other, z_keyexpr_as_view_string(v, l) PROVE KeyInv'
    BY <1>4, <2>6, AsViewInv
  <2>. QED BY <1>4, <2>1, <2>2, <2>3, <2>4, <2>5, <2>6, KeySteps
<1>. QED BY <1>2, <1>3, <1>4 DEF KeyNext

LEMMA KeyInvariant == KeySpec => []KeyInv
BY InitKeyInv, NextKeyInv, PTL DEF KeySpec

------------------------------------------------------------------------------
(* The variables keep their types: a view never gets a deleter, and a       *)
(* writer that was finished or dropped refers to nothing.                   *)
THEOREM CollectionTypes == KeySpec => []TypeOK
<1>1. KeyInv => TypeOK
  BY DEF KeyInv, CollectionsInv
<1>. QED BY <1>1, KeyInvariant, PTL

(* Every deleter runs at most once, through copies, clones, aliases, moves  *)
(* into payloads and appends, for any number of variables and cells.        *)
THEOREM MemoryIsFreedOnce == KeySpec => []FreedOnce
<1>1. KeyInv => FreedOnce
  BY InvFreedOnce DEF KeyInv
<1>. QED BY <1>1, KeyInvariant, PTL

(* Every deleter that has not run yet has an owner that will run it, also   *)
(* that of memory of no bytes.                                              *)
THEOREM MemoryIsNotLeaked == KeySpec => []NothingLeaks
<1>1. KeyInv => NothingLeaks
  BY InvFreedOnce DEF KeyInv
<1>. QED BY <1>1, KeyInvariant, PTL

(* Nothing that an application can still read, through any chain of views,  *)
(* aliases and key expressions, has been freed.                             *)
THEOREM ReadsAreLive == KeySpec => []ReadableIsLive
<1>1. KeyInv => ReadableIsLive
  BY InvReadableIsLive DEF KeyInv
<1>. QED BY <1>1, KeyInvariant, PTL

(* However many characters the array has and whatever is canonized in it,   *)
(* rewritten, shortened or refused, a key expression that borrows it still  *)
(* reads canonical text, in programs that use the array as one text.        *)
THEOREM BorrowedTextIsCanonical == KeySpec => []BorrowedIsCanonical
<1>1. KeyInv => BorrowedIsCanonical
  BY DEF KeyInv, BorrowedIsCanonical, Fits
<1>. QED BY <1>1, KeyInvariant, PTL

(* No operation writes to a string literal: the ones that canonize in place *)
(* take writable memory, the others canonize a copy.                        *)
THEOREM LiteralsAreKept == KeySpec => LiteralIsKept
<1>1. ASSUME KeyInv, KeyNext, static.literal PROVE static'.text = static.text
  <2>1. static \in CharArray
    BY <1>1 DEF KeyInv
  <2>2. ASSUME NEW r, NEW n, Measured(r.data, n), NEW canonize \in BOOLEAN, NEW copy \in BOOLEAN,
               NEW tell, NEW c \in Outcomes(r.data, n, canonize),
               static' = Rewritten(r.data, c, copy, tell), ~canonize \/ copy \/ Writable(r)
        PROVE  static'.text = static.text
    <3> DEFINE t == CanonizeInPlace(c, copy)
               e == Told(r.data, c, tell)
    <3>1. static' = [static EXCEPT !.text = t, !.end = e]
      BY <2>2 DEF Rewritten
    <3>2. t = IF copy THEN static.text ELSE c.text
      BY DEF CanonizeInPlace
    <3> HIDE DEF t, e
    <3>3. static'.text = t
      BY <2>1, <3>1 DEF CharArray
    <3>4. \/ copy
          \/ r.data # Static
          \/ r.data = Static /\ ~canonize
      BY <1>1, <2>2, PointerAssumption DEF Writable
    <3>5. ~copy => c.text = static.text
      BY <2>1, <2>2, <3>4, OutcomeTexts
    <3>. QED BY <3>2, <3>3, <3>5
  <2>3. ASSUME NEW k, NEW r, NEW n, Measured(r.data, n), NEW canonize \in BOOLEAN,
               NEW copy \in BOOLEAN, NEW tell, keyexpr_create(k, r, n, canonize, copy, tell),
               ~canonize \/ copy \/ Writable(r)
        PROVE  static'.text = static.text
    BY <2>2, <2>3 DEF keyexpr_create
  <2>4. CASE UNCHANGED static
    BY <2>4
  <2>5. ASSUME NEW k, NEW r \in Raw, NEW n \in Passed(r) \cup Strlen(r),
               OwnedCreate(k, r, n) \/ ViewCreate(k, r, n) \/ Unchecked(k, r, n)
        PROVE  static'.text = static.text
    <3>1. Measured(r.data, n)
      BY <2>1, <2>5, LengthsAreMeasured
    <3>2. CASE OwnedCreate(k, r, n)
      <4>1. PICK canonize, tell \in BOOLEAN : keyexpr_create(k, r, n, canonize, TRUE, tell)
        BY <3>2, OwnedCreates
      <4>. QED BY <2>3, <3>1, <4>1
    <3>3. CASE ViewCreate(k, r, n)
      <4>1. PICK canonize \in BOOLEAN : /\ canonize => Writable(r)
                                        /\ keyexpr_create(k, r, n, canonize, FALSE, canonize)
        BY <3>3, ViewCreates
      <4>. QED BY <2>3, <3>1, <4>1
    <3>4. CASE Unchecked(k, r, n)
      BY <3>4 DEF Unchecked, z_view_keyexpr_from_str_unchecked, z_view_keyexpr_from_substr_unchecked
    <3>. QED BY <2>5, <3>2, <3>3, <3>4
  <2>6. ASSUME NEW r \in Raw, NEW n \in Passed(r) \cup Strlen(r), Canonizes(r, n)
        PROVE  static'.text = static.text
    <3>1. z_keyexpr_canonize(r, n) /\ Measured(r.data, n)
      BY <2>1, <2>6, LengthsAreMeasured DEF Canonizes, z_keyexpr_canonize_null_terminated
    <3>2. PICK c \in Outcomes(r.data, n, TRUE) : static' = Rewritten(r.data, c, FALSE, TRUE)
      BY <3>1 DEF z_keyexpr_canonize
    <3>3. Writable(r)
      BY <3>1 DEF z_keyexpr_canonize
    <3>. QED BY <2>2, <3>1, <3>2, <3>3
  <2>7. ASSUME NEW k, NEW l, z_keyexpr_clone(k, l) \/ Combine(k, l) \/ z_declare_keyexpr(k, l)
        PROVE  UNCHANGED static
    BY <2>7 DEF z_keyexpr_clone, Combine, z_declare_keyexpr
  <2>8. ASSUME NEW k, z_view_keyexpr_empty(k) \/ z_keyexpr_drop(k) \/ z_undeclare_keyexpr(k)
        PROVE  UNCHANGED static
    BY <2>8 DEF z_view_keyexpr_empty, z_keyexpr_drop, z_undeclare_keyexpr
  <2>9. ASSUME NEW v, NEW l, z_keyexpr_as_view_string(v, l) PROVE UNCHANGED static
    BY <2>9 DEF z_keyexpr_as_view_string
  <2>10. CASE KeyStep
    BY <2>4, <2>5, <2>6, <2>7, <2>8, <2>9, <2>10, KeySteps
  <2>. QED BY <1>1, <2>4, <2>10 DEF KeyNext
<1>2. KeyInv /\ [KeyNext]_keyVars => [static.literal => static'.text = static.text]_keyVars
  BY <1>1 DEF keyVars
<1>. QED BY <1>2, KeyInvariant, PTL DEF KeySpec, LiteralIsKept

==============================================================================
