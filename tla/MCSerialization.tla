--------------------------- MODULE MCSerialization ---------------------------
(* An instance of Serialization for TLC: bytes of two bits, so that lengths *)
(* of 2 and more take two groups.                                           *)
EXTENDS Serialization

SmallItems ==
    {[kind |-> "uint8", val |-> n] : n \in {0, 3}}
      \cup {[kind |-> "uint16", val |-> n] : n \in {1, 7}}
      \cup {[kind |-> "bool", val |-> b] : b \in BOOLEAN}
      \cup {[kind |-> "slice", val |-> b] : b \in {<<>>, <<3>>, <<2, 0>>}}
      \cup {[kind |-> "string", val |-> b] : b \in {<<>>, <<1>>, <<0, 3>>}}
      \cup {[kind |-> "length", val |-> n] : n \in {0, 2, 5}}

(* Every byte string of up to three bytes.                                  *)
ShortBytes == UNION {[1..n -> 0..3] : n \in 0..3}

SmallOffsets == {-3, -1, 0, 1, 2}
=============================================================================
