---------------------------- MODULE MC_ResetGen ------------------------------
(* Two structs.  One may be a single field of any type the emitters tell   *)
(* apart, directly and behind one and two pointers: a kind of its own, the *)
(* struct itself, the other one, and one of another package with and       *)
(* without a Reset method.  Some shapes have several fields.               *)
EXTENDS ResetGen

Plain == <<Type("basic"), Type("slice"), Type("map"), Type("array")>>
Pointers == <<Ptr(Type("basic")), Ptr(Ptr(Type("map"))), Ptr(Type("slice")), Ptr(Type("interface"))>>
Nesting == <<Struct("B"), Ptr(Struct("B"))>>
List == <<Type("basic"), Ptr(Struct("A"))>>
Others == <<Struct("time.Time"), Ptr(Struct("time.Time")), Struct("bytes.Buffer"), Ptr(Struct("bytes.Buffer"))>>

Bases == {Type(k) : k \in {"basic", "slice", "map", "array", "interface", "unsafe"}}
         \cup {Struct(n) : n \in {"B", "time.Time", "bytes.Buffer"}}

Direct == Bases \cup {Ptr(t) : t \in Bases \cup {Struct("A")}}

Single == {<<t>> : t \in Direct \cup {Ptr(t) : t \in Direct}}

MCShapes == [A |-> Single \cup {Plain, Pointers, Nesting, List, Others},
             B |-> {Plain, Pointers, List, Others, <<Type("unsafe")>>, <<Ptr(Ptr(Struct("bytes.Buffer")))>>}]
=============================================================================
