----------------------------- MODULE BatchDecode -----------------------------
(***************************************************************************)
(* How POST /updates turns a body into metrics (ginserver/handler.go): the *)
(* JSON is decoded into a slice taken from a pool shared by all requests,  *)
(* the structs are cloned, and the slice goes back when the handler ends.  *)
(*                                                                         *)
(* The clone is shallow: Value and Delta stay pointers that the slice's    *)
(* elements hold as well.  encoding/json (external) decodes into the       *)
(* elements the slice already has: a field the body leaves out keeps what  *)
(* an earlier request left there, and a number is written through the      *)
(* pointer if there is one.  Nil is a field that an item leaves out.       *)
(***************************************************************************)
EXTENDS Metrics

CONSTANTS Conns,    \* connections, each served by a goroutine
          Slots,    \* elements of a slice's backing array
          Buffers,  \* slices that get allocated
          NoBuf     \* no slice

ASSUME DecodeAssumption == Slots \in Nat /\ NoBuf \notin Buffers

VARIABLES pool,      \* slices in metricsBatchPool
          allocated, \* slices that exist
          elems,     \* elems[b][i]: the element, with what its pointers point to
          buf,       \* the slice the handler of a connection holds
          clone      \* its clone: the strings, and which pointers are set

decodeVars == <<pool, allocated, elems, buf, clone>>

Zero == [id |-> Blank, mtype |-> "other", value |-> Nil, delta |-> Nil]

DecodeInit ==
    /\ pool = {} /\ allocated = {}
    /\ elems = [b \in Buffers |-> [i \in 1 .. Slots |-> Zero]]
    /\ buf = [c \in Conns |-> NoBuf]
    /\ clone = [c \in Conns |-> << >>]

-----------------------------------------------------------------------------
(* encoding/json decoding an object into a struct.                         *)
Fill(old, item) == [f \in DOMAIN item |-> IF item[f] # Nil THEN item[f] ELSE old[f]]

(* What dec.Decode leaves in the elements of a slice.                      *)
Decoded(old, items) ==
    [i \in 1 .. Slots |-> IF i \in DOMAIN items THEN Fill(old[i], items[i]) ELSE old[i]]

(* cloneMetrics: of the numbers only whether there is a pointer.           *)
Clone(es, n) == [i \in 1 .. n |-> [id |-> es[i].id, mtype |-> es[i].mtype,
                                   value |-> es[i].value # Nil,
                                   delta |-> es[i].delta # Nil]]

(* metricsBatchPool.Get: a slice of the pool, or a new one; the pool may   *)
(* forget slices at any time.                                              *)
Get(b) == b \in pool \/ b \notin allocated

(* Faulty variant of Decode: the slice is released at once.                *)
DecodeReleasing(c, items, b) ==
    /\ Get(b)
    /\ elems' = [elems EXCEPT ![b] = Decoded(@, items)]
    /\ allocated' = allocated \cup {b} /\ pool' = pool \cup {b}
    /\ buf' = [buf EXCEPT ![c] = b]
    /\ clone' = [clone EXCEPT ![c] = Clone(elems'[b], Len(items))]

Decode(c, items, b) ==
    /\ Get(b)
    /\ elems' = [elems EXCEPT ![b] = Decoded(@, items)]
    /\ allocated' = allocated \cup {b} /\ pool' = pool \ {b}
    /\ buf' = [buf EXCEPT ![c] = b]
    /\ clone' = [clone EXCEPT ![c] = Clone(elems'[b], Len(items))]

(* A body with an unknown field or a value of the wrong type: what could   *)
(* be decoded is in the slice all the same, the slice goes straight back.  *)
DecodeFails(items, b) ==
    /\ Get(b)
    /\ elems' = [elems EXCEPT ![b] = Decoded(@, items)]
    /\ allocated' = allocated \cup {b} /\ pool' = pool \cup {b}
    /\ UNCHANGED <<buf, clone>>

(* The deferred release, when the handler returns.                         *)
Release(c) ==
    /\ pool' = pool \cup {buf[c]}
    /\ buf' = [buf EXCEPT ![c] = NoBuf]
    /\ clone' = [clone EXCEPT ![c] = << >>]
    /\ UNCHANGED <<allocated, elems>>

-----------------------------------------------------------------------------
(* The items as UpsertBatch reads them, through the clone's pointers.      *)
Seen(c) ==
    [i \in DOMAIN clone[c] |->
        LET m == clone[c][i]
            e == elems[buf[c]][i]
        IN  [id |-> m.id, mtype |-> m.mtype, value |-> IF m.value THEN e.value ELSE Nil,
             delta |-> IF m.delta THEN e.delta ELSE Nil]]
=============================================================================
