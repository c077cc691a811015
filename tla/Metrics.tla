------------------------------- MODULE Metrics -------------------------------
(***************************************************************************)
(* The metric domain and the pure functions of the server on it: the       *)
(* payload of internal/domain, the validation of Service.UpsertBatch, the  *)
(* updates of the memory repository and the flattening of a snapshot that  *)
(* the file persister writes and replays.                                  *)
(*                                                                         *)
(* A store is a pair of maps; a name a map has no entry for is mapped to   *)
(* Nil.  Nil also stands for the nil pointers of domain.Metrics.           *)
(***************************************************************************)
EXTENDS Integers, Sequences, FiniteSets, SequencesExt

CONSTANTS
    RawIds,     \* the identifiers clients send, padding included: finitely many
    Blank,      \* the empty identifier
    Trim,       \* strings.TrimSpace on RawIds
    Finite,     \* gauge values encoding/json can encode
    NonFinite,  \* gauge values it cannot: NaN and the infinities
    HalfRange,  \* 2^63 for int64
    Nil

ASSUME TrimAssumption ==
    /\ IsFiniteSet(RawIds)
    /\ Blank \in RawIds
    /\ Trim \in [RawIds -> RawIds]
    /\ Trim[Blank] = Blank
    /\ \A r \in RawIds : Trim[Trim[r]] = Trim[r]

ASSUME ValuesAssumption == HalfRange \in Nat \ {0}

ASSUME NilAssumption == Nil \notin Finite \cup NonFinite \cup Int

-----------------------------------------------------------------------------
Names == {Trim[r] : r \in RawIds} \ {Blank}

Values == Finite \cup NonFinite

Int64 == -HalfRange .. HalfRange - 1

(* Faulty variant of Wrap: unbounded integers.                             *)
WrapUnbounded(x) == x

(* Two's-complement wrap-around of int64 addition.                         *)
Wrap(x) == ((x + HalfRange) % (2 * HalfRange)) - HalfRange

(* domain.Metrics as decoded from a request: any string may be its type.   *)
MTypes == {"gauge", "counter", "other"}

Metric == [id : RawIds, mtype : MTypes,
           value : Values \cup {Nil}, delta : Int64 \cup {Nil}]

Gauge(id, v) == [id |-> id, mtype |-> "gauge", value |-> v, delta |-> Nil]

Counter(id, d) == [id |-> id, mtype |-> "counter", value |-> Nil, delta |-> d]

Stores == [gauges : [Names -> Values \cup {Nil}],
           counters : [Names -> Int64 \cup {Nil}]]

EmptyStore == [gauges |-> [n \in Names |-> Nil], counters |-> [n \in Names |-> Nil]]

-----------------------------------------------------------------------------
(* The metrics a store may be updated with: valid, with a trimmed name.    *)
Usable(m) == \/ m.mtype = "gauge" /\ m.value # Nil
             \/ m.mtype = "counter" /\ m.delta # Nil

UsableMetric == {m \in Metric : m.id \in Names /\ Usable(m)}

Trimmed(m) == [m EXCEPT !.id = Trim[m.id]]

(* The loop of UpsertBatch: blank names, unknown types and missing values  *)
(* are skipped, the others are kept in order with their name trimmed.      *)
ValidItems(items) ==
    LET valid[i \in 0 .. Len(items)] ==
          IF i = 0 THEN << >>
          ELSE IF Trim[items[i].id] # Blank /\ Usable(items[i])
               THEN Append(valid[i-1], Trimmed(items[i]))
               ELSE valid[i-1]
    IN  valid[Len(items)]

-----------------------------------------------------------------------------
SetGauge(s, n, v) == [gauges |-> [s.gauges EXCEPT ![n] = v], counters |-> s.counters]

(* r.counters[name] += delta; a missing key reads as zero.                 *)
AddCounter(s, n, d) ==
    LET old == IF s.counters[n] = Nil THEN 0 ELSE s.counters[n]
    IN  [gauges |-> s.gauges, counters |-> [s.counters EXCEPT ![n] = Wrap(old + d)]]

(* One iteration of Repo.UpdateMany.                                       *)
ApplyItem(s, m) ==
    CASE m.mtype = "gauge" /\ m.value # Nil   -> SetGauge(s, m.id, m.value)
      [] m.mtype = "counter" /\ m.delta # Nil -> AddCounter(s, m.id, m.delta)
      [] OTHER -> s

(* The store after the first k iterations.                                 *)
AfterItems(s, items, k) ==
    LET after[i \in 0 .. Len(items)] ==
          IF i = 0 THEN s ELSE ApplyItem(after[i-1], items[i])
    IN  after[k]

UpdateMany(s, items) == AfterItems(s, items, Len(items))

-----------------------------------------------------------------------------
(* Faulty variant of Flatten: the counters are forgotten.                  *)
FlattenGaugesOnly(s) == {Gauge(n, s.gauges[n]) : n \in {x \in Names : s.gauges[x] # Nil}}

(* flattenSnapshot: one item per entry of the maps.  Go iterates a map in  *)
(* an arbitrary order, so the file holds these items in some order.        *)
Flatten(s) ==
    {Gauge(n, s.gauges[n]) : n \in {x \in Names : s.gauges[x] # Nil}} \cup
    {Counter(n, s.counters[n]) : n \in {x \in Names : s.counters[x] # Nil}}

Orders(items) == SetToSeqs(items)

(* encoding/json refuses a slice that holds NaN or an infinity.            *)
Encodable(items) == \A m \in items : m.value \notin NonFinite
=============================================================================
