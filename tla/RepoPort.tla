------------------------------ MODULE RepoPort -------------------------------
(***************************************************************************)
(* The calls of ports.MetricsRepo and what they answer.                    *)
(***************************************************************************)
EXTENDS Metrics

CONSTANTS Clients,  \* goroutines that call the repository
          Ops       \* the calls they make

(* SetGauge, AddCounter and UpdateMany carry the items they store,         *)
(* GetGauge and GetCounter the name they look up.                          *)
WriteOps ==
    {o \in [kind : {"SetGauge", "AddCounter", "UpdateMany"},
            name : {Nil}, items : Seq(UsableMetric)] :
        /\ o.kind = "SetGauge" => Len(o.items) = 1 /\ o.items[1].mtype = "gauge"
        /\ o.kind = "AddCounter" => Len(o.items) = 1 /\ o.items[1].mtype = "counter"}

ReadOps == [kind : {"GetGauge", "GetCounter"}, name : Names, items : {<< >>}]
              \cup [kind : {"Snapshot"}, name : {Nil}, items : {<< >>}]

ASSUME OpsAssumption == Ops \subseteq WriteOps \cup ReadOps

ASSUME ClientsAssumption == Nil \notin Clients

IsWrite(op) == op.kind \in {"SetGauge", "AddCounter", "UpdateMany"}

(* A lookup of a missing name answers Nil, for domain.ErrNotFound; a write *)
(* answers nil, the error value.                                           *)
Result(s, op) ==
    CASE op.kind = "GetGauge"   -> s.gauges[op.name]
      [] op.kind = "GetCounter" -> s.counters[op.name]
      [] op.kind = "Snapshot"   -> s
      [] OTHER                  -> Nil
=============================================================================
