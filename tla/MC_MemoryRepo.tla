---------------------------- MODULE MC_MemoryRepo ----------------------------
(* Clients of a repository with two names: a batch that touches both maps  *)
(* and one name twice, single writes, and every kind of read.              *)
EXTENDS MemoryRepo

MCRawIds == {"", " ", "a", " a", "b"}
MCTrim == ("" :> "") @@ (" " :> "") @@ ("a" :> "a") @@ (" a" :> "a") @@ ("b" :> "b")

Op(k, n, items) == [kind |-> k, name |-> n, items |-> items]

Batch == Op("UpdateMany", Nil, <<Counter("a", 1), Gauge("b", "v1"), Counter("a", 1)>>)

AllOps ==
    { Batch,
      Op("AddCounter", Nil, <<Counter("a", 1)>>),
      Op("SetGauge", Nil, <<Gauge("b", "v2")>>),
      Op("UpdateMany", Nil, << >>),
      Op("GetCounter", "a", << >>),
      Op("GetGauge", "b", << >>),
      Op("Snapshot", Nil, << >>) }

=============================================================================
