--------------------------- MODULE MC_PostgresRepo ---------------------------
(* Batches that lock the same rows in opposite order, single statements,   *)
(* increments that overflow together and some that do not, and reads.      *)
EXTENDS PostgresRepo

CONSTANT v1

MCRawIds == {"", "a", "b"}
MCTrim == [r \in MCRawIds |-> r]

MCOp(k, n, items) == [kind |-> k, name |-> n, items |-> items]

AB == MCOp("UpdateMany", Nil, <<Counter("a", 1), Gauge("b", v1)>>)
BA == MCOp("UpdateMany", Nil, <<Counter("b", 1), Counter("a", 1)>>)
AddA == MCOp("AddCounter", Nil, <<Counter("a", -1)>>)
SetA == MCOp("SetGauge", Nil, <<Gauge("a", v1)>>)
Nothing == MCOp("UpdateMany", Nil, << >>)
Snapshot == MCOp("Snapshot", Nil, << >>)
GetA == MCOp("GetCounter", "a", << >>)

Mix == {AB, BA, AddA, SetA, Snapshot, GetA, Nothing}
=============================================================================
