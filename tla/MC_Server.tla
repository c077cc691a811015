------------------------------ MODULE MC_Server ------------------------------
(* Small instances of the server: two names, one of them sent with         *)
(* padding, counters of two bits, batches that mix both types and carry    *)
(* items the validation drops.                                             *)
EXTENDS Server

MCRawIds == {"", " ", "a", " a", "b"}
MCTrim == ("" :> "") @@ (" " :> "") @@ ("a" :> "a") @@ (" a" :> "a") @@ ("b" :> "b")

NoValue == [id |-> "b", mtype |-> "gauge", value |-> Nil, delta |-> Nil]
BadType == [id |-> "a", mtype |-> "other", value |-> "v1", delta |-> Nil]

Batch1 == <<Counter(" a", 1), Counter(" ", 1), Gauge("b", "v1")>>
Batch2 == <<NoValue, Counter("a", 1), BadType, Gauge("b", "v2")>>
BadBatch == <<Gauge("", "v1"), NoValue, BadType>>

GoodAndBad == {Batch1, BadBatch}
TwoBatches == {Batch1, Batch2}
NoBatches == {}

OneGauge == {Gauge(" a", "v1")}
OneSingle == {Counter("a", 1)}
NaNOrNothing == {Gauge("b", "nan"), NoValue}
NoSingles == {}

NoSinks == << >>
BothSinks == <<"file", "remote">>
=============================================================================
