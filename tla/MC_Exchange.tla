---------------------------- MODULE MC_Exchange ------------------------------
(* Two connections; a secret that fits although it is padded, one that     *)
(* does not, and none; bodies that are complete, incomplete, malformed,    *)
(* damaged or hashed with another secret; every route.                     *)
EXTENDS Exchange, TLC

MCRawIds == {"", "a", " a", "b"}
MCTrim == ("" :> "") @@ ("a" :> "a") @@ (" a" :> "a") @@ ("b" :> "b")

MCTrimKey == ("" :> "") @@ ("k" :> "k") @@ (" k" :> "k") @@ ("q" :> "q")

OneReport == {<<Gauge(" a", "v1"), Counter("b", 1)>>}

NoValue == [id |-> "b", mtype |-> "gauge", value |-> Nil, delta |-> Nil]
NoName == [id |-> Nil, mtype |-> "counter", value |-> Nil, delta |-> 1]

Post(route, body, hash) == Request(route, Zero, FALSE, body, hash, FALSE, FALSE)
Visit(route, param) == Request(route, param, FALSE, Empty, NoHash, TRUE, FALSE)

Swapped == Body("json", <<Gauge("b", "v2"), Counter("a", 1)>>)
Holes == Body("json", <<NoValue, NoName>>)
Broken == Body("badjson", <<Counter("a", 1)>>)
One == Body("json", <<Gauge("a", "v1")>>)

Batches == {Post("updates", Swapped, SumSHA256(Swapped, "k")), Post("updates", Holes, NoHash),
            Post("updates", Broken, NoHash),
            Request("updates", Zero, TRUE, Damaged(Swapped), NoHash, TRUE, FALSE),
            Request("updates", Zero, TRUE, Damaged(Swapped), SumSHA256(Swapped, "k"), TRUE, FALSE),
            Request("updates", Zero, TRUE, Swapped, NoHash, TRUE, FALSE)}

Singles == {Post("update", One, SumSHA256(Swapped, "k")), Post("update", One, NoHash),
            Post("update", Body("json", <<NoValue>>), NoHash), Post("update", Broken, NoHash),
            Visit("path", Gauge("a", "nan")), Visit("path", NoValue), Visit("path", Gauge("", "v1"))}

Reads == {Post("value", Body("json", <<NoValue>>), NoHash), Visit("get", Gauge("a", Nil)),
          Visit("get", Zero), Request("value", Zero, FALSE, One, NoHash, TRUE, FALSE)}
         \cup {Visit(r, Zero) : r \in {"snapshot", "index", "ping", "method", "unknown"}}

MCOthers == Batches \cup Singles \cup Reads

Symmetry == Permutations(Conns) \cup Permutations(Buffers)
=============================================================================
