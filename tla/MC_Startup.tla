----------------------------- MODULE MC_Startup ------------------------------
(***************************************************************************)
(* Texts of every kind the loaders tell apart.  A second is 4 ticks of an  *)
(* int64 of 64 values, so 8 seconds overflow to a negative duration, 16 to *)
(* zero and 17 to one second.                                              *)
(***************************************************************************)
EXTENDS Startup, TLC

Addr(s, h, p) == [scheme |-> s, host |-> h, port |-> p]

Addresses ==
    ":8080" :> Addr(FALSE, "", "8080") @@ "http://localhost:8080" :> Addr(TRUE, "localhost", "8080")
    @@ "8080" :> Addr(FALSE, "8080", "") @@ "host:9" :> Addr(FALSE, "host", "9")
    @@ "http://host" :> Addr(TRUE, "host", "")

Numbers == "-1" :> -1 @@ "2" :> 2 @@ "8" :> 8 @@ "16" :> 16 @@ "17" :> 17

Durations == "5ms" :> 1 @@ "-1s" :> -4

Truths == "yes" :> TRUE @@ "no" :> FALSE

MCTexts == {"", " ", " 2", "a:b:c", "dsn"} \cup DOMAIN Addresses \cup DOMAIN Numbers
           \cup DOMAIN Durations \cup DOMAIN Truths

MCTrimSpace == [t \in MCTexts |-> CASE t = " " -> "" [] t = " 2" -> "2" [] OTHER -> t]

Reads(f) == [t \in MCTexts |-> IF t \in DOMAIN f THEN f[t] ELSE NotParsed]

MCParseInt == Reads(Numbers)
MCParseDur == Reads(Durations)
MCParseBool == Reads(Truths)
MCParseAddr == Reads(Addresses)

Intervals == {"", " 2", "a:b:c"} \cup DOMAIN Numbers \cup DOMAIN Durations

In(e, f) == [env |-> e, flags |-> f]
ServerSet(a, d, i, r) == [address |-> a, dsn |-> d, interval |-> i, restore |-> r]
AgentSet(a, r, p, l) == [address |-> a, report |-> r, poll |-> p, limit |-> l]

Servers ==
    { In(ServerSet("", " ", i, ""), ServerSet("", "", n, TRUE)) : i \in Intervals, n \in {-1, 0, 8} }
    \cup { In(ServerSet("", d, i, r), ServerSet("", "", -1, b)) :
             d \in {"", "dsn"}, i \in {"", "16"}, r \in {"", "yes", "a:b:c"}, b \in BOOLEAN }

ServersAt == { In(ServerSet(a, "", "16", "yes"), ServerSet(f, "", -1, FALSE)) :
                 a \in {"", "a:b:c", "host:9"}, f \in {"", "8080", "http://host", "http://localhost:8080"} }

Agents == { In(AgentSet("", i, "", l), AgentSet("", 0, n, m)) :
              i \in Intervals, l \in {"", "-1", "2"}, n \in {0, 16}, m \in {-1, 0, 2} }

AgentsAt == { In(AgentSet(a, "", "", ""), AgentSet("", 0, 0, 0)) :
                a \in {"", "a:b:c", "host:9", "8080", "http://host", "http://localhost:8080"} }

(* Every server beside a plain agent, every agent beside a plain server    *)
(* that does not start, and both at every address.                         *)
MCInputs ==
    LET Plain == In(AgentSet("", "", "", ""), AgentSet("", 0, 0, 0))
        Off == In(ServerSet("", "", "-1", ""), ServerSet("", "", -1, FALSE))
    IN  [server : Servers, agent : {Plain}] \cup [server : {Off}, agent : Agents]
        \cup { i \in [server : ServersAt, agent : AgentsAt] : AddressText(i.server) = AddressText(i.agent) }
=============================================================================
