------------------------------ MODULE MC_Agent -------------------------------
(* Small instances of the agent: a runtime gauge or a host gauge beside    *)
(* PollCount; one worker and two failures, or two workers and one failure. *)
EXTENDS Agent

MCRawIds == {"", "Alloc", "FreeMemory", "PollCount"}
MCTrim == [r \in MCRawIds |-> r]

NoGauges == << >>
OneGauge == <<"Alloc">>
HostGauge == <<"FreeMemory">>

TwoRuntimePolls == [runtime |-> 2, host |-> 1]
Two == [limit \in RateLimits |-> 2]
TwoOrOne == [limit \in RateLimits |-> IF limit < 1 THEN 2 ELSE 1]

OneHostPoll == [runtime |-> 0, host |-> 1]
=============================================================================
