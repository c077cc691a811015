----------------------------- MODULE AgentContext ----------------------------
(* The context cmd/agent gives to Run: SIGINT or SIGTERM cancels it, once. *)
VARIABLE ctxDone

ContextInit == ctxDone = FALSE

Signal == ~ctxDone /\ ctxDone' = TRUE
=============================================================================
