----------------------------- MODULE MetricsRepo -----------------------------
(***************************************************************************)
(* What internal/ports promises its callers of a MetricsRepo: a call takes *)
(* effect atomically at one moment between its invocation and its return.  *)
(* The memory repository is shown to implement this specification; the     *)
(* Server module relies on it and performs each repository call in one     *)
(* step.                                                                   *)
(***************************************************************************)
EXTENDS RepoPort

Idle == [phase |-> "idle", op |-> Nil, result |-> Nil]

-----------------------------------------------------------------------------
VARIABLES repo,  \* the metrics stored
          call   \* call[c]: the call c has open, if any

repoVars == <<repo, call>>

RepoInit == /\ repo = EmptyStore
            /\ call = [c \in Clients |-> Idle]

Invoke(c, op) ==
    /\ call[c].phase = "idle"
    /\ call' = [call EXCEPT ![c] = [phase |-> "called", op |-> op, result |-> Nil]]
    /\ UNCHANGED repo

TakeEffect(c) ==
    /\ call[c].phase = "called"
    /\ repo' = UpdateMany(repo, call[c].op.items)
    /\ call' = [call EXCEPT ![c] = [phase |-> "done", op |-> call[c].op,
                                    result |-> Result(repo, call[c].op)]]

Return(c) ==
    /\ call[c].phase = "done"
    /\ call' = [call EXCEPT ![c] = Idle]
    /\ UNCHANGED repo

RepoNext == \E c \in Clients : \/ \E op \in Ops : Invoke(c, op)
                               \/ TakeEffect(c)
                               \/ Return(c)

RepoSpec == RepoInit /\ [][RepoNext]_repoVars
=============================================================================
