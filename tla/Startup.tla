------------------------------- MODULE Startup -------------------------------
(***************************************************************************)
(* The server from its configuration to its repository, over restarts and  *)
(* database outages: cmd/server/main.go and init.go, with the agent's      *)
(* configuration beside it.  A write is a name, a store the set of those   *)
(* it has.  Handlers and the ticker write, snapshot and save in separate   *)
(* steps, and a Save may fail; what it replaces the file by is atomic, as  *)
(* Server shows system call by system call.                                *)
(***************************************************************************)
EXTENDS Config

CONSTANTS Inputs,        \* environment and flags of the server and of the agent
          Writes,        \* the batches and the single metrics clients send
          Batches,       \* those that are batches
          NoWrite,       \* a handler has no request
          Handlers,      \* handler goroutines
          Ticker,        \* the goroutine that saves periodically
          Delays,        \* len(misc.DefaultBackoff)
          MaxEvents      \* bounds crashes, failed saves and changes of the database

ASSUME StartupAssumption ==
    /\ Batches \subseteq Writes /\ NoWrite \notin Writes /\ Ticker \notin Handlers
    /\ Delays \in Nat /\ MaxEvents \in Nat

ASSUME InputsAssumption ==
    \A i \in Inputs :
       /\ i.server.env \in [address : Texts, dsn : Texts, interval : Texts, restore : Texts]
       /\ i.server.flags \in [address : Texts, dsn : Texts, interval : Int, restore : BOOLEAN]
       /\ i.agent.env \in [address : Texts, report : Texts, poll : Texts, limit : Texts]
       /\ i.agent.flags \in [address : Texts, report : Int, poll : Int, limit : Int]

VARIABLES cfg,      \* the server's configuration
          agent,    \* the agent's
          shared,   \* both were given the same address
          proc,     \* "down", "refused", "connect", "restore" or "up"
          tries,    \* attempts at the database of this start
          repo,     \* the repository in use: "none", "memory" or "postgres"
          mem,      \* what the memory repository holds
          file,     \* what the snapshot file holds
          db, dbUp, \* what the database holds, and whether it answers
          pc,       \* handlers and ticker: "idle", "snapshot", "save" or "respond"
          req,      \* the write each handler works on
          snap,     \* the snapshot each of them is saving
          acked,    \* history: the writes that were acknowledged
          lapses,   \* history: a start missed the "database" or failed to "restore",
                    \* a "save" failed, or one was begun in another, an "overlap"
          events

vars == <<cfg, agent, shared, proc, tries, repo, mem, file, db, dbUp, pc, req, snap,
          acked, lapses, events>>
procVars == <<proc, tries, repo, mem>>
diskVars == <<file, db>>
workVars == <<pc, req, snap>>
envVars == <<cfg, agent, shared, dbUp, events>>

Savers == Handlers \cup {Ticker}

AllIdle == [p \in Savers |-> "idle"]
NoRequests == [h \in Handlers |-> NoWrite]
NoSnapshots == [p \in Savers |-> {}]

AddressText(i) == FromEnvOrFlag(i.env.address, i.flags.address, Blank)

Init ==
    /\ \E i \in Inputs :
          /\ cfg = LoadServerConfig(i.server.env, i.server.flags)
          /\ agent = LoadAgentConfig(i.agent.env, i.agent.flags)
          /\ shared = (AddressText(i.server) = AddressText(i.agent))
    /\ proc = "down" /\ tries = 0 /\ repo = "none" /\ mem = {}
    /\ file = {} /\ db = {} /\ dbUp \in BOOLEAN
    /\ pc = AllIdle /\ req = NoRequests /\ snap = NoSnapshots
    /\ acked = {} /\ lapses = {} /\ events = 0

-----------------------------------------------------------------------------
(* run: a configuration that is not accepted ends the process; sql.Open    *)
(* only parses the DSN.                                                    *)
Start ==
    /\ proc = "down"
    /\ proc' = IF ~cfg.ok THEN "refused" ELSE IF cfg.dsn # Blank THEN "connect" ELSE "restore"
    /\ tries' = 0
    /\ UNCHANGED <<repo, mem, diskVars, workVars, acked, lapses, envVars>>

Connected ==
    /\ proc = "connect" /\ dbUp
    /\ proc' = "up" /\ repo' = "postgres"
    /\ UNCHANGED <<tries, mem, diskVars, workVars, acked, lapses, envVars>>

(* Faulty variant of ConnectFails: the attempts are not counted.           *)
ConnectFailsUncounted ==
    /\ proc = "connect" /\ ~dbUp
    /\ tries' = 1 - tries
    /\ UNCHANGED <<proc, lapses, repo, mem, diskVars, workVars, acked, envVars>>

(* Ping or Migrate fails: misc.Retry tries again after each delay if the   *)
(* error is one that may pass, then the server falls back to memory.       *)
ConnectFails ==
    /\ proc = "connect" /\ ~dbUp
    /\ tries' = tries + 1
    /\ \/ tries < Delays /\ UNCHANGED <<proc, lapses>>
       \/ proc' = "restore" /\ lapses' = lapses \cup {"database"}
    /\ UNCHANGED <<repo, mem, diskVars, workVars, acked, envVars>>

(* Faulty variant of Restore: the file is only read where no database is   *)
(* configured.                                                             *)
RestoreWithoutDSN ==
    /\ proc = "restore"
    /\ proc' = "up" /\ repo' = "memory"
    /\ mem' = IF cfg.restore /\ cfg.dsn = Blank THEN file ELSE {}
    /\ UNCHANGED <<tries, diskVars, workVars, acked, lapses, envVars>>

(* Faulty variant of Restore: no file is looked for with STORE_INTERVAL 0. *)
RestoreWithTicker ==
    /\ proc = "restore"
    /\ proc' = "up" /\ repo' = "memory"
    /\ mem' = IF cfg.restore /\ cfg.interval > 0 THEN file ELSE {}
    /\ UNCHANGED <<tries, diskVars, workVars, acked, lapses, envVars>>

(* The memory repository, filled from the file if RESTORE says so.  A      *)
(* Restore that fails is logged, and the server starts empty.              *)
Restore ==
    /\ proc = "restore"
    /\ proc' = "up" /\ repo' = "memory"
    /\ \/ mem' = (IF cfg.restore THEN file ELSE {}) /\ UNCHANGED lapses
       \/ cfg.restore /\ mem' = {} /\ lapses' = lapses \cup {"restore"}
    /\ UNCHANGED <<tries, diskVars, workVars, acked, envVars>>

Boot == Start \/ Connected \/ ConnectFails \/ Restore

-----------------------------------------------------------------------------
Visible == IF repo = "postgres" THEN db ELSE mem

(* buildRepoAndPersister returns a persister with the memory repository.   *)
HasPersister == repo = "memory"

HasTicker == cfg.dsn = Blank /\ cfg.interval > 0

(* The repository takes a write.                                           *)
Apply(w) ==
    IF repo = "memory" THEN mem' = mem \cup {w} /\ UNCHANGED db
    ELSE dbUp /\ db' = db \cup {w} /\ UNCHANGED mem

(* A handler writes what a client sent.  Only a batch calls onChanged,     *)
(* which saves if there is a persister.                                    *)
Write(h, w) ==
    /\ proc = "up" /\ pc[h] = "idle"
    /\ w \notin acked /\ \A g \in Handlers : req[g] # w
    /\ Apply(w)
    /\ req' = [req EXCEPT ![h] = w]
    /\ pc' = [pc EXCEPT ![h] = IF w \in Batches /\ HasPersister THEN "snapshot" ELSE "respond"]
    /\ UNCHANGED <<proc, tries, repo, file, snap, acked, lapses, envVars>>

(* The database commits but its answer is lost: the client gets an error.  *)
(* (A write it refuses leaves everything as it was.)                       *)
WriteAnswerLost(w) ==
    /\ proc = "up" /\ repo = "postgres" /\ Apply(w)
    /\ UNCHANGED <<proc, tries, repo, file, workVars, acked, lapses, envVars>>

(* The snapshot that is to be saved: after a batch, or when the ticker     *)
(* fires.  No lock is held from here to the Save.                          *)
TakeSnapshot(p) ==
    /\ proc = "up" /\ HasPersister
    /\ \/ p \in Handlers /\ pc[p] = "snapshot"
       \/ p = Ticker /\ pc[p] = "idle" /\ HasTicker
    /\ pc' = [pc EXCEPT ![p] = "save"]
    /\ snap' = [snap EXCEPT ![p] = mem]
    /\ lapses' = lapses \cup {l \in {"overlap"} : \E q \in Savers : pc[q] = "save"}
    /\ UNCHANGED <<procVars, diskVars, req, acked, envVars>>

(* Save: a failure is logged, and the handler answers as if nothing had    *)
(* happened.                                                               *)
Save(p) ==
    /\ pc[p] = "save"
    /\ \/ file' = snap[p] /\ UNCHANGED <<lapses, events>>
       \/ /\ events < MaxEvents /\ events' = events + 1
          /\ UNCHANGED file /\ lapses' = lapses \cup {"save"}
    /\ pc' = [pc EXCEPT ![p] = IF p = Ticker THEN "idle" ELSE "respond"]
    /\ snap' = [snap EXCEPT ![p] = {}]
    /\ UNCHANGED <<procVars, db, req, acked, cfg, agent, shared, dbUp>>

Respond(h) ==
    /\ pc[h] = "respond"
    /\ acked' = acked \cup {req[h]}
    /\ pc' = [pc EXCEPT ![h] = "idle"] /\ req' = [req EXCEPT ![h] = NoWrite]
    /\ UNCHANGED <<procVars, diskVars, snap, lapses, envVars>>

Serve ==
    \/ \E h \in Handlers : (\E w \in Writes : Write(h, w)) \/ Respond(h)
    \/ \E w \in Writes : WriteAnswerLost(w)
    \/ \E p \in Savers : TakeSnapshot(p) \/ Save(p)

-----------------------------------------------------------------------------
Crash ==
    /\ proc \in {"connect", "restore", "up"} /\ events < MaxEvents
    /\ proc' = "down" /\ repo' = "none" /\ mem' = {} /\ tries' = 0
    /\ pc' = AllIdle /\ req' = NoRequests /\ snap' = NoSnapshots
    /\ events' = events + 1
    /\ UNCHANGED <<diskVars, acked, lapses, cfg, agent, shared, dbUp>>

(* The database comes or goes, for a server that has one.                  *)
Outage ==
    /\ events < MaxEvents /\ cfg.ok /\ cfg.dsn # Blank
    /\ dbUp' = ~dbUp
    /\ events' = events + 1
    /\ UNCHANGED <<procVars, diskVars, workVars, acked, lapses, cfg, agent, shared>>

Next == Boot \/ Serve \/ Crash \/ Outage

Spec == Init /\ [][Next]_vars

(* The process runs; the database answers or refuses in the end.           *)
FairSpec == Spec /\ WF_vars(Boot)

-----------------------------------------------------------------------------
(* The variables hold what the Go types, and the bounds, allow.  A start   *)
(* makes at most one attempt at the database more than there are delays.   *)
(* time.NewTicker panics on a duration that is not positive: what the      *)
(* tickers of both programs are given is, even where the conversion to     *)
(* nanoseconds overflows, and the agent has at least one worker.           *)
TypeOK ==
    /\ proc \in {"down", "refused", "connect", "restore", "up"}
    /\ repo \in {"none", "memory", "postgres"} /\ tries \in 0 .. Delays + 1
    /\ {mem, file, db, acked} \subseteq SUBSET Writes
    /\ pc \in [Savers -> {"idle", "snapshot", "save", "respond"}]
    /\ req \in [Handlers -> Writes \cup {NoWrite}] /\ snap \in [Savers -> SUBSET Writes]
    /\ events \in 0 .. MaxEvents
    /\ lapses \subseteq {"database", "restore", "save", "overlap"}
    /\ agent.ok => agent.report > 0 /\ agent.poll > 0 /\ agent.limit >= 1
    /\ cfg.ok => cfg.interval >= 0

(* An agent given the same ADDRESS as the server, or none like the server, *)
(* talks to the server: port and host that it dials are those the server   *)
(* listens on.  A bare port is excepted: the agent takes it for a host.    *)
SharedAddressMeets ==
    shared /\ cfg.ok /\ agent.ok /\ agent.address.port # "" =>
        /\ ~cfg.address.scheme /\ cfg.address.port = agent.address.port
        /\ cfg.address.host \in {"", agent.address.host}

(* A batch that was acknowledged is visible whenever the server is up, if  *)
(* there is a database or RESTORE is on, whatever was crashing while it    *)
(* was written, saved and answered.  Excepted, because the code only logs  *)
(* them, are histories in which a start missed the database or failed to   *)
(* restore or a Save failed; and, because nothing orders them, those in    *)
(* which two Saves overlapped.                                             *)
AckedVisible ==
    proc = "up" /\ lapses = {} /\ (cfg.dsn # Blank \/ cfg.restore) =>
        acked \cap Batches \subseteq Visible

(* With RESTORE on, starts that fall back to memory and starts that find   *)
(* the database again lose no acknowledged batch between them: it is in    *)
(* the database or in the file, through crashes at any step.  A failed     *)
(* Save, a failed Restore and two Saves that overlap do lose one, and are  *)
(* excepted.                                                               *)
AckedDurable ==
    cfg.ok /\ cfg.restore /\ lapses \subseteq {"database"} =>
        acked \cap Batches \subseteq db \cup file

(* Whether the database accepts or refuses, and however often that         *)
(* changes, a start ends: with a server that serves, or with a             *)
(* configuration that is refused.  A database that takes the connection    *)
(* and stays silent is not covered: Ping has no deadline here.             *)
StartsEnd == (proc = "connect") ~> (proc # "connect")
=============================================================================
