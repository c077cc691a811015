------------------------------- MODULE Server --------------------------------
(***************************************************************************)
(* The server process of cmd/server with the memory repository: concurrent *)
(* request handlers running Service.Upsert and Service.UpsertBatch, the    *)
(* goroutine of the store-interval ticker, the audit dispatcher, and the   *)
(* process being killed and started again.  It composes FilePersister and  *)
(* AuditTrail; a repository call is one step, as MetricsRepo specifies and *)
(* MemoryRepo implements.                                                  *)
(***************************************************************************)
EXTENDS FilePersister, AuditTrail

CONSTANTS
    Ticker,       \* the goroutine of the store interval
    TickerOn,     \* cfg.DSN == "" && cfg.Interval > 0
    RestoreOn,    \* cfg.Restore
    Batches,      \* the bodies clients POST to /updates
    Singles,      \* the metrics clients POST to /update
    ClientsLeave, \* whether clients close connections before the answer
    MaxRequests,  \* bounds the requests of a behaviour
    MaxCrashes    \* bounds the times the process ends

(* A JSON body cannot spell NaN or an infinity; the path of                *)
(* /update/gauge/<name>/<value> can, since strconv.ParseFloat reads both.  *)
ASSUME ServerAssumption ==
    /\ Ticker \notin Handlers /\ Savers = Handlers \cup {Ticker}
    /\ {TickerOn, RestoreOn, ClientsLeave} \subseteq BOOLEAN
    /\ Batches \subseteq Seq({m \in Metric : m.value \notin NonFinite})
    /\ Singles \subseteq Metric
    /\ MaxRequests \in Nat /\ MaxCrashes \in Nat

VARIABLES
    store,    \* the repository
    up,       \* "up", "closing" (ListenAndServe has failed) or "down"
    pc,       \* where each handler is
    items,    \* the validated metrics of its request
    rid,      \* the number of its request
    reqs,     \* history: kind, version written and answer of every request
    hist,     \* history: every store the repository has held
    crashes

serverVars == <<store, up, pc, items, rid, reqs, hist, crashes>>
vars == <<serverVars, persisterVars, auditVars>>

Init ==
    /\ PersisterInit /\ AuditInit
    /\ store = EmptyStore /\ hist = <<EmptyStore>>
    /\ up = "up"
    /\ pc = [h \in Handlers |-> "idle"]
    /\ items = [h \in Handlers |-> << >>]
    /\ rid = [h \in Handlers |-> 0]
    /\ reqs = << >>
    /\ crashes = 0

Running == up \in {"up", "closing"}

Goto(h, l) == pc' = [pc EXCEPT ![h] = l]

Request(kind, answer) == [kind |-> kind, ver |-> 0, answer |-> answer]

-----------------------------------------------------------------------------
(* A request arrives and is validated: accepted into a goroutine of its    *)
(* own, or refused before the repository is touched.                       *)
Accept(h, kind, ms, l) ==
    /\ items' = [items EXCEPT ![h] = ms]
    /\ rid' = [rid EXCEPT ![h] = Len(reqs) + 1]
    /\ reqs' = Append(reqs, Request(kind, "pending"))
    /\ Goto(h, l)
    /\ OpenContext(Len(reqs) + 1)
    /\ UNCHANGED <<store, up, hist, crashes, persisterVars>>

Refuse(kind) ==
    /\ reqs' = Append(reqs, Request(kind, "refused"))
    /\ UNCHANGED <<store, up, pc, items, rid, hist, crashes, persisterVars, auditVars>>

Arrives(h) == up = "up" /\ pc[h] = "idle" /\ Len(reqs) < MaxRequests

UpsertBatch(h, b) ==
    /\ Arrives(h)
    /\ IF ValidItems(b) # << >>
       THEN Accept(h, "batch", ValidItems(b), "update")
       ELSE Refuse("batch")

Upsert(h, m) ==
    /\ Arrives(h)
    /\ IF Trim[m.id] # Blank /\ Usable(m)
       THEN Accept(h, "single", <<Trimmed(m)>>, "write")
       ELSE Refuse("single")

(* repo.UpdateMany of a batch; repo.SetGauge or repo.AddCounter of one.    *)
WriteRepo(h) ==
    /\ pc[h] \in {"update", "write"}
    /\ store' = UpdateMany(store, items[h])
    /\ hist' = Append(hist, store')
    /\ reqs' = [reqs EXCEPT ![rid[h]].ver = Len(hist) + 1]
    /\ Goto(h, IF pc[h] = "update" THEN "audit" ELSE "readback")
    /\ UNCHANGED <<up, items, rid, crashes, persisterVars, auditVars>>

(* The Get after a single write; only what it finds is audited.            *)
ReadBack(h) ==
    /\ pc[h] = "readback"
    /\ LET m == items[h][1]
           found == IF m.mtype = "gauge" THEN store.gauges[m.id] ELSE store.counters[m.id]
       IN  Goto(h, IF found # Nil THEN "audit" ELSE "notfound")
    /\ UNCHANGED <<store, up, items, rid, reqs, hist, crashes, persisterVars, auditVars>>

BeginAudit(h) ==
    /\ pc[h] = "audit"
    /\ NotifyAudit(h, rid[h])
    /\ Goto(h, "auditing")
    /\ UNCHANGED <<store, up, items, rid, reqs, hist, crashes, persisterVars>>

AuditStep(h) ==
    /\ pc[h] = "auditing"
    /\ Enqueue(h, rid[h]) \/ NotifySink(h) \/ PublishReturned(h)
    /\ UNCHANGED <<serverVars, persisterVars>>

(* Faulty variant of EndAudit: a batch is answered without being saved.    *)
EndAuditNoSave(h) ==
    /\ pc[h] = "auditing"
    /\ NotifyReturned(h)
    /\ Goto(h, "respond")
    /\ UNCHANGED <<store, up, items, rid, reqs, hist, crashes, persisterVars>>

EndAudit(h) ==
    /\ pc[h] = "auditing"
    /\ NotifyReturned(h)
    /\ Goto(h, IF reqs[rid[h]].kind = "batch" THEN "snapshot" ELSE "respond")
    /\ UNCHANGED <<store, up, items, rid, reqs, hist, crashes, persisterVars>>

(* onChanged: only UpsertBatch takes a snapshot and saves it.              *)
OnChanged(h) ==
    /\ pc[h] = "snapshot"
    /\ BeginSave(h, store, Len(hist))
    /\ Goto(h, "saving")
    /\ UNCHANGED <<store, up, items, rid, reqs, hist, crashes, auditVars>>

SaveSnapshot(h) ==
    /\ pc[h] = "saving"
    /\ SaveStep(h)
    /\ UNCHANGED <<serverVars, auditVars>>

Saved(h) ==
    /\ pc[h] = "saving"
    /\ EndSave(h)
    /\ Goto(h, "respond")
    /\ UNCHANGED <<store, up, items, rid, reqs, hist, crashes, auditVars>>

Respond(h) ==
    /\ pc[h] \in {"respond", "notfound"}
    /\ reqs' = [reqs EXCEPT ![rid[h]].answer = IF pc[h] = "respond" THEN "ok" ELSE "notfound"]
    /\ CancelContext(rid[h])
    /\ Goto(h, "idle")
    /\ items' = [items EXCEPT ![h] = << >>]
    /\ rid' = [rid EXCEPT ![h] = 0]
    /\ UNCHANGED <<store, up, hist, crashes, persisterVars>>

(* The client closes its connection while the handler runs.                *)
ClientGone(h) ==
    /\ ClientsLeave /\ rid[h] \in live
    /\ CancelContext(rid[h])
    /\ UNCHANGED <<serverVars, persisterVars>>

HandlerStep(h) ==
    /\ Running
    /\ \/ WriteRepo(h) \/ ReadBack(h)
       \/ BeginAudit(h) \/ AuditStep(h) \/ EndAudit(h)
       \/ OnChanged(h) \/ SaveSnapshot(h) \/ Saved(h)
       \/ Respond(h)

-----------------------------------------------------------------------------
(* The loop over ticker.C: snapshot, save, wait for the next tick.         *)
Tick ==
    /\ TickerOn
    /\ BeginSave(Ticker, store, Len(hist))
    /\ UNCHANGED <<serverVars, auditVars>>

TickerStep ==
    /\ Running
    /\ \/ Tick
       \/ (SaveStep(Ticker) \/ EndSave(Ticker)) /\ UNCHANGED <<serverVars, auditVars>>

DispatcherStep ==
    /\ Running
    /\ Dispatch
    /\ UNCHANGED <<serverVars, persisterVars>>

-----------------------------------------------------------------------------
(* The process ends: nothing but the disk and the sinks survives.          *)
ProcessEnds ==
    /\ up' = "down"
    /\ store' = EmptyStore
    /\ pc' = [h \in Handlers |-> "idle"]
    /\ items' = [h \in Handlers |-> << >>]
    /\ rid' = [h \in Handlers |-> 0]
    /\ reqs' = [r \in DOMAIN reqs |->
                  IF reqs[r].answer = "pending" THEN [reqs[r] EXCEPT !.answer = "lost"] ELSE reqs[r]]
    /\ PersisterCrash
    /\ AuditStart
    /\ UNCHANGED hist

(* No signal is handled: SIGTERM kills the server wherever it is.          *)
Crash ==
    /\ Running /\ crashes < MaxCrashes
    /\ ProcessEnds
    /\ crashes' = crashes + 1

(* ListenAndServe returns an error: the deferred Close runs, then the      *)
(* process exits, while handlers that still run go on.                     *)
ServeFails ==
    /\ up = "up" /\ crashes < MaxCrashes
    /\ up' = "closing"
    /\ crashes' = crashes + 1
    /\ IF AuditorSet THEN CloseCancel ELSE UNCHANGED auditVars
    /\ UNCHANGED <<store, pc, items, rid, reqs, hist, persisterVars>>

CloseStep ==
    /\ up = "closing"
    /\ CloseForget
    /\ UNCHANGED <<serverVars, persisterVars>>

Exit ==
    /\ up = "closing" /\ Closed
    /\ ProcessEnds
    /\ UNCHANGED crashes

(* buildRepoAndPersister, before the server listens.  A Restore that fails *)
(* is only logged: the server starts empty, or, if closing the file is     *)
(* what failed, with what was restored.                                    *)
Boot ==
    /\ up = "down"
    /\ \/ store' \in (IF RestoreOn THEN Restored(file) ELSE {EmptyStore}) /\ UNCHANGED faults
       \/ /\ RestoreOn /\ file # Absent /\ faults < MaxFaults
          /\ faults' = faults + 1
          /\ store' \in Restored(file) \cup {EmptyStore}
    /\ hist' = Append(hist, store')
    /\ up' = "up"
    /\ UNCHANGED <<pc, items, rid, reqs, crashes, diskVars, save, auditVars>>

-----------------------------------------------------------------------------
Next ==
    \/ \E h \in Handlers :
         \/ \E b \in Batches : UpsertBatch(h, b)
         \/ \E m \in Singles : Upsert(h, m)
         \/ ClientGone(h)
         \/ HandlerStep(h)
    \/ TickerStep \/ DispatcherStep
    \/ Crash \/ ServeFails \/ CloseStep \/ Exit \/ Boot

Spec == Init /\ [][Next]_vars

(* Goroutines run; the client, a crash and a start are not obliged to      *)
(* happen.  No request depends on the fairness of the dispatcher.          *)
HandlersRun == \A h \in Handlers : WF_vars(HandlerStep(h))

TickerRuns == WF_vars(TickerStep)

DispatcherRuns == WF_vars(DispatcherStep)

FairSpec == Spec /\ HandlersRun

-----------------------------------------------------------------------------
(* The variables hold what the Go types, and the bounds, allow.            *)
TypeOK ==
    /\ store \in Stores /\ hist \in Seq(Stores) /\ hist # << >>
    /\ up \in {"up", "closing", "down"}
    /\ pc \in [Handlers -> {"idle", "update", "write", "readback", "audit", "auditing",
                            "snapshot", "saving", "respond", "notfound"}]
    /\ items \in [Handlers -> Seq(UsableMetric)]
    /\ rid \in [Handlers -> Nat]
    /\ reqs \in Seq([kind : {"batch", "single"}, ver : Nat,
                     answer : {"pending", "ok", "notfound", "refused", "lost"}])
    /\ crashes \in Nat
    /\ PersisterTypeOK /\ AuditTypeOK

(* The newest entry of the history is what the repository holds.           *)
StoreIsLatest == Running => store = hist[Len(hist)]

(* Concurrent Saves do not disturb each other: each writes the snapshot it *)
(* was called with to a temporary file that no other Save has, and what it *)
(* is about to rename is that snapshot, whole.                             *)
SavesApart ==
    /\ \A p \in Savers :
         /\ save[p].pc \in {"create", "encode", "rename"} =>
              save[p].ver \in DOMAIN hist /\ save[p].items = Flatten(hist[save[p].ver])
         /\ Owns(p) => save[p].tmp \in TmpNames /\ temps[save[p].tmp] # Absent
         /\ save[p].pc = "rename" => temps[save[p].tmp] = Complete(save[p].items)
    /\ \A p, q \in Savers : Owns(p) /\ Owns(q) /\ save[p].tmp = save[q].tmp => p = q

(* The snapshot file is at every moment absent or one complete state that  *)
(* the repository once had: never a torn write, never a mixture of two     *)
(* batches or of two Saves, whatever fails or is killed in between.        *)
FileIsPastState ==
    file # Absent => fileVer \in DOMAIN hist /\ file = Complete(Flatten(hist[fileVer]))

(* A temporary file on disk belongs to a Save that is still running, or    *)
(* was left by a crash or by a Remove that failed: Save itself leaks none. *)
TempsAccounted == \A t \in TmpNames : temps[t] # Absent => t \in Owned \cup orphans

(* A start with RESTORE brings back exactly the store the file was taken   *)
(* from, whichever order the file lists its items in.                      *)
RestartRestoresFile ==
    [][up = "down" /\ up' = "up" /\ RestoreOn /\ faults' = faults
         => store' = (IF file = Absent THEN EmptyStore ELSE hist[fileVer])]_vars

Answered(kinds) == {r \in DOMAIN reqs : reqs[r].answer = "ok" /\ reqs[r].kind \in kinds}

(* STORE_INTERVAL=0, "sync writes": a batch that was answered 200 is in    *)
(* the snapshot file, unless a system call of Save failed.                 *)
AckedBatchesSaved ==
    faults = 0 => \A r \in Answered({"batch"}) : reqs[r].ver <= fileVer

(* With the ticker running the file catches up with the repository: a      *)
(* server that stays up has, once clients are quiet, everything on disk,   *)
(* whatever failed before.  A NaN, which json.Encoder refuses, holds up    *)
(* every Save until it is overwritten.                                     *)
EventuallyPersisted ==
    TickerRuns /\ <>[](up = "up" /\ Encodable(Flatten(store)))
        => <>[](file = Complete(Flatten(store)))

(* Every request is answered although nothing obliges the dispatcher or a  *)
(* sink to make progress: auditing never holds up a handler.  A behaviour  *)
(* has at most MaxRequests of them, so they are all answered exactly if    *)
(* there is always again a moment when no handler is at work.              *)
RequestsComplete == []<>(\A h \in Handlers : pc[h] = "idle")

-----------------------------------------------------------------------------
(* A sink records an event at most once, only for a write that reached the *)
(* repository, and the queued events in the order the channel took them.   *)
DeliveredOnceInOrder ==
    \A s \in DOMAIN delivered :
        LET log == delivered[s] IN
        /\ \A i, j \in DOMAIN log : i < j => log[i] # log[j]
        /\ \A i \in DOMAIN log : reqs[log[i]].ver > 0
        /\ \A i, j \in DOMAIN log : \A k, l \in DOMAIN sent :
              log[i] = sent[k] /\ log[j] = sent[l] /\ i < j => k < l

(* What the dispatcher took out of the channel reaches a file sink that    *)
(* does not fail, also if Close or a restart comes in between: Close       *)
(* forgets the channel only when the Publish in progress has returned.     *)
TakenReachFile ==
    "file" \in ToSet(Sinks) \ FailingSinks =>
        \A i \in DOMAIN taken :
            \/ taken[i] \in ToSet(delivered["file"])
            \/ queueOpen /\ pub[Dispatcher].evt = taken[i]

(* The first process has not ended; Close may be at work.                  *)
FirstLife == crashes = 0 \/ (crashes = 1 /\ up = "closing")

(* While the process lives no event vanishes, not even while Close stops   *)
(* the dispatcher under the handlers: a write answered 200 is in the       *)
(* channel, with the dispatcher, recorded by a file sink that does not     *)
(* fail, or counted as dropped.  What is in the channel when the process   *)
(* exits goes with it.                                                     *)
NoSilentLoss ==
    "file" \in ToSet(Sinks) \ FailingSinks /\ FirstLife =>
        \A r \in Answered({"batch", "single"}) :
            \/ r \in ToSet(queue) \cup dropped \cup ToSet(delivered["file"])
            \/ pub[Dispatcher].evt = r

(* An accepted event is published, unless the server ends first.           *)
QueueDrains == DispatcherRuns => []<>(queue = << >> \/ up # "up")

(* "Each successful metrics write triggers a fan-out notification to every *)
(* configured sink": what the dispatcher finished has reached the remote   *)
(* sink, which works.                                                      *)
RemoteSinkComplete ==
    "remote" \in DOMAIN delivered =>
        \A i \in DOMAIN taken :
            \/ taken[i] \in ToSet(delivered["remote"])
            \/ pub[Dispatcher].evt = taken[i]
=============================================================================
