----------------------------- MODULE ServerProofs ----------------------------
(***************************************************************************)
(* What the runs of Server check on small instances, proved for any        *)
(* number of handlers, names, values, requests, faults and crashes.        *)
(***************************************************************************)
EXTENDS Server, MetricsProofs, AuditProofs

(* The conjuncts of TypeOK about the variables Server itself declares.     *)
ServerTypeOK ==
    /\ store \in Stores /\ hist \in Seq(Stores) /\ hist # << >>
    /\ up \in {"up", "closing", "down"}
    /\ pc \in [Handlers -> {"idle", "update", "write", "readback", "audit", "auditing",
                            "snapshot", "saving", "respond", "notfound"}]
    /\ items \in [Handlers -> Seq(UsableMetric)]
    /\ rid \in [Handlers -> Nat]
    /\ reqs \in Seq([kind : {"batch", "single"}, ver : Nat,
                     answer : {"pending", "ok", "notfound", "refused", "lost"}])
    /\ crashes \in Nat

(* What Save and a crash maintain about the disk.                          *)
DiskInv == PersisterTypeOK /\ SavesApart /\ FileIsPastState /\ TempsAccounted

(* The inductive invariant.                                                *)
IInv == ServerTypeOK /\ StoreIsLatest /\ DiskInv /\ AuditInv

SaveRecords == [pc : {"idle", "create", "encode", "rename", "cleanup", "saved", "failed"},
                items : SUBSET Metric, ver : Nat, tmp : TmpNames \cup {Nil}]

-----------------------------------------------------------------------------
(* The three states of a file are different.                               *)
LEMMA FileStates ==
    /\ Absent # Partial
    /\ \A ms : Complete(ms) # Absent
    /\ \A ms, ns : Complete(ms) = Complete(ns) => ms = ns
BY DEF Absent, Partial, Complete

(* Files of the three kinds are files.                                     *)
LEMMA FileTypes ==
    /\ Absent \in Files /\ Partial \in Files
    /\ \A ms \in SUBSET Metric : Complete(ms) \in Files
BY DEF Absent, Partial, Complete, Files

(* A step of Save moves one goroutine and leaves its other fields alone.   *)
LEMMA SaveGotoEffect ==
    ASSUME PersisterTypeOK, NEW p \in Savers, NEW l, SaveGoto(p, l),
           l \in {"idle", "create", "encode", "rename", "cleanup", "saved", "failed"}
    PROVE  /\ save' \in [Savers -> SaveRecords]
           /\ save'[p].pc = l /\ save'[p].items = save[p].items
           /\ save'[p].ver = save[p].ver /\ save'[p].tmp = save[p].tmp
           /\ \A q \in Savers \ {p} : save'[q] = save[q]
BY DEF PersisterTypeOK, SaveGoto, SaveRecords

(* os.CreateTemp keeps the disk invariant: its name is nobody else's.      *)
LEMMA CreateTempDisk ==
    ASSUME DiskInv, NEW p \in Savers, CreateTemp(p), UNCHANGED hist
    PROVE  DiskInv'
<1>1. PICK t \in TmpNames :
        /\ temps[t] = Absent
        /\ temps' = [temps EXCEPT ![t] = Partial]
        /\ save' = [save EXCEPT ![p].pc = "encode", ![p].tmp = t]
  BY DEF CreateTemp
<1>2. /\ save' \in [Savers -> SaveRecords]
      /\ save'[p].pc = "encode" /\ save'[p].items = save[p].items
      /\ save'[p].ver = save[p].ver /\ save'[p].tmp = t
      /\ \A q \in Savers \ {p} : save'[q] = save[q]
  BY <1>1 DEF DiskInv, PersisterTypeOK, SaveRecords
<1>3. /\ temps' \in [TmpNames -> Files] /\ temps'[t] = Partial
      /\ \A u \in TmpNames \ {t} : temps'[u] = temps[u]
  BY <1>1, FileTypes DEF DiskInv, PersisterTypeOK
<1>4. UNCHANGED <<file, fileVer, orphans, faults>> /\ save[p].pc = "create"
  BY DEF CreateTemp, SaveAt
<1>5. PersisterTypeOK'
  BY <1>2, <1>3, <1>4 DEF DiskInv, PersisterTypeOK, SaveRecords
<1>6. SavesApart'
  <2>1. \A q \in Savers \ {p} : Owns(q) => save[q].tmp # t
    BY <1>1 DEF DiskInv, SavesApart
  <2> QED BY <1>2, <1>3, <1>4, <2>1, FileStates DEF DiskInv, SavesApart, Owns
<1>7. FileIsPastState'
  BY <1>4 DEF DiskInv, FileIsPastState
<1>8. TempsAccounted'
  BY <1>2, <1>3, <1>4 DEF DiskInv, TempsAccounted, Owned, Owns
<1> QED BY <1>5, <1>6, <1>7, <1>8 DEF DiskInv

(* Encoding fills the goroutine's own temporary file with its snapshot.    *)
LEMMA EncodeDisk ==
    ASSUME DiskInv, NEW p \in Savers, Encode(p), UNCHANGED hist
    PROVE  DiskInv'
<1> DEFINE t == save[p].tmp
<1>1. t \in TmpNames /\ Owns(p) /\ save[p].pc = "encode"
  BY DEF DiskInv, SavesApart, Encode, SaveAt, Owns
<1>2. /\ save' \in [Savers -> SaveRecords]
      /\ save'[p].pc = "rename" /\ save'[p].items = save[p].items
      /\ save'[p].ver = save[p].ver /\ save'[p].tmp = t
      /\ \A q \in Savers \ {p} : save'[q] = save[q]
  BY SaveGotoEffect DEF DiskInv, Encode
<1>3. save[p].items \in SUBSET Metric
  BY DEF DiskInv, PersisterTypeOK
<1>4. /\ temps' \in [TmpNames -> Files] /\ temps'[t] = Complete(save[p].items)
      /\ \A u \in TmpNames \ {t} : temps'[u] = temps[u]
  BY <1>1, <1>3, FileTypes DEF DiskInv, PersisterTypeOK, Encode
<1>5. UNCHANGED <<file, fileVer, orphans, faults>>
  BY DEF Encode
<1> HIDE DEF t
<1>6. PersisterTypeOK'
  BY <1>2, <1>4, <1>5 DEF DiskInv, PersisterTypeOK, SaveRecords
<1>7. SavesApart'
  BY <1>1, <1>2, <1>4, <1>5, FileStates DEF DiskInv, SavesApart, Owns, t
<1>8. FileIsPastState'
  BY <1>5 DEF DiskInv, FileIsPastState
<1>9. TempsAccounted'
  BY <1>1, <1>2, <1>4, <1>5 DEF DiskInv, TempsAccounted, Owned, Owns, t
<1> QED BY <1>6, <1>7, <1>8, <1>9 DEF DiskInv

(* The rename publishes the goroutine's own file, a complete snapshot.     *)
LEMMA RenameDisk ==
    ASSUME DiskInv, NEW p \in Savers, Rename(p), UNCHANGED hist
    PROVE  DiskInv'
<1> DEFINE t == save[p].tmp
<1>1. /\ t \in TmpNames /\ Owns(p) /\ save[p].pc = "rename"
      /\ temps[t] = Complete(save[p].items)
      /\ save[p].ver \in DOMAIN hist /\ save[p].items = Flatten(hist[save[p].ver])
  BY DEF DiskInv, SavesApart, Rename, SaveAt, Owns
<1>2. /\ save' \in [Savers -> SaveRecords]
      /\ save'[p].pc = "saved" /\ save'[p].items = save[p].items
      /\ save'[p].ver = save[p].ver /\ save'[p].tmp = t
      /\ \A q \in Savers \ {p} : save'[q] = save[q]
  BY SaveGotoEffect DEF DiskInv, Rename
<1>3. /\ temps' \in [TmpNames -> Files] /\ temps'[t] = Absent
      /\ \A u \in TmpNames \ {t} : temps'[u] = temps[u]
  BY <1>1, FileTypes DEF DiskInv, PersisterTypeOK, Rename
<1>4. /\ file' = temps[t] /\ fileVer' = save[p].ver
      /\ UNCHANGED <<orphans, faults>>
  BY DEF Rename
<1>5. file' \in Files /\ fileVer' \in Nat
  BY <1>1, <1>4 DEF DiskInv, PersisterTypeOK
<1> HIDE DEF t
<1>6. PersisterTypeOK'
  BY <1>2, <1>3, <1>4, <1>5 DEF DiskInv, PersisterTypeOK, SaveRecords
<1>7. SavesApart'
  BY <1>1, <1>2, <1>3, <1>4, FileStates DEF DiskInv, SavesApart, Owns, t
<1>8. FileIsPastState'
  BY <1>1, <1>4 DEF FileIsPastState
<1>9. TempsAccounted'
  BY <1>1, <1>2, <1>3, <1>4 DEF DiskInv, TempsAccounted, Owned, Owns, t
<1> QED BY <1>6, <1>7, <1>8, <1>9 DEF DiskInv

(* The deferred Remove takes away the goroutine's own file.                *)
LEMMA CleanupDisk ==
    ASSUME DiskInv, NEW p \in Savers, Cleanup(p), UNCHANGED hist
    PROVE  DiskInv'
<1> DEFINE t == save[p].tmp
<1>1. t \in TmpNames /\ Owns(p) /\ save[p].pc = "cleanup"
  BY DEF DiskInv, SavesApart, Cleanup, SaveAt, Owns
<1>2. /\ save' \in [Savers -> SaveRecords]
      /\ save'[p].pc = "failed" /\ save'[p].tmp = t
      /\ \A q \in Savers \ {p} : save'[q] = save[q]
  BY SaveGotoEffect DEF DiskInv, Cleanup
<1>3. /\ temps' \in [TmpNames -> Files] /\ temps'[t] = Absent
      /\ \A u \in TmpNames \ {t} : temps'[u] = temps[u]
  BY <1>1, FileTypes DEF DiskInv, PersisterTypeOK, Cleanup
<1>4. UNCHANGED <<file, fileVer, orphans, faults>>
  BY DEF Cleanup
<1> HIDE DEF t
<1>5. PersisterTypeOK'
  BY <1>2, <1>3, <1>4 DEF DiskInv, PersisterTypeOK, SaveRecords
<1>6. SavesApart'
  BY <1>1, <1>2, <1>3, <1>4, FileStates DEF DiskInv, SavesApart, Owns, t
<1>7. FileIsPastState'
  BY <1>4 DEF DiskInv, FileIsPastState
<1>8. TempsAccounted'
  BY <1>1, <1>2, <1>3, <1>4 DEF DiskInv, TempsAccounted, Owned, Owns, t
<1> QED BY <1>5, <1>6, <1>7, <1>8 DEF DiskInv

(* A Save that fails moves on; a file it cannot remove becomes an orphan.  *)
LEMMA FailedStepDisk ==
    ASSUME DiskInv, NEW p \in Savers, EncodeRefused(p) \/ SaveFault(p), UNCHANGED hist
    PROVE  DiskInv'
<1>1. PICK l \in {"cleanup", "failed"} :
        /\ SaveGoto(p, l)
        /\ \/ save[p].pc \in {"encode", "rename"} /\ l = "cleanup" /\ UNCHANGED orphans
           \/ save[p].pc = "create" /\ l = "failed" /\ UNCHANGED orphans
           \/ save[p].pc = "cleanup" /\ l = "failed" /\ orphans' = orphans \cup {save[p].tmp}
  BY DEF EncodeRefused, SaveFault, SaveAt, diskVars
<1>2. /\ save' \in [Savers -> SaveRecords]
      /\ save'[p].pc = l /\ save'[p].tmp = save[p].tmp
      /\ \A q \in Savers \ {p} : save'[q] = save[q]
  BY <1>1, SaveGotoEffect DEF DiskInv
<1>3. UNCHANGED <<file, fileVer, temps>>
  BY DEF EncodeRefused, SaveFault, diskVars
<1>4. faults' \in 0 .. MaxFaults
  BY PersisterAssumption DEF DiskInv, PersisterTypeOK, EncodeRefused, SaveFault
<1>5. orphans' \subseteq TmpNames
  BY <1>1 DEF DiskInv, PersisterTypeOK, SavesApart, Owns
<1>6. PersisterTypeOK'
  BY <1>2, <1>3, <1>4, <1>5 DEF DiskInv, PersisterTypeOK, SaveRecords
<1>7. SavesApart'
  BY <1>1, <1>2, <1>3 DEF DiskInv, SavesApart, Owns
<1>8. FileIsPastState'
  BY <1>3 DEF DiskInv, FileIsPastState
<1>9. TempsAccounted'
  BY <1>1, <1>2, <1>3 DEF DiskInv, TempsAccounted, Owned, Owns
<1> QED BY <1>6, <1>7, <1>8, <1>9 DEF DiskInv

(* Every step inside Save keeps the disk invariant.                        *)
LEMMA SaveStepDisk ==
    ASSUME DiskInv, NEW p \in Savers, SaveStep(p), UNCHANGED hist
    PROVE  DiskInv'
BY CreateTempDisk, EncodeDisk, RenameDisk, CleanupDisk, FailedStepDisk DEF SaveStep

(* Save is called with what the repository holds.                          *)
LEMMA BeginSaveDisk ==
    ASSUME DiskInv, hist \in Seq(Stores), hist # << >>, store = hist[Len(hist)],
           NEW p \in Savers, BeginSave(p, store, Len(hist)), UNCHANGED hist
    PROVE  DiskInv'
<1>1. Len(hist) \in DOMAIN hist /\ store \in Stores
  OBVIOUS
<1>2. Flatten(store) \in SUBSET Metric
  BY <1>1, FlattenType DEF UsableMetric
<1>3. /\ save' = [save EXCEPT ![p] = [pc |-> "create", items |-> Flatten(store),
                                     ver |-> Len(hist), tmp |-> Nil]]
      /\ UNCHANGED <<file, fileVer, temps, orphans, faults>> /\ save[p].pc = "idle"
  BY DEF BeginSave, diskVars, SaveAt
<1>4. /\ save' \in [Savers -> SaveRecords]
      /\ save'[p].pc = "create" /\ save'[p].items = Flatten(store) /\ save'[p].ver = Len(hist)
      /\ \A q \in Savers \ {p} : save'[q] = save[q]
  BY <1>1, <1>2, <1>3 DEF DiskInv, PersisterTypeOK, SaveRecords
<1>5. PersisterTypeOK'
  BY <1>3, <1>4 DEF DiskInv, PersisterTypeOK, SaveRecords
<1>6. SavesApart'
  BY <1>1, <1>3, <1>4 DEF DiskInv, SavesApart, Owns
<1>7. FileIsPastState'
  BY <1>3 DEF DiskInv, FileIsPastState
<1>8. TempsAccounted'
  BY <1>3, <1>4 DEF DiskInv, TempsAccounted, Owned, Owns
<1> QED BY <1>5, <1>6, <1>7, <1>8 DEF DiskInv

(* A Save that has returned owns nothing.                                  *)
LEMMA EndSaveDisk ==
    ASSUME DiskInv, NEW p \in Savers, EndSave(p), UNCHANGED hist
    PROVE  DiskInv'
<1>1. /\ save' = [save EXCEPT ![p] = NoSave] /\ save[p].pc \in {"saved", "failed"}
      /\ UNCHANGED <<file, fileVer, temps, orphans, faults>>
  BY DEF EndSave, SaveReturned, diskVars
<1>2. /\ save' \in [Savers -> SaveRecords] /\ save'[p].pc = "idle"
      /\ \A q \in Savers \ {p} : save'[q] = save[q]
  BY <1>1 DEF DiskInv, PersisterTypeOK, SaveRecords, NoSave
<1>3. PersisterTypeOK'
  BY <1>1, <1>2 DEF DiskInv, PersisterTypeOK, SaveRecords
<1>4. SavesApart'
  BY <1>1, <1>2 DEF DiskInv, SavesApart, Owns
<1>5. FileIsPastState'
  BY <1>1 DEF DiskInv, FileIsPastState
<1>6. TempsAccounted'
  BY <1>1, <1>2 DEF DiskInv, TempsAccounted, Owned, Owns
<1> QED BY <1>3, <1>4, <1>5, <1>6 DEF DiskInv

(* A crash leaves the files and turns the owned ones into orphans.         *)
LEMMA CrashDisk ==
    ASSUME DiskInv, PersisterCrash, UNCHANGED hist
    PROVE  DiskInv'
<1>1. /\ save' = [p \in Savers |-> NoSave] /\ orphans' = orphans \cup Owned
      /\ UNCHANGED <<file, fileVer, temps, faults>>
  BY DEF PersisterCrash
<1>2. Owned \subseteq TmpNames
  BY DEF DiskInv, SavesApart, Owned
<1>3. save' \in [Savers -> SaveRecords] /\ \A p \in Savers : save'[p].pc = "idle"
  BY <1>1 DEF SaveRecords, NoSave
<1>4. PersisterTypeOK'
  BY <1>1, <1>2, <1>3 DEF DiskInv, PersisterTypeOK, SaveRecords
<1>5. SavesApart'
  BY <1>3 DEF SavesApart, Owns
<1>6. FileIsPastState'
  BY <1>1 DEF DiskInv, FileIsPastState
<1>7. TempsAccounted'
  BY <1>1 DEF DiskInv, TempsAccounted
<1> QED BY <1>4, <1>5, <1>6, <1>7 DEF DiskInv

(* A repository that changes keeps the versions the disk refers to.        *)
LEMMA HistoryGrows ==
    ASSUME DiskInv, hist \in Seq(Stores), NEW s \in Stores, hist' = Append(hist, s),
           UNCHANGED <<file, fileVer, temps, save, orphans>>, faults' \in 0 .. MaxFaults
    PROVE  DiskInv'
<1>1. \A v \in DOMAIN hist : v \in DOMAIN hist' /\ hist'[v] = hist[v]
  OBVIOUS
<1>2. PersisterTypeOK'
  BY DEF DiskInv, PersisterTypeOK
<1>3. SavesApart'
  BY <1>1 DEF DiskInv, SavesApart, Owns
<1>4. FileIsPastState'
  BY <1>1 DEF DiskInv, FileIsPastState
<1>5. TempsAccounted'
  BY DEF DiskInv, TempsAccounted, Owned, Owns
<1> QED BY <1>2, <1>3, <1>4, <1>5 DEF DiskInv

-----------------------------------------------------------------------------
RequestRecords == [kind : {"batch", "single"}, ver : Nat,
                   answer : {"pending", "ok", "notfound", "refused", "lost"}]

(* Replacing an element, if there is one at i, keeps a sequence's type.    *)
LEMMA ReplaceElement ==
    ASSUME NEW T, NEW seq \in Seq(T), NEW i, NEW x, i \in DOMAIN seq => x \in T
    PROVE  [seq EXCEPT ![i] = x] \in Seq(T)
<1>1. CASE i \in 1 .. Len(seq)
  BY <1>1, ExceptSeq
<1>2. CASE i \notin 1 .. Len(seq)
  <2>1. [seq EXCEPT ![i] = x] = seq
    BY <1>2
  <2> QED BY <2>1
<1> QED BY <1>1, <1>2

(* The handlers and the ticker are the goroutines that save.               *)
LEMMA SaversAre == Ticker \in Savers /\ Handlers \subseteq Savers
BY ServerAssumption

(* Steps that do not touch the disk or the history keep the disk invariant.*)
LEMMA DiskUntouched ==
    ASSUME DiskInv, UNCHANGED <<persisterVars, hist>>
    PROVE  DiskInv'
BY DEF DiskInv, PersisterTypeOK, SavesApart, FileIsPastState, TempsAccounted, Owns, Owned,
       persisterVars

(* Steps outside the audit trail keep its invariant.                       *)
LEMMA AuditUntouched ==
    ASSUME AuditInv, UNCHANGED auditVars
    PROVE  AuditInv'
BY DEF AuditInv, AuditTypeOK, auditVars

(* The initial state satisfies the invariant.                              *)
LEMMA InitInv == Init => IInv
<1> SUFFICES ASSUME Init PROVE IInv
  OBVIOUS
<1>1. ServerTypeOK
  <2>1. store \in Stores /\ hist \in Seq(Stores) /\ hist # << >>
    BY EmptyStoreType DEF Init
  <2> QED BY <2>1 DEF Init, ServerTypeOK
<1>2. StoreIsLatest
  BY DEF Init, StoreIsLatest
<1>3. DiskInv
  <2>1. PersisterTypeOK
    <3>1. save \in [Savers -> SaveRecords]
      BY DEF Init, PersisterInit, NoSave, SaveRecords
    <3> QED BY <3>1, FileTypes, PersisterAssumption DEF Init, PersisterInit, PersisterTypeOK, SaveRecords
  <2>2. SavesApart
    BY DEF Init, PersisterInit, SavesApart, Owns, NoSave
  <2>3. FileIsPastState /\ TempsAccounted
    BY DEF Init, PersisterInit, FileIsPastState, TempsAccounted
  <2> QED BY <2>1, <2>2, <2>3 DEF DiskInv
<1>4. AuditInv
  BY AuditInitInv DEF Init
<1> QED BY <1>1, <1>2, <1>3, <1>4 DEF IInv

(* An accepted or refused request is recorded; the repository waits.       *)
LEMMA ArrivalInv ==
    ASSUME IInv, NEW h \in Handlers, NEW kind \in {"batch", "single"},
           NEW ms \in Seq(UsableMetric), NEW l \in {"update", "write"},
           Accept(h, kind, ms, l) \/ Refuse(kind)
    PROVE  IInv'
<1>1. UNCHANGED <<store, up, hist, crashes, persisterVars>>
  BY DEF Accept, Refuse
<1>2. DiskInv' /\ StoreIsLatest'
  BY <1>1, DiskUntouched DEF IInv, StoreIsLatest, Running
<1>3. reqs \in Seq(RequestRecords) /\ Len(reqs) + 1 \in Nat
  BY DEF IInv, ServerTypeOK, RequestRecords
<1>4. reqs' \in Seq(RequestRecords)
  <2>1. Request(kind, "pending") \in RequestRecords /\ Request(kind, "refused") \in RequestRecords
    BY DEF Request, RequestRecords
  <2> QED BY <1>3, <2>1 DEF Accept, Refuse
<1>5. items' \in [Handlers -> Seq(UsableMetric)] /\ rid' \in [Handlers -> Nat]
  BY <1>3 DEF IInv, ServerTypeOK, Accept, Refuse
<1>6. pc' \in [Handlers -> {"idle", "update", "write", "readback", "audit", "auditing",
                            "snapshot", "saving", "respond", "notfound"}]
  BY DEF IInv, ServerTypeOK, Accept, Refuse, Goto
<1>7. ServerTypeOK'
  BY <1>1, <1>4, <1>5, <1>6 DEF IInv, ServerTypeOK, RequestRecords
<1>8. AuditInv'
  BY <1>3, ContextInv, AuditUntouched DEF IInv, Accept, Refuse
<1> QED BY <1>2, <1>7, <1>8 DEF IInv

(* A batch as it arrives.                                                  *)
LEMMA UpsertBatchInv ==
    ASSUME IInv, NEW h \in Handlers, NEW b \in Batches, UpsertBatch(h, b)
    PROVE  IInv'
<1>1. b \in Seq(Metric)
  <2>1. b \in Seq({m \in Metric : m.value \notin NonFinite})
    BY ServerAssumption
  <2> QED BY <2>1, SeqMonotonic
<1>2. ValidItems(b) \in Seq(UsableMetric)
  BY <1>1, ValidItemsType
<1> QED BY <1>2, ArrivalInv DEF UpsertBatch

(* A single metric as it arrives.                                          *)
LEMMA UpsertInv ==
    ASSUME IInv, NEW h \in Handlers, NEW m \in Singles, Upsert(h, m)
    PROVE  IInv'
<1>1. m \in Metric
  BY ServerAssumption
<1>2. CASE Trim[m.id] # Blank /\ Usable(m)
  <2>1. <<Trimmed(m)>> \in Seq(UsableMetric)
    BY <1>1, <1>2, TrimmedType
  <2> QED BY <1>2, <2>1, ArrivalInv DEF Upsert
<1>3. CASE ~(Trim[m.id] # Blank /\ Usable(m))
  <2>1. << >> \in Seq(UsableMetric)
    OBVIOUS
  <2> QED BY <1>3, <2>1, ArrivalInv DEF Upsert
<1> QED BY <1>2, <1>3

(* A write appends the store it leaves to the history.                     *)
LEMMA WriteRepoInv ==
    ASSUME IInv, Running, NEW h \in Handlers, WriteRepo(h)
    PROVE  IInv'
<1>1. store' \in Stores /\ hist' = Append(hist, store') /\ hist \in Seq(Stores)
  BY UpdateManyType DEF IInv, ServerTypeOK, WriteRepo
<1>2. UNCHANGED <<up, items, rid, crashes, persisterVars, auditVars>>
  BY DEF WriteRepo
<1>3. DiskInv'
  BY <1>1, <1>2, HistoryGrows DEF IInv, DiskInv, PersisterTypeOK, persisterVars
<1>4. StoreIsLatest' /\ hist' \in Seq(Stores) /\ hist' # << >>
  BY <1>1 DEF StoreIsLatest
<1>5. reqs' \in Seq(RequestRecords)
  <2>1. reqs \in Seq(RequestRecords) /\ Len(hist) + 1 \in Nat
    BY <1>1 DEF IInv, ServerTypeOK, RequestRecords
  <2>2. \A r \in RequestRecords : [r EXCEPT !.ver = Len(hist) + 1] \in RequestRecords
    BY <2>1 DEF RequestRecords
  <2>3. reqs' = [reqs EXCEPT ![rid[h]] = [reqs[rid[h]] EXCEPT !.ver = Len(hist) + 1]]
    BY DEF WriteRepo
  <2>4. rid[h] \in DOMAIN reqs => reqs[rid[h]] \in RequestRecords
    BY <2>1
  <2> QED BY <2>1, <2>2, <2>3, <2>4, ReplaceElement
<1>6. pc' \in [Handlers -> {"idle", "update", "write", "readback", "audit", "auditing",
                            "snapshot", "saving", "respond", "notfound"}]
  BY DEF IInv, ServerTypeOK, WriteRepo, Goto
<1>7. ServerTypeOK'
  BY <1>1, <1>2, <1>4, <1>5, <1>6 DEF IInv, ServerTypeOK, RequestRecords
<1>8. AuditInv'
  BY <1>2, AuditUntouched DEF IInv
<1> QED BY <1>3, <1>4, <1>7, <1>8 DEF IInv

(* The steps of a handler that move only itself and the audit trail.       *)
LEMMA HandlerAuditInv ==
    ASSUME IInv, NEW h \in Handlers,
           ReadBack(h) \/ BeginAudit(h) \/ AuditStep(h) \/ EndAudit(h) \/ ClientGone(h)
    PROVE  IInv'
<1>1. UNCHANGED <<store, up, items, rid, reqs, hist, crashes, persisterVars>>
  BY DEF ReadBack, BeginAudit, AuditStep, EndAudit, ClientGone, serverVars
<1>2. DiskInv' /\ StoreIsLatest'
  BY <1>1, DiskUntouched DEF IInv, StoreIsLatest, Running
<1>3. pc' \in [Handlers -> {"idle", "update", "write", "readback", "audit", "auditing",
                            "snapshot", "saving", "respond", "notfound"}]
  BY DEF IInv, ServerTypeOK, ReadBack, BeginAudit, AuditStep, EndAudit, ClientGone, Goto, serverVars
<1>4. ServerTypeOK'
  BY <1>1, <1>3 DEF IInv, ServerTypeOK
<1>5. rid[h] \in Nat /\ h \in Publishers
  BY DEF IInv, ServerTypeOK, Publishers
<1>6. AuditInv'
  BY <1>5, AuditUntouched, NotifyInv, EnqueueInv, NotifySinkInv, PublishReturnedInv, ContextInv
     DEF IInv, ReadBack, BeginAudit, AuditStep, EndAudit, ClientGone
<1> QED BY <1>2, <1>4, <1>6 DEF IInv

(* The steps of a handler that saves.                                      *)
LEMMA HandlerSaveInv ==
    ASSUME IInv, Running, NEW h \in Handlers, OnChanged(h) \/ SaveSnapshot(h) \/ Saved(h)
    PROVE  IInv'
<1>1. UNCHANGED <<store, up, items, rid, reqs, hist, crashes, auditVars>>
  BY DEF OnChanged, SaveSnapshot, Saved, serverVars
<1>2. StoreIsLatest' /\ AuditInv'
  BY <1>1, AuditUntouched DEF IInv, StoreIsLatest, Running
<1>3. DiskInv'
  BY <1>1, SaversAre, BeginSaveDisk, SaveStepDisk, EndSaveDisk
     DEF IInv, ServerTypeOK, StoreIsLatest, OnChanged, SaveSnapshot, Saved
<1>4. pc' \in [Handlers -> {"idle", "update", "write", "readback", "audit", "auditing",
                            "snapshot", "saving", "respond", "notfound"}]
  BY DEF IInv, ServerTypeOK, OnChanged, SaveSnapshot, Saved, Goto, serverVars
<1>5. ServerTypeOK'
  BY <1>1, <1>4 DEF IInv, ServerTypeOK
<1> QED BY <1>2, <1>3, <1>5 DEF IInv

(* An answer ends the request.                                             *)
LEMMA RespondInv ==
    ASSUME IInv, NEW h \in Handlers, Respond(h)
    PROVE  IInv'
<1>1. UNCHANGED <<store, up, hist, crashes, persisterVars>>
  BY DEF Respond
<1>2. DiskInv' /\ StoreIsLatest'
  BY <1>1, DiskUntouched DEF IInv, StoreIsLatest, Running
<1>3. reqs' \in Seq(RequestRecords)
  <2> DEFINE a == IF pc[h] = "respond" THEN "ok" ELSE "notfound"
  <2>1. reqs \in Seq(RequestRecords)
    BY DEF IInv, ServerTypeOK, RequestRecords
  <2>2. \A r \in RequestRecords : [r EXCEPT !.answer = a] \in RequestRecords
    BY DEF RequestRecords
  <2>3. reqs' = [reqs EXCEPT ![rid[h]] = [reqs[rid[h]] EXCEPT !.answer = a]]
    BY DEF Respond
  <2>4. rid[h] \in DOMAIN reqs => reqs[rid[h]] \in RequestRecords
    BY <2>1
  <2> HIDE DEF a
  <2> QED BY <2>1, <2>2, <2>3, <2>4, ReplaceElement
<1>4. /\ items' \in [Handlers -> Seq(UsableMetric)] /\ rid' \in [Handlers -> Nat]
      /\ pc' \in [Handlers -> {"idle", "update", "write", "readback", "audit", "auditing",
                               "snapshot", "saving", "respond", "notfound"}]
  BY DEF IInv, ServerTypeOK, Respond, Goto
<1>5. ServerTypeOK'
  BY <1>1, <1>3, <1>4 DEF IInv, ServerTypeOK, RequestRecords
<1>6. AuditInv'
  BY ContextInv DEF IInv, ServerTypeOK, Respond
<1> QED BY <1>2, <1>5, <1>6 DEF IInv

(* The ticker saves, the dispatcher publishes.                             *)
LEMMA BackgroundInv ==
    ASSUME IInv, TickerStep \/ DispatcherStep
    PROVE  IInv'
<1>1. UNCHANGED serverVars /\ Running
  BY DEF TickerStep, DispatcherStep, Tick
<1>2. ServerTypeOK' /\ StoreIsLatest'
  BY <1>1 DEF IInv, ServerTypeOK, StoreIsLatest, Running, serverVars
<1>3. CASE TickerStep
  <2>1. UNCHANGED auditVars
    BY <1>3 DEF TickerStep, Tick
  <2>2. DiskInv'
    BY <1>1, <1>3, SaversAre, BeginSaveDisk, SaveStepDisk, EndSaveDisk
       DEF IInv, ServerTypeOK, StoreIsLatest, TickerStep, Tick, serverVars
  <2> QED BY <1>2, <2>1, <2>2, AuditUntouched DEF IInv
<1>4. CASE DispatcherStep
  <2>1. DiskInv'
    BY <1>1, <1>4, DiskUntouched DEF IInv, DispatcherStep, serverVars
  <2>2. AuditInv'
    BY <1>4, DispatchInv DEF IInv, DispatcherStep
  <2> QED BY <1>2, <2>1, <2>2 DEF IInv
<1> QED BY <1>3, <1>4

(* The end of the process leaves the disk, the sinks and the histories.    *)
LEMMA ProcessEndsInv ==
    ASSUME IInv, ProcessEnds, crashes' \in Nat
    PROVE  IInv'
<1>1. DiskInv'
  BY CrashDisk DEF IInv, ProcessEnds
<1>2. AuditInv'
  BY AuditStartInv DEF IInv, ProcessEnds
<1>3. StoreIsLatest'
  BY DEF ProcessEnds, StoreIsLatest, Running
<1>4. reqs' \in Seq(RequestRecords)
  <2>1. reqs \in Seq(RequestRecords)
    BY DEF IInv, ServerTypeOK, RequestRecords
  <2> DEFINE e(r) == IF reqs[r].answer = "pending" THEN [reqs[r] EXCEPT !.answer = "lost"] ELSE reqs[r]
  <2>2. \A r \in 1 .. Len(reqs) : e(r) \in RequestRecords
    <3>1. \A x \in RequestRecords : [x EXCEPT !.answer = "lost"] \in RequestRecords
      BY DEF RequestRecords
    <3>2. \A r \in 1 .. Len(reqs) : reqs[r] \in RequestRecords
      BY <2>1
    <3> QED BY <3>1, <3>2
  <2>3. reqs' = [r \in 1 .. Len(reqs) |-> e(r)] /\ Len(reqs) \in Nat
    BY <2>1 DEF ProcessEnds
  <2> HIDE DEF e
  <2> QED BY <2>2, <2>3
<1>5. ServerTypeOK'
  <2>1. store' \in Stores /\ UNCHANGED hist /\ up' = "down"
    BY EmptyStoreType DEF ProcessEnds
  <2>2. /\ items' \in [Handlers -> Seq(UsableMetric)] /\ rid' \in [Handlers -> Nat]
        /\ pc' \in [Handlers -> {"idle", "update", "write", "readback", "audit", "auditing",
                                 "snapshot", "saving", "respond", "notfound"}]
    BY DEF ProcessEnds
  <2> QED BY <1>4, <2>1, <2>2 DEF IInv, ServerTypeOK, RequestRecords
<1> QED BY <1>1, <1>2, <1>3, <1>5 DEF IInv

(* A listener that fails leads to Close, and Close to the end.             *)
LEMMA ShutdownInv ==
    ASSUME IInv, Crash \/ ServeFails \/ CloseStep \/ Exit
    PROVE  IInv'
<1>0. crashes' \in Nat
  BY DEF IInv, ServerTypeOK, Crash, ServeFails, CloseStep, Exit, serverVars
<1>1. CASE Crash \/ Exit
  BY <1>0, <1>1, ProcessEndsInv DEF Crash, Exit
<1>2. CASE ServeFails \/ CloseStep
  <2>1. UNCHANGED <<store, pc, items, rid, reqs, hist, persisterVars>>
    BY <1>2 DEF ServeFails, CloseStep, serverVars
  <2>2. up' \in {"closing"} /\ Running
    BY <1>2 DEF ServeFails, CloseStep, serverVars, Running
  <2>3. ServerTypeOK' /\ StoreIsLatest' /\ DiskInv'
    BY <1>0, <2>1, <2>2, DiskUntouched DEF IInv, ServerTypeOK, StoreIsLatest
  <2>4. AuditInv'
    BY <1>2, CloseInv, AuditUntouched DEF IInv, ServeFails, CloseStep
  <2> QED BY <2>3, <2>4 DEF IInv
<1> QED BY <1>1, <1>2

-----------------------------------------------------------------------------
(* Restoring a file that holds a past state gives that state.              *)
LEMMA RestoredIsFile ==
    ASSUME IInv
    PROVE  \A s \in Restored(file) :
              /\ s \in Stores
              /\ s = IF file = Absent THEN EmptyStore ELSE hist[fileVer]
<1> SUFFICES ASSUME NEW s \in Restored(file)
             PROVE  /\ s \in Stores
                    /\ s = IF file = Absent THEN EmptyStore ELSE hist[fileVer]
  OBVIOUS
<1>1. CASE file = Absent
  BY <1>1, EmptyStoreType DEF Restored, Absent
<1>2. CASE file # Absent
  <2>1. fileVer \in DOMAIN hist /\ file = Complete(Flatten(hist[fileVer])) /\ hist[fileVer] \in Stores
    BY <1>2 DEF IInv, DiskInv, FileIsPastState, ServerTypeOK
  <2>2. file.state = "complete" /\ file.items = Flatten(hist[fileVer])
    BY <2>1 DEF Complete
  <2>3. PICK ms \in Orders(Flatten(hist[fileVer])) : s = UpdateMany(EmptyStore, ms)
    BY <2>2 DEF Restored
  <2>4. s = hist[fileVer]
    BY <2>1, <2>3, RestoreRoundTrip
  <2> QED BY <1>2, <2>1, <2>4
<1> QED BY <1>1, <1>2

(* A start brings the repository into a state it may have.                 *)
LEMMA BootInv ==
    ASSUME IInv, Boot
    PROVE  IInv'
<1>1. /\ store' \in Stores /\ hist' = Append(hist, store') /\ up' = "up"
      /\ hist \in Seq(Stores)
  BY RestoredIsFile, EmptyStoreType DEF IInv, ServerTypeOK, Boot
<1>2. UNCHANGED <<pc, items, rid, reqs, crashes, file, fileVer, temps, orphans, save, auditVars>>
  BY DEF Boot, diskVars
<1>3. faults' \in 0 .. MaxFaults
  BY PersisterAssumption DEF IInv, DiskInv, PersisterTypeOK, Boot
<1>4. DiskInv'
  BY <1>1, <1>2, <1>3, HistoryGrows DEF IInv
<1>5. StoreIsLatest' /\ hist' \in Seq(Stores) /\ hist' # << >>
  BY <1>1 DEF StoreIsLatest
<1>6. ServerTypeOK'
  BY <1>1, <1>2, <1>5 DEF IInv, ServerTypeOK
<1>7. AuditInv'
  BY <1>2, AuditUntouched DEF IInv
<1> QED BY <1>4, <1>5, <1>6, <1>7 DEF IInv

(* Every step keeps the invariant.                                         *)
LEMMA NextInv == IInv /\ [Next]_vars => IInv'
<1> SUFFICES ASSUME IInv, [Next]_vars PROVE IInv'
  OBVIOUS
<1>1. ASSUME NEW h \in Handlers, NEW b \in Batches, UpsertBatch(h, b) PROVE IInv'
  BY <1>1, UpsertBatchInv
<1>2. ASSUME NEW h \in Handlers, NEW m \in Singles, Upsert(h, m) PROVE IInv'
  BY <1>2, UpsertInv
<1>3. ASSUME NEW h \in Handlers, ClientGone(h) PROVE IInv'
  BY <1>3, HandlerAuditInv
<1>4. ASSUME NEW h \in Handlers, HandlerStep(h) PROVE IInv'
  BY <1>4, WriteRepoInv, HandlerAuditInv, HandlerSaveInv, RespondInv DEF HandlerStep
<1>5. CASE TickerStep \/ DispatcherStep
  BY <1>5, BackgroundInv
<1>6. CASE Crash \/ ServeFails \/ CloseStep \/ Exit
  BY <1>6, ShutdownInv
<1>7. CASE Boot
  BY <1>7, BootInv
<1>8. CASE UNCHANGED vars
  <2>1. UNCHANGED serverVars /\ UNCHANGED persisterVars /\ UNCHANGED auditVars
    BY <1>8 DEF vars
  <2>2. ServerTypeOK' /\ StoreIsLatest'
    BY <2>1 DEF IInv, ServerTypeOK, StoreIsLatest, Running, serverVars
  <2>3. DiskInv'
    BY <2>1, DiskUntouched DEF IInv, serverVars
  <2> QED BY <2>1, <2>2, <2>3, AuditUntouched DEF IInv
<1> QED BY <1>1, <1>2, <1>3, <1>4, <1>5, <1>6, <1>7, <1>8 DEF Next

(* The inductive invariant holds in every reachable state.                 *)
LEMMA Invariant == Spec => []IInv
BY InitInv, NextInv, PTL DEF Spec

-----------------------------------------------------------------------------
(* The server keeps its types: in particular counters stay in int64 and    *)
(* what the repository holds has a trimmed, non-blank name.                *)
THEOREM TypeCorrect == Spec => []TypeOK
<1>1. IInv => TypeOK
  BY DEF IInv, ServerTypeOK, DiskInv, AuditInv, TypeOK
<1> QED BY <1>1, Invariant, PTL

(* However Saves of handlers and ticker interleave, fail or are killed,    *)
(* the snapshot file is absent or one complete past state.                 *)
THEOREM FileAlwaysPastState == Spec => []FileIsPastState
<1>1. IInv => FileIsPastState
  BY DEF IInv, DiskInv
<1> QED BY <1>1, Invariant, PTL

(* Concurrent Saves never share a temporary file, and each renames exactly *)
(* the snapshot it was called with.                                        *)
THEOREM SavesStayApart == Spec => []SavesApart
<1>1. IInv => SavesApart
  BY DEF IInv, DiskInv
<1> QED BY <1>1, Invariant, PTL

(* Save leaks no temporary file by itself.                                 *)
THEOREM NoTempLeaks == Spec => []TempsAccounted
<1>1. IInv => TempsAccounted
  BY DEF IInv, DiskInv
<1> QED BY <1>1, Invariant, PTL

(* A start that restores brings back exactly the state that was saved.     *)
THEOREM RestartRestores == Spec => RestartRestoresFile
<1>1. IInv /\ [Next]_vars =>
        [up = "down" /\ up' = "up" /\ RestoreOn /\ faults' = faults
           => store' = (IF file = Absent THEN EmptyStore ELSE hist[fileVer])]_vars
  <2> SUFFICES ASSUME IInv, Next, up = "down", up' = "up", RestoreOn, faults' = faults
               PROVE  store' = IF file = Absent THEN EmptyStore ELSE hist[fileVer]
    OBVIOUS
  <2>1. Boot
    BY DEF Next, UpsertBatch, Upsert, Arrives, ClientGone, HandlerStep, TickerStep,
           DispatcherStep, Crash, ServeFails, CloseStep, Exit, Running, serverVars
  <2>2. store' \in Restored(file)
    BY <2>1 DEF Boot, IInv, DiskInv, PersisterTypeOK
  <2> QED BY <2>2, RestoredIsFile
<1> QED BY <1>1, Invariant, PTL DEF Spec, RestartRestoresFile

-----------------------------------------------------------------------------
(* What the audit trail says beyond the order of the channel: where each   *)
(* event is, and what its request has done.                                *)

In(e, seq) == \E i \in DOMAIN seq : seq[i] = e

(* The handler has a request of its own, and is in notifyAudit only after  *)
(* its write.                                                              *)
HandlersFit ==
    /\ \A h \in Handlers :
         /\ rid[h] = 0 <=> pc[h] = "idle"
         /\ pc[h] # "idle" => rid[h] \in DOMAIN reqs
         /\ pc[h] \notin {"idle", "update", "write"} => reqs[rid[h]].ver > 0
         /\ notify[h] = "no" <=> pc[h] # "auditing"
         /\ pub[h].evt # NoEvent => notify[h] = "publish" /\ pub[h].evt = rid[h]
    /\ \A g, h \in Handlers : rid[g] = rid[h] /\ rid[g] # 0 => g = h

(* The handler has not passed its event on yet.                            *)
Owes(h) == pc[h] \in {"update", "write", "readback", "audit"} \/ notify[h] = "send"

(* Events that were sent or recorded are of requests that wrote.           *)
EventsOfWrites ==
    /\ \A k \in DOMAIN sent : sent[k] \in DOMAIN reqs /\ reqs[sent[k]].ver > 0
    /\ \A s \in ToSet(Sinks) : \A i \in DOMAIN delivered[s] :
         delivered[s][i] \in DOMAIN reqs /\ reqs[delivered[s][i]].ver > 0

(* The channel took each event once, and none that its handler still owes  *)
(* or publishes by itself; what is in the channel no sink has recorded.    *)
SentOnce ==
    /\ \A k, l \in DOMAIN sent : sent[k] = sent[l] => k = l
    /\ \A h \in Handlers : Owes(h) \/ pub[h].evt # NoEvent => ~In(rid[h], sent)
    /\ \A h \in Handlers : Owes(h) => \A s \in ToSet(Sinks) : ~In(rid[h], delivered[s])
    /\ \A k \in DOMAIN sent : k > Len(taken) => \A s \in ToSet(Sinks) : ~In(sent[k], delivered[s])

(* The dispatcher publishes the event it took last.  A Publish has reached *)
(* no sink from the next one on.                                           *)
PublishFits ==
    /\ pub[Dispatcher].evt # NoEvent =>
         dispatcher = "publish" /\ Len(taken) \in DOMAIN sent /\ pub[Dispatcher].evt = sent[Len(taken)]
    /\ \A x \in Publishers : pub[x].evt # NoEvent =>
         /\ pub[x].next > 0
         /\ \A i \in DOMAIN Sinks : pub[x].next <= i => ~In(pub[x].evt, delivered[Sinks[i]])

TrailInv == HandlersFit /\ EventsOfWrites /\ SentOnce /\ PublishFits /\ DeliveredOnceInOrder

-----------------------------------------------------------------------------
(* Requests are only added, and what one wrote stays written.              *)
WritesKept ==
    \A r \in DOMAIN reqs : r \in DOMAIN reqs' /\ (reqs[r].ver > 0 => reqs'[r].ver > 0)

(* The sinks are the domain of what they have recorded.                    *)
LEMMA SinksRecord ==
    ASSUME AuditInv
    PROVE  /\ DOMAIN delivered = ToSet(Sinks)
           /\ \A i \in DOMAIN Sinks : Sinks[i] \in ToSet(Sinks)
           /\ \A s \in ToSet(Sinks) : \E i \in DOMAIN Sinks : Sinks[i] = s
           /\ \A s \in ToSet(Sinks) : delivered[s] \in Seq(Nat)
BY DEF AuditInv, AuditTypeOK, ToSet

(* A step that leaves the channel, the sinks and every Publish alone keeps *)
(* the trail, if no handler comes to owe an event that may have been       *)
(* passed on.                                                              *)
LEMMA QuietTrail ==
    ASSUME TrailInv, AuditInv, WritesKept, HandlersFit',
           UNCHANGED <<dispatcher, pub, sent, taken, delivered>>,
           \A h \in Handlers : Owes(h)' => (Owes(h) /\ rid'[h] = rid[h]) \/ rid'[h] \notin DOMAIN reqs,
           \A h \in Handlers : pub[h].evt # NoEvent => rid'[h] = rid[h]
    PROVE  TrailInv'
<1>1. EventsOfWrites'
  BY DEF TrailInv, EventsOfWrites, WritesKept
<1>2. SentOnce'
  <2>1. ASSUME NEW h \in Handlers, Owes(h)'
        PROVE  ~In(rid'[h], sent) /\ \A s \in ToSet(Sinks) : ~In(rid'[h], delivered[s])
    <3>1. CASE Owes(h) /\ rid'[h] = rid[h]
      BY <3>1 DEF TrailInv, SentOnce
    <3>2. CASE rid'[h] \notin DOMAIN reqs
      BY <3>2 DEF TrailInv, EventsOfWrites, In
    <3> QED BY <2>1, <3>1, <3>2
  <2>2. ASSUME NEW h \in Handlers, pub[h].evt # NoEvent
        PROVE  ~In(rid'[h], sent)
    BY <2>2 DEF TrailInv, SentOnce
  <2> QED BY <2>1, <2>2 DEF TrailInv, SentOnce, In
<1>3. PublishFits'
  BY DEF TrailInv, PublishFits, In
<1>4. DeliveredOnceInOrder'
  <2>1. DOMAIN delivered = ToSet(Sinks)
    BY SinksRecord
  <2>2. \A s \in ToSet(Sinks) : \A i \in DOMAIN delivered[s] : reqs'[delivered[s][i]].ver > 0
    BY <1>1 DEF EventsOfWrites
  <2> QED BY <2>1, <2>2 DEF TrailInv, DeliveredOnceInOrder
<1> QED BY <1>1, <1>2, <1>3, <1>4 DEF TrailInv

(* The types of requests and of the numbers handlers know them by.         *)
LEMMA RequestsTyped ==
    ASSUME IInv
    PROVE  /\ reqs \in Seq(RequestRecords) /\ DOMAIN reqs = 1 .. Len(reqs)
           /\ Len(hist) \in Nat /\ Len(reqs) \in Nat /\ rid \in [Handlers -> Nat]
<1>1. reqs \in Seq(RequestRecords) /\ hist \in Seq(Stores) /\ rid \in [Handlers -> Nat]
  BY DEF IInv, ServerTypeOK, RequestRecords
<1> QED BY <1>1

(* Nothing is sent or recorded before the first request.                   *)
LEMMA InitTrail == Init => TrailInv
<1> SUFFICES ASSUME Init PROVE TrailInv
  OBVIOUS
<1>1. /\ pc = [h \in Handlers |-> "idle"] /\ rid = [h \in Handlers |-> 0]
      /\ notify = [h \in Handlers |-> "no"]
      /\ pub = [x \in Publishers |-> NotPublishing] /\ sent = << >>
      /\ delivered = [s \in ToSet(Sinks) |-> << >>]
  BY DEF Init, AuditInit
<1>2. \A x \in Publishers : pub[x].evt = NoEvent
  BY <1>1 DEF NotPublishing
<1>3. HandlersFit
  BY <1>1, <1>2 DEF HandlersFit, Publishers
<1>4. EventsOfWrites /\ SentOnce
  BY <1>1, <1>2 DEF EventsOfWrites, SentOnce, Owes, Publishers, In
<1>5. PublishFits /\ DeliveredOnceInOrder
  BY <1>1, <1>2 DEF PublishFits, DeliveredOnceInOrder, Publishers
<1> QED BY <1>3, <1>4, <1>5 DEF TrailInv

(* A request is accepted under a number no event has.                      *)
LEMMA AcceptTrail ==
    ASSUME IInv, TrailInv, NEW h \in Handlers, NEW kind, NEW ms, NEW l \in {"update", "write"},
           pc[h] = "idle", Accept(h, kind, ms, l)
    PROVE  TrailInv'
<1> DEFINE r == Len(reqs) + 1
<1>1. /\ pc' = [pc EXCEPT ![h] = l] /\ rid' = [rid EXCEPT ![h] = r]
      /\ reqs' = Append(reqs, Request(kind, "pending"))
      /\ UNCHANGED <<dispatcher, pub, notify, sent, taken, delivered>>
  BY DEF Accept, Goto, OpenContext
<1>2. r \notin DOMAIN reqs /\ r # 0 /\ r \in DOMAIN reqs' /\ \A q \in DOMAIN reqs : q \in DOMAIN reqs' /\ reqs'[q] = reqs[q]
  BY <1>1, RequestsTyped
<1>3. /\ rid'[h] = r /\ \A g \in Handlers \ {h} : rid'[g] = rid[g]
      /\ pc'[h] = l /\ \A g \in Handlers \ {h} : pc'[g] = pc[g]
  BY <1>1 DEF IInv, ServerTypeOK
<1> HIDE DEF r
<1>4. WritesKept
  BY <1>2 DEF WritesKept
<1>5. HandlersFit'
  BY <1>1, <1>2, <1>3 DEF TrailInv, HandlersFit
<1>6. \A g \in Handlers : Owes(g)' => (Owes(g) /\ rid'[g] = rid[g]) \/ rid'[g] \notin DOMAIN reqs
  BY <1>1, <1>2, <1>3 DEF Owes
<1>7. \A g \in Handlers : pub[g].evt # NoEvent => rid'[g] = rid[g]
  BY <1>3 DEF TrailInv, HandlersFit
<1> QED BY <1>1, <1>4, <1>5, <1>6, <1>7, QuietTrail DEF IInv

(* A refused request moves no handler.                                     *)
LEMMA RefuseTrail ==
    ASSUME IInv, TrailInv, NEW kind, Refuse(kind)
    PROVE  TrailInv'
<1>1. /\ reqs' = Append(reqs, Request(kind, "refused"))
      /\ UNCHANGED <<pc, rid, dispatcher, pub, notify, sent, taken, delivered>>
  BY DEF Refuse, auditVars
<1>2. \A q \in DOMAIN reqs : q \in DOMAIN reqs' /\ reqs'[q] = reqs[q]
  BY <1>1, RequestsTyped
<1>3. WritesKept
  BY <1>2 DEF WritesKept
<1>4. HandlersFit'
  BY <1>1, <1>2 DEF TrailInv, HandlersFit
<1> QED BY <1>1, <1>3, <1>4, QuietTrail DEF IInv, Owes

(* The write makes the event one of a request that wrote.                  *)
LEMMA WriteTrail ==
    ASSUME IInv, TrailInv, NEW h \in Handlers, WriteRepo(h)
    PROVE  TrailInv'
<1>1. /\ pc[h] \in {"update", "write"} /\ \E l \in {"audit", "readback"} : pc' = [pc EXCEPT ![h] = l]
      /\ reqs' = [reqs EXCEPT ![rid[h]].ver = Len(hist) + 1]
      /\ UNCHANGED <<rid, dispatcher, pub, notify, sent, taken, delivered>>
  BY DEF WriteRepo, Goto, auditVars
<1>2. rid[h] \in DOMAIN reqs
  BY <1>1 DEF TrailInv, HandlersFit
<1>3. /\ DOMAIN reqs' = DOMAIN reqs /\ reqs'[rid[h]].ver > 0
      /\ \A q \in DOMAIN reqs \ {rid[h]} : reqs'[q] = reqs[q]
  <2>1. reqs' = [reqs EXCEPT ![rid[h]] = [reqs[rid[h]] EXCEPT !.ver = Len(hist) + 1]]
    BY <1>1
  <2>2. \A q \in DOMAIN reqs : reqs[q] \in RequestRecords
    BY RequestsTyped
  <2>3. [reqs[rid[h]] EXCEPT !.ver = Len(hist) + 1].ver = Len(hist) + 1
    BY <1>2, <2>2 DEF RequestRecords
  <2>4. Len(hist) \in Nat /\ reqs \in Seq(RequestRecords)
    BY RequestsTyped
  <2>5. DOMAIN reqs' = DOMAIN reqs /\ \A q \in DOMAIN reqs \ {rid[h]} : reqs'[q] = reqs[q]
    BY <1>2, <2>1, <2>4
  <2>6. reqs'[rid[h]] = [reqs[rid[h]] EXCEPT !.ver = Len(hist) + 1]
    BY <1>2, <2>1, <2>4
  <2> QED BY <2>3, <2>4, <2>5, <2>6
<1>4. /\ pc'[h] \in {"audit", "readback"} /\ \A g \in Handlers \ {h} : pc'[g] = pc[g]
  BY <1>1 DEF IInv, ServerTypeOK
<1>5. WritesKept
  BY <1>3 DEF WritesKept
<1>6. HandlersFit'
  BY <1>1, <1>2, <1>3, <1>4 DEF TrailInv, HandlersFit
<1>7. \A g \in Handlers : Owes(g)' => Owes(g)
  BY <1>1, <1>4 DEF Owes
<1> QED BY <1>1, <1>5, <1>6, <1>7, QuietTrail DEF IInv

(* Reading back, snapshot and save are outside notifyAudit.                *)
LEMMA MoveTrail ==
    ASSUME IInv, TrailInv, NEW h \in Handlers, NEW l, pc' = [pc EXCEPT ![h] = l],
           pc[h] \notin {"idle", "update", "write", "auditing"},
           l \notin {"idle", "update", "write", "auditing"},
           l = "audit" => pc[h] = "readback",
           l # "readback",
           UNCHANGED <<rid, reqs, auditVars>>
    PROVE  TrailInv'
<1>1. UNCHANGED <<dispatcher, pub, notify, sent, taken, delivered>>
  BY DEF auditVars
<1>2. pc'[h] = l /\ \A g \in Handlers \ {h} : pc'[g] = pc[g]
  BY DEF IInv, ServerTypeOK
<1>3. WritesKept
  BY DEF WritesKept
<1>4. HandlersFit'
  BY <1>1, <1>2 DEF TrailInv, HandlersFit
<1>5. \A g \in Handlers : Owes(g)' => Owes(g)
  BY <1>1, <1>2 DEF Owes
<1> QED BY <1>1, <1>3, <1>4, <1>5, QuietTrail DEF IInv

(* Steps that touch neither handlers, requests nor events.                 *)
LEMMA IdleTrail ==
    ASSUME IInv, TrailInv,
           UNCHANGED <<pc, rid, reqs, dispatcher, pub, notify, sent, taken, delivered>>
    PROVE  TrailInv'
<1>1. WritesKept
  BY DEF WritesKept
<1>2. HandlersFit'
  BY DEF TrailInv, HandlersFit
<1> QED BY <1>1, <1>2, QuietTrail DEF IInv, Owes

(* The answer ends the handler's hold on its request.                      *)
LEMMA RespondTrail ==
    ASSUME IInv, TrailInv, NEW h \in Handlers, Respond(h)
    PROVE  TrailInv'
<1>1. PICK a \in {"ok", "notfound"} : reqs' = [reqs EXCEPT ![rid[h]].answer = a]
  BY DEF Respond
<1>2. /\ pc[h] \in {"respond", "notfound"} /\ pc' = [pc EXCEPT ![h] = "idle"]
      /\ rid' = [rid EXCEPT ![h] = 0]
      /\ UNCHANGED <<dispatcher, pub, notify, sent, taken, delivered>>
  BY DEF Respond, Goto, CancelContext
<1>3. rid[h] \in DOMAIN reqs
  BY <1>2 DEF TrailInv, HandlersFit
<1>4. DOMAIN reqs' = DOMAIN reqs /\ \A q \in DOMAIN reqs : reqs'[q].ver = reqs[q].ver
  <2>1. reqs' = [reqs EXCEPT ![rid[h]] = [reqs[rid[h]] EXCEPT !.answer = a]]
    BY <1>1
  <2>2. \A q \in DOMAIN reqs : reqs[q] \in RequestRecords
    BY RequestsTyped
  <2>3. [reqs[rid[h]] EXCEPT !.answer = a].ver = reqs[rid[h]].ver
    BY <1>3, <2>2 DEF RequestRecords
  <2> QED BY <1>3, <2>1, <2>3, RequestsTyped
<1>5. /\ pc'[h] = "idle" /\ \A g \in Handlers \ {h} : pc'[g] = pc[g]
      /\ rid'[h] = 0 /\ \A g \in Handlers \ {h} : rid'[g] = rid[g]
  BY <1>2 DEF IInv, ServerTypeOK
<1>6. WritesKept
  BY <1>4 DEF WritesKept
<1>7. HandlersFit'
  BY <1>2, <1>4, <1>5 DEF TrailInv, HandlersFit
<1>8. notify[h] = "no" /\ pub[h].evt = NoEvent
  BY <1>2 DEF TrailInv, HandlersFit
<1>9. \A g \in Handlers : (Owes(g)' => Owes(g) /\ rid'[g] = rid[g]) /\ (pub[g].evt # NoEvent => rid'[g] = rid[g])
  BY <1>2, <1>5, <1>8 DEF Owes
<1> QED BY <1>2, <1>6, <1>7, <1>9, QuietTrail DEF IInv

(* The handler enters notifyAudit; after Close it publishes by itself.     *)
LEMMA BeginAuditTrail ==
    ASSUME IInv, TrailInv, NEW h \in Handlers, BeginAudit(h)
    PROVE  TrailInv'
<1>1. /\ pc[h] = "audit" /\ pc' = [pc EXCEPT ![h] = "auditing"]
      /\ NotifyAudit(h, rid[h]) /\ UNCHANGED <<rid, reqs>>
  BY DEF BeginAudit, Goto
<1>2. /\ pc'[h] = "auditing" /\ \A g \in Handlers \ {h} : pc'[g] = pc[g]
  BY <1>1 DEF IInv, ServerTypeOK
<1>3. /\ UNCHANGED <<dispatcher, sent, taken, delivered>>
      /\ \A g \in Handlers \ {h} : notify'[g] = notify[g]
      /\ \/ notify'[h] \in {"send", "done"} /\ pub' = pub
         \/ notify'[h] = "publish" /\ pub' = [pub EXCEPT ![h] = [evt |-> rid[h], next |-> 1]]
  BY <1>1 DEF NotifyAudit, IInv, AuditInv, AuditTypeOK
<1>4. WritesKept
  BY <1>1 DEF WritesKept
<1>5. /\ rid[h] \in DOMAIN reqs /\ rid[h] # 0 /\ reqs[rid[h]].ver > 0
      /\ pub[h].evt = NoEvent /\ notify[h] = "no" /\ Owes(h)
  BY <1>1 DEF TrailInv, HandlersFit, Owes
<1>6. CASE notify'[h] \in {"send", "done"} /\ pub' = pub
  <2>1. HandlersFit'
    BY <1>1, <1>2, <1>3, <1>5, <1>6 DEF TrailInv, HandlersFit
  <2>2. \A g \in Handlers : Owes(g)' => Owes(g)
    BY <1>2, <1>3, <1>5 DEF Owes
  <2> QED BY <1>1, <1>3, <1>4, <1>6, <2>1, <2>2, QuietTrail DEF IInv
<1>7. CASE notify'[h] = "publish" /\ pub' = [pub EXCEPT ![h] = [evt |-> rid[h], next |-> 1]]
  <2>1. /\ pub'[h].evt = rid[h] /\ pub'[h].next = 1
        /\ \A x \in Publishers \ {h} : pub'[x] = pub[x]
        /\ h \in Publishers /\ Dispatcher \in Publishers \ {h}
    BY <1>7, AuditAssumption DEF IInv, AuditInv, AuditTypeOK, Publishers
  <2>2. HandlersFit'
    BY <1>1, <1>2, <1>3, <1>5, <1>7, <2>1 DEF TrailInv, HandlersFit, Publishers
  <2>3. EventsOfWrites'
    BY <1>1, <1>3 DEF TrailInv, EventsOfWrites
  <2>4. \A g \in Handlers : Owes(g)' => Owes(g)
    BY <1>2, <1>3, <1>5 DEF Owes
  <2>5. SentOnce'
    <3>1. \A g \in Handlers : pub'[g].evt # NoEvent => g = h \/ pub[g].evt # NoEvent
      BY <2>1 DEF Publishers
    <3>2. ~In(rid[h], sent)
      BY <1>5 DEF TrailInv, SentOnce
    <3> QED BY <1>1, <1>3, <2>4, <3>1, <3>2 DEF TrailInv, SentOnce, In
  <2>6. PublishFits'
    <3>1. \A i \in DOMAIN Sinks : ~In(rid[h], delivered[Sinks[i]])
      BY <1>5, SinksRecord DEF IInv, TrailInv, SentOnce
    <3> QED BY <1>3, <2>1, <3>1 DEF TrailInv, PublishFits, In
  <2>7. DeliveredOnceInOrder'
    BY <1>1, <1>3 DEF TrailInv, DeliveredOnceInOrder
  <2> QED BY <2>2, <2>3, <2>5, <2>6, <2>7 DEF TrailInv
<1> QED BY <1>3, <1>6, <1>7

(* The channel takes an event that no one else has.                        *)
LEMMA EnqueueTrail ==
    ASSUME IInv, TrailInv, NEW h \in Handlers, pc[h] = "auditing", Enqueue(h, rid[h]),
           UNCHANGED <<pc, rid, reqs>>
    PROVE  TrailInv'
<1>1. /\ UNCHANGED <<dispatcher, pub, taken, delivered>>
      /\ notify[h] = "send" /\ notify'[h] = "done"
      /\ \A g \in Handlers \ {h} : notify'[g] = notify[g]
      /\ sent' = sent \/ sent' = Append(sent, rid[h])
  BY DEF Enqueue, IInv, AuditInv, AuditTypeOK
<1>2. WritesKept
  BY DEF WritesKept
<1>3. /\ rid[h] \in DOMAIN reqs /\ rid[h] # 0 /\ reqs[rid[h]].ver > 0 /\ pub[h].evt = NoEvent
      /\ Owes(h)
  BY <1>1 DEF TrailInv, HandlersFit, Owes
<1>4. HandlersFit'
  BY <1>1 DEF TrailInv, HandlersFit
<1>5. \A g \in Handlers : Owes(g)' => Owes(g) /\ g # h
  BY <1>1 DEF Owes
<1>6. CASE sent' = sent
  BY <1>1, <1>2, <1>4, <1>5, <1>6, QuietTrail DEF IInv
<1>7. CASE sent' = Append(sent, rid[h])
  <2>1. sent \in Seq(Nat) /\ taken \in Seq(Nat) /\ rid[h] \in Nat
    BY RequestsTyped DEF IInv, AuditInv, AuditTypeOK
  <2>2. /\ Len(sent) \in Nat /\ DOMAIN sent = 1 .. Len(sent)
        /\ DOMAIN sent' = 1 .. Len(sent) + 1 /\ sent'[Len(sent) + 1] = rid[h]
        /\ \A k \in DOMAIN sent : sent'[k] = sent[k]
    BY <1>7, <2>1
  <2>3. \A k \in DOMAIN sent' :
          \/ k \in DOMAIN sent /\ sent'[k] = sent[k]
          \/ k = Len(sent) + 1 /\ sent'[k] = rid[h]
    <3>1. \A k \in 1 .. Len(sent) + 1 : k \in 1 .. Len(sent) \/ k = Len(sent) + 1
      BY <2>2
    <3> QED BY <2>2, <3>1
  <2>4. ~In(rid[h], sent) /\ \A s \in ToSet(Sinks) : ~In(rid[h], delivered[s])
    BY <1>3 DEF TrailInv, SentOnce
  <2>5. EventsOfWrites'
    BY <1>1, <1>3, <2>3 DEF TrailInv, EventsOfWrites
  <2>6. SentOnce'
    <3>1. \A k, l \in DOMAIN sent' : sent'[k] = sent'[l] => k = l
      BY <2>3, <2>4 DEF TrailInv, SentOnce, In
    <3>2. ASSUME NEW g \in Handlers, Owes(g)' \/ pub[g].evt # NoEvent
          PROVE  ~In(rid[g], sent')
      <4>1. g # h /\ rid[g] # rid[h]
        BY <1>3, <1>5, <3>2 DEF TrailInv, HandlersFit
      <4>2. ~In(rid[g], sent)
        BY <1>5, <3>2 DEF TrailInv, SentOnce
      <4> QED BY <2>3, <4>1, <4>2 DEF In
    <3>3. \A g \in Handlers : Owes(g)' => \A s \in ToSet(Sinks) : ~In(rid[g], delivered[s])
      BY <1>5 DEF TrailInv, SentOnce
    <3>4. \A k \in DOMAIN sent' : k > Len(taken) => \A s \in ToSet(Sinks) : ~In(sent'[k], delivered[s])
      BY <2>3, <2>4 DEF TrailInv, SentOnce
    <3> QED BY <1>1, <3>1, <3>2, <3>3, <3>4 DEF SentOnce, In
  <2>7. PublishFits'
    BY <1>1, <2>2 DEF TrailInv, PublishFits, In
  <2>8. DeliveredOnceInOrder'
    <3>1. DOMAIN delivered = ToSet(Sinks)
      BY SinksRecord DEF IInv
    <3>2. \A s \in ToSet(Sinks) : \A i \in DOMAIN delivered[s] : delivered[s][i] # rid[h]
      BY <2>4 DEF In
    <3> QED BY <1>1, <2>3, <3>1, <3>2 DEF TrailInv, DeliveredOnceInOrder
  <2> QED BY <1>4, <2>5, <2>6, <2>7, <2>8 DEF TrailInv
<1> QED BY <1>1, <1>6, <1>7

(* Publish reaches the next sink, which has not recorded its event.        *)
LEMMA SinkTrail ==
    ASSUME IInv, TrailInv, NEW x \in Publishers, NotifySink(x), UNCHANGED <<pc, rid, reqs>>
    PROVE  TrailInv'
<1> DEFINE e == pub[x].evt
           n == pub[x].next
           sink == Sinks[n]
<1>1. /\ UNCHANGED <<dispatcher, notify, taken, sent>> /\ e # NoEvent
      /\ delivered' = delivered \/ delivered' = [delivered EXCEPT ![sink] = Append(@, e)]
      /\ pub' = [pub EXCEPT ![x].next = @ + 1] /\ n <= Len(Sinks)
  BY DEF NotifySink
<1>2. e \in Nat /\ n \in Nat /\ n > 0
  BY <1>1 DEF IInv, AuditInv, AuditTypeOK, TrailInv, PublishFits
<1>3. n \in DOMAIN Sinks /\ sink \in ToSet(Sinks)
  <2>1. n \in DOMAIN Sinks
    BY <1>1, <1>2, AuditAssumption
  <2> QED BY <2>1, SinksRecord DEF IInv
<1>4. /\ pub'[x].evt = e /\ pub'[x].next = n + 1
      /\ \A y \in Publishers \ {x} : pub'[y] = pub[y]
  BY <1>1 DEF IInv, AuditInv, AuditTypeOK
<1>5. \A y \in Publishers : pub'[y].evt = pub[y].evt
  BY <1>4
<1>6. HandlersFit'
  BY <1>1, <1>5 DEF TrailInv, HandlersFit, Publishers
<1>7. \A h \in Handlers : Owes(h)' <=> Owes(h)
  BY <1>1 DEF Owes
<1>8. /\ e \in DOMAIN reqs /\ reqs[e].ver > 0
      /\ \A h \in Handlers : Owes(h) => e # rid[h]
      /\ \A k \in DOMAIN sent : e = sent[k] => x = Dispatcher /\ k = Len(taken)
      /\ \A y \in Publishers \ {x} : pub[y].evt # e
  <2>1. CASE x = Dispatcher
    <3>1. Len(taken) \in DOMAIN sent /\ e = sent[Len(taken)]
      BY <1>1, <2>1 DEF TrailInv, PublishFits
    <3>2. e \in DOMAIN reqs /\ reqs[e].ver > 0
      BY <3>1 DEF TrailInv, EventsOfWrites
    <3>3. \A h \in Handlers : Owes(h) \/ pub[h].evt # NoEvent => e # rid[h]
      BY <3>1 DEF TrailInv, SentOnce, In
    <3>4. \A k \in DOMAIN sent : e = sent[k] => k = Len(taken)
      BY <3>1 DEF TrailInv, SentOnce
    <3>5. \A y \in Handlers : pub[y].evt # NoEvent => pub[y].evt = rid[y]
      BY DEF TrailInv, HandlersFit
    <3> QED BY <1>1, <2>1, <3>2, <3>3, <3>4, <3>5 DEF Publishers
  <2>2. CASE x \in Handlers
    <3>1. notify[x] = "publish" /\ e = rid[x] /\ pc[x] = "auditing" /\ ~In(e, sent)
      BY <1>1, <2>2 DEF TrailInv, HandlersFit, SentOnce
    <3>2. e \in DOMAIN reqs /\ reqs[e].ver > 0 /\ e # 0
      BY <2>2, <3>1 DEF TrailInv, HandlersFit
    <3>3. \A h \in Handlers \ {x} : rid[h] # e
      BY <2>2, <3>1, <3>2 DEF TrailInv, HandlersFit
    <3>4. \A h \in Handlers : Owes(h) => h # x
      BY <3>1 DEF Owes
    <3>5. pub[Dispatcher].evt # NoEvent => pub[Dispatcher].evt # e
      BY <3>1 DEF TrailInv, PublishFits, In
    <3>6. \A y \in Handlers : pub[y].evt # NoEvent => pub[y].evt = rid[y]
      BY DEF TrailInv, HandlersFit
    <3> QED BY <1>1, <2>2, <3>1, <3>2, <3>3, <3>4, <3>5, <3>6 DEF Publishers, In
  <2> QED BY <2>1, <2>2 DEF Publishers
<1>9. ~In(e, delivered[sink])
  BY <1>1, <1>2, <1>3 DEF TrailInv, PublishFits
<1>10. CASE delivered' = delivered
  <2>1. EventsOfWrites' /\ SentOnce'
    BY <1>1, <1>5, <1>7, <1>10 DEF TrailInv, EventsOfWrites, SentOnce, Publishers, In
  <2>2. PublishFits'
    <3>1. \A i \in DOMAIN Sinks : n + 1 <= i => n <= i
      BY <1>2, AuditAssumption
    <3> QED BY <1>1, <1>2, <1>4, <1>10, <3>1 DEF TrailInv, PublishFits, In, Publishers
  <2>3. DeliveredOnceInOrder'
    BY <1>1, <1>10 DEF TrailInv, DeliveredOnceInOrder
  <2> QED BY <1>6, <2>1, <2>2, <2>3 DEF TrailInv
<1>11. CASE delivered' = [delivered EXCEPT ![sink] = Append(@, e)]
  <2>1. delivered \in [ToSet(Sinks) -> Seq(Nat)]
    BY DEF IInv, AuditInv, AuditTypeOK
  <2> DEFINE old == delivered[sink]
             m == Len(old) + 1
  <2>2. /\ DOMAIN delivered = ToSet(Sinks) /\ DOMAIN delivered' = ToSet(Sinks)
        /\ delivered'[sink] = Append(old, e) /\ old \in Seq(Nat)
        /\ \A s \in ToSet(Sinks) \ {sink} : delivered'[s] = delivered[s]
    BY <1>3, <1>11, <2>1
  <2>3. /\ m \in Nat /\ DOMAIN old = 1 .. m - 1 /\ DOMAIN delivered'[sink] = 1 .. m
        /\ delivered'[sink][m] = e /\ \A i \in 1 .. m - 1 : delivered'[sink][i] = old[i]
    <3>1. e \in Nat /\ old \in Seq(Nat) /\ delivered'[sink] = Append(old, e)
      BY <1>2, <2>2
    <3> HIDE DEF old, e, sink
    <3> QED BY <3>1
  <2> HIDE DEF m
  <2>4. \A f : \A s \in ToSet(Sinks) : In(f, delivered'[s]) => In(f, delivered[s]) \/ (f = e /\ s = sink)
    <3>1. \A i \in 1 .. m : i \in 1 .. m - 1 \/ i = m
      BY <2>3
    <3>2. \A f : In(f, delivered'[sink]) => In(f, old) \/ f = e
      BY <2>3, <3>1 DEF In
    <3> QED BY <2>2, <3>2
  <2>5. EventsOfWrites'
    <3>1. \A s \in ToSet(Sinks) : \A i \in DOMAIN delivered'[s] : In(delivered'[s][i], delivered'[s])
      BY DEF In
    <3>2. \A s \in ToSet(Sinks) : \A f : In(f, delivered[s]) => f \in DOMAIN reqs /\ reqs[f].ver > 0
      BY DEF TrailInv, EventsOfWrites, In
    <3> HIDE DEF e, sink, old
    <3> QED BY <1>1, <1>8, <2>4, <3>1, <3>2 DEF TrailInv, EventsOfWrites
  <2>6. SentOnce'
    <3>1. \A h \in Handlers : Owes(h)' => \A s \in ToSet(Sinks) : ~In(rid[h], delivered'[s])
      BY <1>7, <1>8, <2>4 DEF TrailInv, SentOnce
    <3>2. \A k \in DOMAIN sent : k > Len(taken) => \A s \in ToSet(Sinks) : ~In(sent[k], delivered'[s])
      <4>1. \A k \in DOMAIN sent : k > Len(taken) => sent[k] # e
        <5>1. Len(taken) \in Nat
          BY DEF IInv, AuditInv, AuditTypeOK
        <5> QED BY <1>8, <5>1
      <4> QED BY <2>4, <4>1 DEF TrailInv, SentOnce
    <3>3. \A h \in Handlers : Owes(h)' \/ pub'[h].evt # NoEvent => ~In(rid[h], sent)
      BY <1>5, <1>7 DEF TrailInv, SentOnce, Publishers
    <3> QED BY <1>1, <3>1, <3>2, <3>3 DEF TrailInv, SentOnce, In
  <2>7. PublishFits'
    <3>1. ASSUME NEW y \in Publishers, pub[y].evt # NoEvent
          PROVE  /\ pub'[y].next > 0
                 /\ \A i \in DOMAIN Sinks : pub'[y].next <= i => ~In(pub[y].evt, delivered'[Sinks[i]])
      <4>1. CASE y = x
        <5>1. \A i \in DOMAIN Sinks : n + 1 <= i => n <= i /\ Sinks[i] # sink
          BY <1>2, <1>3, AuditAssumption
        <5>2. \A i \in DOMAIN Sinks : n <= i => ~In(e, delivered[Sinks[i]])
          BY <1>1 DEF TrailInv, PublishFits
        <5>3. \A i \in DOMAIN Sinks : Sinks[i] \in ToSet(Sinks)
          BY SinksRecord DEF IInv
        <5> QED BY <1>2, <1>4, <2>4, <4>1, <5>1, <5>2, <5>3
      <4>2. CASE y # x
        <5>1. pub'[y] = pub[y] /\ pub[y].evt # e
          BY <1>4, <1>8, <4>2
        <5>2. \A i \in DOMAIN Sinks : Sinks[i] \in ToSet(Sinks)
          BY SinksRecord DEF IInv
        <5> QED BY <2>4, <3>1, <5>1, <5>2 DEF TrailInv, PublishFits
      <4> QED BY <4>1, <4>2
    <3>2. Dispatcher \in Publishers
      BY DEF Publishers
    <3> QED BY <1>1, <1>5, <3>1, <3>2 DEF TrailInv, PublishFits, In
  <2>8. DeliveredOnceInOrder'
    <3> SUFFICES ASSUME NEW s \in ToSet(Sinks)
                 PROVE  LET log == delivered'[s] IN
                        /\ \A i, j \in DOMAIN log : i < j => log[i] # log[j]
                        /\ \A i \in DOMAIN log : reqs[log[i]].ver > 0
                        /\ \A i, j \in DOMAIN log : \A k, l \in DOMAIN sent :
                             log[i] = sent[k] /\ log[j] = sent[l] /\ i < j => k < l
      BY <1>1, <2>2 DEF DeliveredOnceInOrder
    <3>1. CASE s # sink
      <4>1. delivered'[s] = delivered[s] /\ s \in DOMAIN delivered
        BY <2>2, <3>1
      <4> QED BY <4>1 DEF TrailInv, DeliveredOnceInOrder
    <3>2. CASE s = sink
      <4> DEFINE log == delivered'[sink]
      <4>1. /\ \A i, j \in DOMAIN old : i < j => old[i] # old[j]
            /\ \A i \in DOMAIN old : reqs[old[i]].ver > 0 /\ old[i] # e
            /\ \A i, j \in DOMAIN old : \A k, l \in DOMAIN sent :
                 old[i] = sent[k] /\ old[j] = sent[l] /\ i < j => k < l
        BY <1>3, <1>9, <2>2 DEF TrailInv, DeliveredOnceInOrder, In
      <4>2. \A i, j \in DOMAIN log : i < j => i \in DOMAIN old /\ (j \in DOMAIN old \/ j = m)
        BY <2>3
      <4>3. \A i \in DOMAIN log : i \in DOMAIN old \/ i = m
        BY <2>3
      <4>4. \A i \in DOMAIN old : log[i] = old[i]
        BY <2>3
      <4>5. ASSUME NEW i \in DOMAIN old, NEW k \in DOMAIN sent, NEW l \in DOMAIN sent,
                   old[i] = sent[k], e = sent[l]
            PROVE  k < l
        <5>1. l = Len(taken) /\ Len(taken) \in Nat /\ k \in Nat
          <6>1. sent \in Seq(Nat) /\ taken \in Seq(Nat)
            BY DEF IInv, AuditInv, AuditTypeOK
          <6> QED BY <1>8, <4>5, <6>1
        <5>2. k # l
          BY <4>1, <4>5
        <5>3. ~(k > Len(taken))
          BY <1>3, <4>5 DEF TrailInv, SentOnce, In
        <5> QED BY <5>1, <5>2, <5>3
      <4>6. log[m] = e /\ reqs[e].ver > 0
        BY <1>8, <2>3
      <4> HIDE DEF old, log, e
      <4>7. \A i, j \in DOMAIN log : i < j => log[i] # log[j]
        BY <4>1, <4>2, <4>4, <4>6
      <4>8. \A i \in DOMAIN log : reqs[log[i]].ver > 0
        BY <4>1, <4>3, <4>4, <4>6
      <4>9. \A i, j \in DOMAIN log : \A k, l \in DOMAIN sent :
              log[i] = sent[k] /\ log[j] = sent[l] /\ i < j => k < l
        BY <4>1, <4>2, <4>4, <4>5, <4>6
      <4> QED BY <3>2, <4>7, <4>8, <4>9 DEF log
    <3> QED BY <3>1, <3>2
  <2> QED BY <1>6, <2>5, <2>6, <2>7, <2>8 DEF TrailInv
<1> QED BY <1>1, <1>10, <1>11

(* Publish is through with the sinks; notifyAudit returns.                 *)
LEMMA ReturnTrail ==
    ASSUME IInv, TrailInv, NEW x \in Publishers, PublishReturned(x), UNCHANGED <<pc, rid, reqs>>
    PROVE  TrailInv'
<1>1. /\ UNCHANGED <<taken, sent, delivered>> /\ pub[x].evt # NoEvent
      /\ pub' = [pub EXCEPT ![x] = NotPublishing]
      /\ x # Dispatcher => dispatcher' = dispatcher /\ notify' = [notify EXCEPT ![x] = "done"]
      /\ x = Dispatcher => notify' = notify
  BY DEF PublishReturned
<1>2. pub'[x].evt = NoEvent /\ \A y \in Publishers \ {x} : pub'[y] = pub[y]
  BY <1>1 DEF IInv, AuditInv, AuditTypeOK, NotPublishing
<1>3. \A h \in Handlers : notify'[h] = notify[h] \/ (h = x /\ notify[h] = "publish" /\ notify'[h] = "done")
  <2>1. CASE x = Dispatcher
    BY <1>1, <2>1
  <2>2. CASE x # Dispatcher
    <3>1. x \in Handlers /\ notify[x] = "publish"
      BY <1>1, <2>2 DEF Publishers, TrailInv, HandlersFit
    <3> QED BY <1>1, <2>2, <3>1 DEF IInv, AuditInv, AuditTypeOK
  <2> QED BY <2>1, <2>2
<1>4. \A h \in Handlers : Owes(h)' => Owes(h)
  BY <1>3 DEF Owes
<1>5. HandlersFit'
  BY <1>2, <1>3 DEF TrailInv, HandlersFit, Publishers
<1>6. EventsOfWrites' /\ DeliveredOnceInOrder'
  BY <1>1 DEF TrailInv, EventsOfWrites, DeliveredOnceInOrder
<1>7. \A y \in Publishers : pub'[y].evt # NoEvent => y # x /\ pub'[y] = pub[y]
  BY <1>2
<1>8. SentOnce'
  BY <1>1, <1>4, <1>7 DEF TrailInv, SentOnce, In, Publishers
<1>9. PublishFits'
  BY <1>1, <1>7 DEF TrailInv, PublishFits, In, Publishers
<1> QED BY <1>5, <1>6, <1>8, <1>9 DEF TrailInv

(* The handler leaves notifyAudit with its event passed on.                *)
LEMMA EndAuditTrail ==
    ASSUME IInv, TrailInv, NEW h \in Handlers, EndAudit(h)
    PROVE  TrailInv'
<1>1. /\ pc[h] = "auditing" /\ \E l \in {"snapshot", "respond"} : pc' = [pc EXCEPT ![h] = l]
      /\ UNCHANGED <<rid, reqs, dispatcher, pub, sent, taken, delivered>>
      /\ notify[h] = "done" /\ notify' = [notify EXCEPT ![h] = "no"]
  BY DEF EndAudit, Goto, NotifyReturned
<1>2. /\ pc'[h] \in {"snapshot", "respond"} /\ \A g \in Handlers \ {h} : pc'[g] = pc[g]
      /\ notify'[h] = "no" /\ \A g \in Handlers \ {h} : notify'[g] = notify[g]
  BY <1>1 DEF IInv, ServerTypeOK, AuditInv, AuditTypeOK
<1>3. WritesKept
  BY <1>1 DEF WritesKept
<1>4. HandlersFit'
  BY <1>1, <1>2 DEF TrailInv, HandlersFit
<1>5. \A g \in Handlers : Owes(g)' => Owes(g)
  BY <1>2 DEF Owes
<1> QED BY <1>1, <1>3, <1>4, <1>5, QuietTrail DEF IInv

(* The head of the channel is the first event that was not taken.          *)
LEMMA HeadOfChannel ==
    ASSUME AuditInv, queue # << >>
    PROVE  /\ Len(taken) + 1 \in DOMAIN sent /\ sent[Len(taken) + 1] = Head(queue)
           /\ Len(Append(taken, Head(queue))) = Len(taken) + 1 /\ Len(taken) \in Nat
<1>1. queue \in Seq(Nat) /\ taken \in Seq(Nat) /\ sent = taken \o queue
  BY DEF AuditInv, AuditTypeOK
<1>2. Len(queue) \in Nat /\ Len(queue) > 0 /\ Head(queue) = queue[1] /\ Len(taken) \in Nat
  BY <1>1
<1>3. Len(sent) = Len(taken) + Len(queue) /\ DOMAIN sent = 1 .. Len(sent)
  BY <1>1
<1>4. sent[Len(taken) + 1] = queue[1]
  BY <1>1, <1>2
<1> QED BY <1>1, <1>2, <1>3, <1>4

(* The dispatcher takes an event that no sink has recorded.                *)
LEMMA ReceiveTrail ==
    ASSUME IInv, TrailInv, Receive, UNCHANGED <<pc, rid, reqs>>
    PROVE  TrailInv'
<1> DEFINE n == Len(taken) + 1
<1>1. /\ dispatcher' = "publish" /\ pub' = [pub EXCEPT ![Dispatcher] = [evt |-> Head(queue), next |-> 1]]
      /\ taken' = Append(taken, Head(queue)) /\ UNCHANGED <<notify, sent, delivered>> /\ queue # << >>
  BY DEF Receive
<1>2. n \in DOMAIN sent /\ sent[n] = Head(queue) /\ Len(taken') = n /\ Len(taken) \in Nat
  BY <1>1, HeadOfChannel DEF IInv
<1>3. /\ pub'[Dispatcher].evt = sent[n] /\ pub'[Dispatcher].next = 1
      /\ \A h \in Handlers : h \in Publishers /\ pub'[h] = pub[h]
  BY <1>1, <1>2, AuditAssumption DEF IInv, AuditInv, AuditTypeOK, Publishers
<1>4. \A s \in ToSet(Sinks) : ~In(sent[n], delivered[s])
  BY <1>2 DEF TrailInv, SentOnce
<1>5. HandlersFit' /\ EventsOfWrites' /\ DeliveredOnceInOrder'
  BY <1>1, <1>3 DEF TrailInv, HandlersFit, EventsOfWrites, DeliveredOnceInOrder
<1>6. \A h \in Handlers : Owes(h)' <=> Owes(h)
  BY <1>1 DEF Owes
<1>7. SentOnce'
  <2>1. \A k \in DOMAIN sent : k > n => k > Len(taken)
    <3>1. sent \in Seq(Nat)
      BY DEF IInv, AuditInv, AuditTypeOK
    <3> QED BY <1>2, <3>1
  <2> HIDE DEF n
  <2> QED BY <1>1, <1>2, <1>3, <1>6, <2>1 DEF TrailInv, SentOnce, In
<1>8. PublishFits'
  <2>1. \A i \in DOMAIN Sinks : ~In(sent[n], delivered[Sinks[i]])
    BY <1>4, SinksRecord DEF IInv
  <2> HIDE DEF n
  <2> QED BY <1>1, <1>2, <1>3, <2>1 DEF TrailInv, PublishFits, In, Publishers
<1> QED BY <1>5, <1>7, <1>8 DEF TrailInv

(* A new process starts with an empty channel; its requests are numbered   *)
(* on, so the events the sinks have are none of theirs.                    *)
LEMMA ProcessEndsTrail ==
    ASSUME IInv, TrailInv, ProcessEnds
    PROVE  TrailInv'
<1>1. /\ pc' = [h \in Handlers |-> "idle"] /\ rid' = [h \in Handlers |-> 0]
      /\ notify' = [h \in Handlers |-> "no"] /\ delivered' = delivered /\ sent' = << >>
      /\ pub' = [x \in Publishers |-> NotPublishing]
      /\ reqs' = [r \in DOMAIN reqs |->
                    IF reqs[r].answer = "pending" THEN [reqs[r] EXCEPT !.answer = "lost"] ELSE reqs[r]]
  BY DEF ProcessEnds, AuditStart
<1>2. \A x \in Publishers : pub'[x].evt = NoEvent
  BY <1>1 DEF NotPublishing
<1>3. DOMAIN reqs' = DOMAIN reqs /\ \A r \in DOMAIN reqs : reqs'[r].ver = reqs[r].ver
  <2>1. \A r \in DOMAIN reqs : reqs[r] \in RequestRecords
    BY RequestsTyped
  <2>2. \A q \in RequestRecords : [q EXCEPT !.answer = "lost"].ver = q.ver
    BY DEF RequestRecords
  <2> QED BY <1>1, <2>1, <2>2
<1>4. HandlersFit' /\ SentOnce' /\ PublishFits'
  BY <1>1, <1>2 DEF HandlersFit, SentOnce, PublishFits, Owes, In, Publishers
<1>5. EventsOfWrites'
  BY <1>1, <1>3 DEF TrailInv, EventsOfWrites
<1>6. DeliveredOnceInOrder'
  <2>1. DOMAIN delivered = ToSet(Sinks)
    BY SinksRecord DEF IInv
  <2>2. \A s \in ToSet(Sinks) : \A i \in DOMAIN delivered[s] : reqs'[delivered[s][i]].ver > 0
    BY <1>1, <1>5 DEF EventsOfWrites
  <2> QED BY <1>1, <2>1, <2>2 DEF TrailInv, DeliveredOnceInOrder
<1> QED BY <1>4, <1>5, <1>6 DEF TrailInv

(* Every step keeps the trail.                                             *)
LEMMA NextTrail == IInv /\ TrailInv /\ [Next]_vars => TrailInv'
<1> SUFFICES ASSUME IInv, TrailInv, [Next]_vars PROVE TrailInv'
  OBVIOUS
<1>1. ASSUME NEW h \in Handlers, NEW b \in Batches, UpsertBatch(h, b) PROVE TrailInv'
  BY <1>1, AcceptTrail, RefuseTrail DEF UpsertBatch, Arrives
<1>2. ASSUME NEW h \in Handlers, NEW m \in Singles, Upsert(h, m) PROVE TrailInv'
  BY <1>2, AcceptTrail, RefuseTrail DEF Upsert, Arrives
<1>3. ASSUME NEW h \in Handlers, ClientGone(h) PROVE TrailInv'
  BY <1>3, IdleTrail DEF ClientGone, CancelContext, serverVars
<1>4. ASSUME NEW h \in Handlers, HandlerStep(h) PROVE TrailInv'
  <2>1. CASE WriteRepo(h) \/ BeginAudit(h) \/ EndAudit(h) \/ Respond(h)
    BY <2>1, WriteTrail, BeginAuditTrail, EndAuditTrail, RespondTrail
  <2>2. CASE AuditStep(h)
    <3>1. h \in Publishers /\ pc[h] = "auditing" /\ UNCHANGED <<pc, rid, reqs>>
      BY <2>2 DEF AuditStep, Publishers, serverVars
    <3> QED BY <2>2, <3>1, EnqueueTrail, SinkTrail, ReturnTrail DEF AuditStep
  <2>3. CASE ReadBack(h)
    <3>1. PICK l \in {"audit", "notfound"} : pc' = [pc EXCEPT ![h] = l]
      BY <2>3 DEF ReadBack, Goto
    <3>2. pc[h] = "readback" /\ UNCHANGED <<rid, reqs, auditVars>>
      BY <2>3 DEF ReadBack
    <3> QED BY <3>1, <3>2, MoveTrail
  <2>4. CASE OnChanged(h)
    <3>1. pc' = [pc EXCEPT ![h] = "saving"] /\ pc[h] = "snapshot" /\ UNCHANGED <<rid, reqs, auditVars>>
      BY <2>4 DEF OnChanged, Goto
    <3> QED BY <3>1, MoveTrail
  <2>5. CASE Saved(h)
    <3>1. pc' = [pc EXCEPT ![h] = "respond"] /\ pc[h] = "saving" /\ UNCHANGED <<rid, reqs, auditVars>>
      BY <2>5 DEF Saved, Goto
    <3> QED BY <3>1, MoveTrail
  <2>6. CASE SaveSnapshot(h)
    BY <2>6, IdleTrail DEF SaveSnapshot, serverVars, auditVars
  <2> QED BY <1>4, <2>1, <2>2, <2>3, <2>4, <2>5, <2>6 DEF HandlerStep
<1>5. CASE TickerStep
  BY <1>5, IdleTrail DEF TickerStep, Tick, serverVars, auditVars
<1>6. CASE DispatcherStep
  <2>1. Dispatch /\ UNCHANGED <<pc, rid, reqs>> /\ Dispatcher \in Publishers
    BY <1>6 DEF DispatcherStep, serverVars, Publishers
  <2>2. CASE Receive
    BY <2>1, <2>2, ReceiveTrail
  <2>3. CASE DispatcherExit
    <3>1. /\ UNCHANGED <<pub, notify, sent, taken, delivered>>
          /\ pub[Dispatcher].evt = NoEvent
      BY <2>3 DEF DispatcherExit, TrailInv, PublishFits
    <3>2. HandlersFit' /\ EventsOfWrites' /\ DeliveredOnceInOrder'
      BY <2>1, <3>1 DEF TrailInv, HandlersFit, EventsOfWrites, DeliveredOnceInOrder
    <3>3. SentOnce' /\ PublishFits'
      BY <2>1, <3>1 DEF TrailInv, SentOnce, PublishFits, Owes, In
    <3> QED BY <3>2, <3>3 DEF TrailInv
  <2> QED BY <2>1, <2>2, <2>3, SinkTrail, ReturnTrail DEF Dispatch
<1>7. CASE Crash \/ Exit
  BY <1>7, ProcessEndsTrail DEF Crash, Exit
<1>8. CASE ServeFails \/ CloseStep
  BY <1>8, IdleTrail DEF ServeFails, CloseStep, CloseCancel, CloseForget, serverVars, auditVars
<1>9. CASE Boot
  BY <1>9, IdleTrail DEF Boot, auditVars
<1>10. CASE UNCHANGED vars
  BY <1>10, IdleTrail DEF vars, serverVars, auditVars
<1> QED BY <1>1, <1>2, <1>3, <1>4, <1>5, <1>6, <1>7, <1>8, <1>9, <1>10 DEF Next

(* However handlers, dispatcher, Close and restarts interleave, a sink     *)
(* records an event at most once, only of a write that took effect, and    *)
(* the queued ones in the order of the channel.                            *)
THEOREM EventsRecordedOnce == Spec => []DeliveredOnceInOrder
<1>1. TrailInv => DeliveredOnceInOrder
  BY DEF TrailInv
<1> QED BY <1>1, InitTrail, NextTrail, Invariant, PTL DEF Spec

-----------------------------------------------------------------------------
(* What a file sink that does not fail has.                                *)
Reliable == "file" \in ToSet(Sinks) \ FailingSinks

(* A Publish, once past the file sink, has left its event there.           *)
FileReached ==
    \A x \in Publishers : \A i \in DOMAIN Sinks :
        Sinks[i] = "file" /\ pub[x].evt # NoEvent /\ i < pub[x].next =>
            In(pub[x].evt, delivered["file"])

TakenKept ==
    \A i \in DOMAIN taken : In(taken[i], delivered["file"]) \/ pub[Dispatcher].evt = taken[i]

(* Close has forgotten the channel only after the dispatcher is gone.      *)
CloseWaits == ~queueOpen => dispatcher = "exited"

FileInv == Reliable => FileReached /\ TakenKept /\ CloseWaits

(* The file sink is one of the sinks, so there is an auditor.              *)
LEMMA ReliableSinks ==
    ASSUME Reliable
    PROVE  "file" \in ToSet(Sinks) /\ AuditorSet
BY DEF Reliable, AuditorSet, ToSet

(* Nothing has been taken or published when the service starts.            *)
LEMMA FreshFile ==
    ASSUME Reliable
    PROVE  /\ AuditInit => FileReached /\ TakenKept /\ CloseWaits
           /\ AuditStart => (FileReached /\ TakenKept /\ CloseWaits)'
<1>1. AuditorSet
  BY ReliableSinks
<1>2. NotPublishing.evt = NoEvent
  BY DEF NotPublishing
<1>3. ASSUME AuditInit PROVE FileReached /\ TakenKept /\ CloseWaits
  <2>1. /\ \A x \in Publishers : pub[x] = NotPublishing
        /\ taken = << >> /\ queueOpen
    BY <1>1, <1>3 DEF AuditInit
  <2> QED BY <1>2, <2>1 DEF FileReached, TakenKept, CloseWaits
<1>4. ASSUME AuditStart PROVE (FileReached /\ TakenKept /\ CloseWaits)'
  <2>1. /\ \A x \in Publishers : pub'[x] = NotPublishing
        /\ taken' = << >> /\ queueOpen'
    BY <1>1, <1>4 DEF AuditStart
  <2> QED BY <1>2, <2>1 DEF FileReached, TakenKept, CloseWaits
<1> QED BY <1>3, <1>4

(* Steps beside Publish and channel.                                       *)
LEMMA QuietFile ==
    ASSUME FileInv, UNCHANGED <<pub, taken, delivered, queueOpen, dispatcher>>
    PROVE  FileInv'
BY DEF FileInv, Reliable, FileReached, TakenKept, CloseWaits, In

(* A handler begins to publish by itself, or sends.                        *)
LEMMA NotifyFile ==
    ASSUME IInv, FileInv, NEW h \in Handlers, NEW r \in Nat, NotifyAudit(h, r)
    PROVE  FileInv'
<1> SUFFICES ASSUME Reliable PROVE FileReached' /\ TakenKept' /\ CloseWaits'
  BY DEF FileInv, Reliable
<1>1. /\ UNCHANGED <<queueOpen, dispatcher, taken, delivered>>
      /\ pub' = pub \/ pub' = [pub EXCEPT ![h] = [evt |-> r, next |-> 1]]
  BY DEF NotifyAudit
<1>2. /\ \A x \in Publishers : pub'[x] = pub[x] \/ pub'[x].next = 1
      /\ pub'[Dispatcher] = pub[Dispatcher]
  BY <1>1, AuditAssumption DEF IInv, AuditInv, AuditTypeOK, Publishers
<1>3. FileReached /\ TakenKept /\ CloseWaits
  BY DEF FileInv
<1>4. \A i \in DOMAIN Sinks : ~(i < 1)
  BY AuditAssumption
<1>5. FileReached'
  BY <1>1, <1>2, <1>3, <1>4 DEF FileReached, In
<1> QED BY <1>1, <1>2, <1>3, <1>5 DEF TakenKept, CloseWaits, In

(* The dispatcher takes the next event when it is done with the last.      *)
LEMMA ReceiveFile ==
    ASSUME IInv, TrailInv, FileInv, Receive
    PROVE  FileInv'
<1> SUFFICES ASSUME Reliable PROVE FileReached' /\ TakenKept' /\ CloseWaits'
  BY DEF FileInv, Reliable
<1>1. /\ UNCHANGED <<queueOpen, delivered>> /\ dispatcher = "select" /\ queue # << >>
      /\ pub' = [pub EXCEPT ![Dispatcher] = [evt |-> Head(queue), next |-> 1]]
      /\ taken' = Append(taken, Head(queue))
  BY DEF Receive
<1>2. FileReached /\ TakenKept /\ CloseWaits
  BY DEF FileInv
<1>3. /\ pub'[Dispatcher].evt = Head(queue) /\ pub'[Dispatcher].next = 1
      /\ \A x \in Publishers \ {Dispatcher} : pub'[x] = pub[x]
  BY <1>1 DEF IInv, AuditInv, AuditTypeOK, Publishers
<1>4. \A i \in DOMAIN Sinks : ~(i < 1)
  BY AuditAssumption
<1>5. FileReached'
  BY <1>1, <1>2, <1>3, <1>4 DEF FileReached, In
<1>6. pub[Dispatcher].evt = NoEvent
  BY <1>1 DEF TrailInv, PublishFits
<1>7. taken \in Seq(Nat) /\ Head(queue) \in Nat
  BY <1>1 DEF IInv, AuditInv, AuditTypeOK
<1>8. \A i \in DOMAIN taken : In(taken[i], delivered["file"])
  BY <1>2, <1>6, <1>7, AuditAssumption DEF TakenKept
<1>9. \A i \in DOMAIN taken' : (i \in DOMAIN taken /\ taken'[i] = taken[i]) \/ taken'[i] = Head(queue)
  BY <1>1, <1>7
<1>10. TakenKept'
  BY <1>1, <1>3, <1>8, <1>9 DEF TakenKept, In
<1>11. CloseWaits'
  BY <1>1, <1>2 DEF CloseWaits
<1> QED BY <1>5, <1>10, <1>11

(* A sink only adds to what it has; the file sink does not fail.           *)
LEMMA SinkGrows ==
    ASSUME IInv, Reliable, NEW x \in Publishers, NotifySink(x)
    PROVE  /\ \A r : In(r, delivered["file"]) => In(r, delivered'["file"])
           /\ Sinks[pub[x].next] = "file" => In(pub[x].evt, delivered'["file"])
           /\ pub[x].evt \in Nat /\ pub[x].next \in Nat
           /\ \A y \in Publishers : pub'[y].evt = pub[y].evt
           /\ pub'[x].next = pub[x].next + 1 /\ \A y \in Publishers \ {x} : pub'[y] = pub[y]
<1> DEFINE sink == Sinks[pub[x].next]
<1>1. /\ pub' = [pub EXCEPT ![x].next = @ + 1] /\ pub[x].evt # NoEvent
      /\ pub[x].next <= Len(Sinks)
      /\ delivered' = delivered \/ delivered' = [delivered EXCEPT ![sink] = Append(@, pub[x].evt)]
      /\ sink = "file" => delivered' = [delivered EXCEPT !["file"] = Append(@, pub[x].evt)]
  BY DEF NotifySink, CanDeliver, Reliable
<1>2. /\ delivered \in [ToSet(Sinks) -> Seq(Nat)] /\ "file" \in ToSet(Sinks)
      /\ pub[x].evt \in Nat /\ pub[x].next \in Nat
  BY <1>1 DEF IInv, AuditInv, AuditTypeOK, Reliable
<1>3. /\ \A y \in Publishers : pub'[y].evt = pub[y].evt
      /\ pub'[x].next = pub[x].next + 1 /\ \A y \in Publishers \ {x} : pub'[y] = pub[y]
  BY <1>1 DEF IInv, AuditInv, AuditTypeOK
<1>4. /\ delivered'["file"] = delivered["file"] \/ delivered'["file"] = Append(delivered["file"], pub[x].evt)
      /\ sink = "file" => delivered'["file"] = Append(delivered["file"], pub[x].evt)
  <2> HIDE DEF sink
  <2> QED BY <1>1, <1>2
<1> DEFINE old == delivered["file"]
<1>5. old \in Seq(Nat)
  BY <1>2
<1>6. \A r : In(r, old) => In(r, delivered'["file"])
  <2>1. CASE delivered'["file"] = Append(old, pub[x].evt)
    <3>1. \A i \in DOMAIN old : i \in DOMAIN delivered'["file"] /\ delivered'["file"][i] = old[i]
      BY <1>2, <1>5, <2>1
    <3> QED BY <3>1 DEF In
  <2> QED BY <1>4, <2>1
<1>7. sink = "file" => In(pub[x].evt, delivered'["file"])
  <2>1. CASE delivered'["file"] = Append(old, pub[x].evt)
    <3>1. Len(old) + 1 \in DOMAIN delivered'["file"] /\ delivered'["file"][Len(old) + 1] = pub[x].evt
      BY <1>2, <1>5, <2>1
    <3> QED BY <3>1 DEF In
  <2> QED BY <1>4, <2>1
<1> HIDE DEF old
<1> QED BY <1>2, <1>3, <1>6, <1>7 DEF old

(* A Publish moves past one sink.                                          *)
LEMMA SinkFile ==
    ASSUME IInv, FileInv, NEW x \in Publishers, NotifySink(x)
    PROVE  FileInv'
<1> SUFFICES ASSUME Reliable PROVE FileReached' /\ TakenKept' /\ CloseWaits'
  BY DEF FileInv, Reliable
<1>1. UNCHANGED <<queueOpen, dispatcher, taken>>
  BY DEF NotifySink
<1>2. FileReached /\ TakenKept /\ CloseWaits
  BY DEF FileInv
<1>3. FileReached'
  <2> SUFFICES ASSUME NEW y \in Publishers, NEW i \in DOMAIN Sinks, Sinks[i] = "file",
                      pub'[y].evt # NoEvent, i < pub'[y].next
               PROVE  In(pub'[y].evt, delivered'["file"])
    BY DEF FileReached
  <2>1. pub'[y].evt = pub[y].evt
    BY SinkGrows
  <2>2. CASE i < pub[y].next
    <3>1. In(pub[y].evt, delivered["file"])
      BY <1>2, <2>1, <2>2 DEF FileReached
    <3> QED BY <2>1, <3>1, SinkGrows
  <2>3. CASE ~(i < pub[y].next)
    <3>1. y = x
      BY <2>3, SinkGrows
    <3>2. pub'[x].next = pub[x].next + 1 /\ pub[x].next \in Nat
      BY SinkGrows
    <3>3. i \in Nat
      BY AuditAssumption
    <3>4. i = pub[x].next
      BY <2>3, <3>1, <3>2, <3>3
    <3> QED BY <2>1, <3>1, <3>4, SinkGrows
  <2> QED BY <2>2, <2>3
<1>4. TakenKept'
  <2>1. pub'[Dispatcher].evt = pub[Dispatcher].evt
    BY SinkGrows DEF Publishers
  <2> QED BY <1>1, <1>2, <2>1, SinkGrows DEF TakenKept
<1>5. CloseWaits'
  BY <1>1, <1>2 DEF CloseWaits
<1> QED BY <1>3, <1>4, <1>5

(* A Publish has been at the file sink when it returns.                    *)
LEMMA ReturnReached ==
    ASSUME IInv, FileInv, Reliable, NEW x \in Publishers, PublishReturned(x)
    PROVE  In(pub[x].evt, delivered["file"])
<1>1. PICK i \in DOMAIN Sinks : Sinks[i] = "file"
  BY ReliableSinks, SinksRecord DEF IInv
<1>2. pub[x].evt # NoEvent /\ pub[x].next > Len(Sinks)
  BY DEF PublishReturned
<1>3. pub[x].next \in Nat /\ i \in Nat /\ i <= Len(Sinks) /\ Len(Sinks) \in Nat
  BY AuditAssumption DEF IInv, AuditInv, AuditTypeOK
<1>4. i < pub[x].next
  BY <1>2, <1>3
<1> QED BY <1>1, <1>2, <1>4 DEF FileInv, FileReached

(* The end of a Publish.                                                   *)
LEMMA ReturnFile ==
    ASSUME IInv, TrailInv, FileInv, NEW x \in Publishers, PublishReturned(x)
    PROVE  FileInv'
<1> SUFFICES ASSUME Reliable PROVE FileReached' /\ TakenKept' /\ CloseWaits'
  BY DEF FileInv, Reliable
<1>1. /\ UNCHANGED <<queueOpen, taken, delivered>> /\ pub[x].evt # NoEvent
      /\ pub' = [pub EXCEPT ![x] = NotPublishing]
      /\ x # Dispatcher => UNCHANGED dispatcher
  BY DEF PublishReturned
<1>2. FileReached /\ TakenKept /\ CloseWaits
  BY DEF FileInv
<1>3. pub'[x].evt = NoEvent /\ \A y \in Publishers \ {x} : pub'[y] = pub[y]
  BY <1>1 DEF NotPublishing, IInv, AuditInv, AuditTypeOK
<1>4. FileReached'
  BY <1>1, <1>2, <1>3 DEF FileReached, In
<1>5. In(pub[x].evt, delivered["file"])
  BY ReturnReached
<1>6. TakenKept'
  BY <1>1, <1>2, <1>3, <1>5 DEF TakenKept, In, Publishers
<1>7. x = Dispatcher => dispatcher = "publish"
  BY <1>1 DEF TrailInv, PublishFits
<1>8. CloseWaits'
  BY <1>1, <1>2, <1>7 DEF CloseWaits
<1> QED BY <1>4, <1>6, <1>8

(* The dispatcher ends, and Close forgets the channel.                     *)
LEMMA CloseFile ==
    ASSUME FileInv, DispatcherExit \/ CloseCancel \/ CloseForget
    PROVE  FileInv'
<1>1. /\ UNCHANGED <<pub, taken, delivered>>
      /\ dispatcher' = "exited" \/ dispatcher' = dispatcher
      /\ queueOpen' = queueOpen \/ dispatcher' = "exited"
  BY DEF DispatcherExit, CloseCancel, CloseForget
<1> QED BY <1>1 DEF FileInv, Reliable, FileReached, TakenKept, CloseWaits, In

(* Every step keeps what the file sink has.                                *)
LEMMA NextFile == IInv /\ TrailInv /\ FileInv /\ [Next]_vars => FileInv'
<1> SUFFICES ASSUME IInv, TrailInv, FileInv, [Next]_vars PROVE FileInv'
  OBVIOUS
<1>1. ASSUME NEW h \in Handlers, (\E b \in Batches : UpsertBatch(h, b))
                                \/ (\E m \in Singles : Upsert(h, m)) \/ ClientGone(h)
      PROVE  FileInv'
  BY <1>1, QuietFile DEF UpsertBatch, Upsert, Accept, Refuse, ClientGone, OpenContext,
                         CancelContext, auditVars
<1>2. ASSUME NEW h \in Handlers, HandlerStep(h) PROVE FileInv'
  <2>1. rid[h] \in Nat /\ h \in Publishers
    BY RequestsTyped DEF Publishers
  <2>2. CASE BeginAudit(h)
    BY <2>1, <2>2, NotifyFile DEF BeginAudit
  <2>3. CASE AuditStep(h)
    <3>1. CASE Enqueue(h, rid[h])
      BY <3>1, QuietFile DEF Enqueue
    <3> QED BY <2>1, <2>3, <3>1, SinkFile, ReturnFile DEF AuditStep
  <2>4. CASE EndAudit(h) \/ Respond(h)
    BY <2>4, QuietFile DEF EndAudit, NotifyReturned, Respond, CancelContext
  <2>5. CASE WriteRepo(h) \/ ReadBack(h) \/ OnChanged(h) \/ SaveSnapshot(h) \/ Saved(h)
    BY <2>5, QuietFile DEF WriteRepo, ReadBack, OnChanged, SaveSnapshot, Saved, auditVars
  <2> QED BY <1>2, <2>2, <2>3, <2>4, <2>5 DEF HandlerStep
<1>3. CASE DispatcherStep
  <2>1. Dispatch /\ Dispatcher \in Publishers
    BY <1>3 DEF DispatcherStep, Publishers
  <2> QED BY <2>1, ReceiveFile, CloseFile, SinkFile, ReturnFile DEF Dispatch
<1>4. CASE TickerStep \/ Boot \/ UNCHANGED vars
  BY <1>4, QuietFile DEF TickerStep, Tick, Boot, vars, auditVars
<1>5. CASE Crash \/ Exit
  <2>1. AuditStart
    BY <1>5 DEF Crash, Exit, ProcessEnds
  <2> QED BY <2>1, FreshFile DEF FileInv, Reliable
<1>6. CASE ServeFails \/ CloseStep
  BY <1>6, QuietFile, CloseFile DEF ServeFails, CloseStep, auditVars
<1> QED BY <1>1, <1>2, <1>3, <1>4, <1>5, <1>6 DEF Next

(* The invariant of the file sink holds in every reachable state.          *)
LEMMA FileHolds == Spec => []FileInv
<1>1. Init => FileInv
  BY FreshFile DEF Init, FileInv
<1> QED BY <1>1, InitTrail, NextTrail, NextFile, Invariant, PTL DEF Spec

(* Whatever the dispatcher took reaches a file sink that does not fail,    *)
(* before Close forgets the channel.                                       *)
THEOREM TakenAreRecorded == Spec => []TakenReachFile
<1>1. IInv /\ TrailInv /\ FileInv => TakenReachFile
  <2> SUFFICES ASSUME IInv, TrailInv, FileInv, Reliable, NEW i \in DOMAIN taken
               PROVE  \/ taken[i] \in ToSet(delivered["file"])
                      \/ queueOpen /\ pub[Dispatcher].evt = taken[i]
    BY DEF TakenReachFile, Reliable
  <2>1. taken[i] # NoEvent
    BY AuditAssumption DEF IInv, AuditInv, AuditTypeOK
  <2>2. CASE In(taken[i], delivered["file"])
    BY <2>2 DEF In, ToSet
  <2>3. CASE pub[Dispatcher].evt = taken[i]
    <3>1. dispatcher = "publish"
      BY <2>1, <2>3 DEF TrailInv, PublishFits
    <3> QED BY <2>3, <3>1 DEF FileInv, CloseWaits
  <2> QED BY <2>2, <2>3 DEF FileInv, TakenKept
<1> QED BY <1>1, FileHolds, InitTrail, NextTrail, Invariant, PTL DEF Spec

-----------------------------------------------------------------------------
(* No event vanishes.  An event is held if it is in the channel, with the  *)
(* dispatcher, recorded in the file or counted as dropped.                 *)
Held(r) ==
    \/ In(r, queue) \/ r \in dropped \/ In(r, delivered["file"])
    \/ pub[Dispatcher].evt = r

(* The handler is through with the audit of its write.                     *)
Passed(h) == notify[h] = "done" \/ pc[h] \in {"snapshot", "saving", "respond"}

(* What handlers have passed on or answered is held.                       *)
EventsKept ==
    /\ \A h \in Handlers : Passed(h) => Held(rid[h])
    /\ \A r \in DOMAIN reqs : reqs[r].answer = "ok" => Held(r)

(* So it is in the life of the first process, Close included.              *)
LossInv ==
    /\ crashes = 0 => up = "up"
    /\ Reliable /\ FirstLife => EventsKept

HeldStays == \A r \in Nat : Held(r) => Held(r)'

(* A step that lets go of no event keeps the invariant, if what handlers   *)
(* newly pass on or answer is held.                                        *)
LEMMA LossKept ==
    ASSUME IInv, EventsKept, HeldStays,
           \A h \in Handlers :
             Passed(h)' => (Passed(h) /\ rid'[h] = rid[h]) \/ Held(rid[h])',
           \A r \in DOMAIN reqs' :
             reqs'[r].answer = "ok" => (r \in DOMAIN reqs /\ reqs[r].answer = "ok") \/ Held(r)'
    PROVE  EventsKept'
<1>1. /\ \A h \in Handlers : Passed(h) => Held(rid[h])
      /\ \A r \in DOMAIN reqs : reqs[r].answer = "ok" => Held(r)
  BY DEF EventsKept
<1>2. rid \in [Handlers -> Nat] /\ DOMAIN reqs \subseteq Nat
  BY RequestsTyped
<1>3. \A h \in Handlers : Passed(h)' => Held(rid[h])'
  BY <1>1, <1>2 DEF HeldStays
<1>4. \A r \in DOMAIN reqs' : reqs'[r].answer = "ok" => Held(r)'
  BY <1>1, <1>2 DEF HeldStays
<1> QED BY <1>3, <1>4 DEF EventsKept

(* Steps beside the audit trail hold all events.                           *)
LEMMA HeldBeside ==
    ASSUME UNCHANGED <<queue, dropped, delivered, pub>>
    PROVE  HeldStays
BY DEF HeldStays, Held, In

(* At the start nothing has been answered.                                 *)
LEMMA InitLoss == Init => LossInv
<1> SUFFICES ASSUME Init PROVE LossInv
  OBVIOUS
<1>1. /\ pc = [h \in Handlers |-> "idle"] /\ notify = [h \in Handlers |-> "no"]
      /\ reqs = << >> /\ up = "up"
  BY DEF Init, AuditInit
<1> QED BY <1>1 DEF LossInv, EventsKept, Passed

(* Requests arrive and write without having passed anything on.            *)
LEMMA ArrivalLoss ==
    ASSUME IInv, TrailInv, EventsKept, NEW h \in Handlers,
           \/ \E kind, ms : \E l \in {"update", "write"} : pc[h] = "idle" /\ Accept(h, kind, ms, l)
           \/ \E kind : Refuse(kind)
    PROVE  EventsKept'
<1>1. /\ UNCHANGED <<queue, dropped, delivered, pub, notify>>
      /\ \E kind : \E a \in {"pending", "refused"} : reqs' = Append(reqs, Request(kind, a))
  BY DEF Accept, Refuse, OpenContext, auditVars
<1>2. HeldStays
  BY <1>1, HeldBeside
<1>3. \A r \in DOMAIN reqs' : reqs'[r].answer = "ok" => r \in DOMAIN reqs /\ reqs[r].answer = "ok"
  <2>1. PICK kind, a : a \in {"pending", "refused"} /\ reqs' = Append(reqs, Request(kind, a))
    BY <1>1
  <2>2. Request(kind, a).answer = a
    BY DEF Request
  <2>3. reqs \in Seq(RequestRecords)
    BY RequestsTyped
  <2>4. /\ Len(reqs) \in Nat /\ DOMAIN reqs = 1 .. Len(reqs) /\ DOMAIN reqs' = 1 .. Len(reqs) + 1
        /\ reqs'[Len(reqs) + 1] = Request(kind, a) /\ \A r \in 1 .. Len(reqs) : reqs'[r] = reqs[r]
    BY <2>1, <2>3
  <2>5. \A r \in 1 .. Len(reqs) + 1 : r \in 1 .. Len(reqs) \/ r = Len(reqs) + 1
    BY <2>4
  <2> QED BY <2>1, <2>2, <2>4, <2>5
<1>4. \A g \in Handlers : Passed(g)' => Passed(g) /\ rid'[g] = rid[g]
  <2>1. CASE \E kind : Refuse(kind)
    BY <2>1 DEF Refuse, Passed, auditVars
  <2>2. CASE \E kind, ms : \E l \in {"update", "write"} : pc[h] = "idle" /\ Accept(h, kind, ms, l)
    <3>1. /\ \E l \in {"update", "write"} : pc' = [pc EXCEPT ![h] = l]
          /\ \E r : rid' = [rid EXCEPT ![h] = r]
          /\ pc[h] = "idle" /\ notify[h] = "no"
      BY <2>2 DEF Accept, Goto, TrailInv, HandlersFit
    <3>2. /\ pc'[h] \in {"update", "write"} /\ \A g \in Handlers \ {h} : pc'[g] = pc[g] /\ rid'[g] = rid[g]
      BY <3>1 DEF IInv, ServerTypeOK
    <3> QED BY <1>1, <3>1, <3>2 DEF Passed
  <2> QED BY <2>1, <2>2
<1> QED BY <1>2, <1>3, <1>4, LossKept

(* A handler moves outside notifyAudit.                                    *)
LEMMA MoveLoss ==
    ASSUME IInv, TrailInv, EventsKept, NEW h \in Handlers, NEW l,
           pc' = [pc EXCEPT ![h] = l], l \in {"snapshot", "saving", "respond"} => Passed(h),
           UNCHANGED <<rid, auditVars>>,
           \A r \in DOMAIN reqs' : reqs'[r].answer = "ok" => r \in DOMAIN reqs /\ reqs[r].answer = "ok"
    PROVE  EventsKept'
<1>1. UNCHANGED <<queue, dropped, delivered, pub, notify>>
  BY DEF auditVars
<1>2. HeldStays
  BY <1>1, HeldBeside
<1>3. pc'[h] = l /\ \A g \in Handlers \ {h} : pc'[g] = pc[g]
  BY DEF IInv, ServerTypeOK
<1>4. \A g \in Handlers : Passed(g)' => Passed(g) /\ rid'[g] = rid[g]
  BY <1>1, <1>3 DEF Passed
<1> QED BY <1>2, <1>4, LossKept

(* Steps that change neither handlers, requests nor the audit trail.       *)
LEMMA IdleLoss ==
    ASSUME IInv, EventsKept,
           UNCHANGED <<pc, rid, reqs, queue, dropped, delivered, pub, notify>>
    PROVE  EventsKept'
<1>1. HeldStays
  BY HeldBeside
<1> QED BY <1>1, LossKept DEF Passed

(* The write changes what the request wrote, not its answer.               *)
LEMMA WriteLoss ==
    ASSUME IInv, TrailInv, EventsKept, NEW h \in Handlers, WriteRepo(h)
    PROVE  EventsKept'
<1>1. /\ \E l \in {"audit", "readback"} : pc' = [pc EXCEPT ![h] = l] /\ pc[h] \in {"update", "write"}
      /\ reqs' = [reqs EXCEPT ![rid[h]].ver = Len(hist) + 1] /\ UNCHANGED <<rid, auditVars>>
  BY DEF WriteRepo, Goto
<1>2. rid[h] \in DOMAIN reqs
  BY <1>1 DEF TrailInv, HandlersFit
<1>3. DOMAIN reqs' = DOMAIN reqs /\ \A r \in DOMAIN reqs : reqs'[r].answer = reqs[r].answer
  <2>1. reqs' = [reqs EXCEPT ![rid[h]] = [reqs[rid[h]] EXCEPT !.ver = Len(hist) + 1]]
    BY <1>1
  <2>2. reqs \in Seq(RequestRecords) /\ \A q \in DOMAIN reqs : reqs[q] \in RequestRecords
    BY RequestsTyped
  <2>3. [reqs[rid[h]] EXCEPT !.ver = Len(hist) + 1].answer = reqs[rid[h]].answer
    BY <1>2, <2>2 DEF RequestRecords
  <2>4. DOMAIN reqs' = DOMAIN reqs /\ \A q \in DOMAIN reqs \ {rid[h]} : reqs'[q] = reqs[q]
    BY <1>2, <2>1, <2>2
  <2>5. reqs'[rid[h]] = [reqs[rid[h]] EXCEPT !.ver = Len(hist) + 1]
    BY <1>2, <2>1, <2>2
  <2> QED BY <2>3, <2>4, <2>5
<1> QED BY <1>1, <1>3, MoveLoss

(* The handler enters notifyAudit with its event still in hand.            *)
LEMMA BeginAuditLoss ==
    ASSUME IInv, TrailInv, EventsKept, Reliable, NEW h \in Handlers, BeginAudit(h)
    PROVE  EventsKept'
<1>1. PICK n \in {"send", "publish"} : notify' = [notify EXCEPT ![h] = n]
  BY ReliableSinks DEF BeginAudit, NotifyAudit
<1>2. /\ pc' = [pc EXCEPT ![h] = "auditing"]
      /\ UNCHANGED <<rid, reqs, queue, dropped, delivered>>
      /\ pub' = pub \/ pub' = [pub EXCEPT ![h] = [evt |-> rid[h], next |-> 1]]
  BY DEF BeginAudit, Goto, NotifyAudit
<1>3. pub'[Dispatcher] = pub[Dispatcher]
  BY <1>2, AuditAssumption DEF IInv, AuditInv, AuditTypeOK, Publishers
<1>4. HeldStays
  BY <1>2, <1>3 DEF HeldStays, Held, In
<1>5. /\ pc'[h] = "auditing" /\ \A g \in Handlers \ {h} : pc'[g] = pc[g]
      /\ notify'[h] # "done" /\ \A g \in Handlers \ {h} : notify'[g] = notify[g]
  BY <1>1, <1>2 DEF IInv, ServerTypeOK, AuditInv, AuditTypeOK
<1>6. \A g \in Handlers : Passed(g)' => Passed(g) /\ rid'[g] = rid[g]
  BY <1>2, <1>5 DEF Passed
<1> QED BY <1>2, <1>4, <1>6, LossKept

(* An event the channel does not accept is counted.                        *)
LEMMA EnqueueLoss ==
    ASSUME IInv, EventsKept, NEW h \in Handlers, Enqueue(h, rid[h]),
           UNCHANGED <<pc, rid, reqs>>
    PROVE  EventsKept'
<1>1. /\ UNCHANGED <<delivered, pub>> /\ notify' = [notify EXCEPT ![h] = "done"]
      /\ \/ queue' = Append(queue, rid[h]) /\ dropped' = dropped
         \/ queue' = queue /\ dropped' = dropped \cup {rid[h]}
  BY DEF Enqueue
<1>2. queue \in Seq(Nat) /\ rid[h] \in Nat
  BY RequestsTyped DEF IInv, AuditInv, AuditTypeOK
<1>3. In(rid[h], queue') \/ rid[h] \in dropped'
  <2>1. CASE queue' = Append(queue, rid[h])
    <3>1. Len(queue) + 1 \in DOMAIN queue' /\ queue'[Len(queue) + 1] = rid[h]
      BY <1>2, <2>1
    <3> QED BY <3>1 DEF In
  <2> QED BY <1>1, <2>1
<1>4. \A r : In(r, queue) => In(r, queue')
  <2>1. CASE queue' = Append(queue, rid[h])
    <3>1. \A i \in DOMAIN queue : i \in DOMAIN queue' /\ queue'[i] = queue[i]
      BY <1>2, <2>1
    <3> QED BY <3>1 DEF In
  <2> QED BY <1>1, <2>1
<1>5. HeldStays
  BY <1>1, <1>4 DEF HeldStays, Held, In
<1>6. Held(rid[h])'
  BY <1>3 DEF Held
<1>7. notify'[h] = "done" /\ \A g \in Handlers \ {h} : notify'[g] = notify[g]
  BY <1>1 DEF IInv, AuditInv, AuditTypeOK
<1>8. \A g \in Handlers : Passed(g)' => Passed(g) \/ Held(rid[g])'
  BY <1>6, <1>7 DEF Passed
<1> QED BY <1>5, <1>8, LossKept

(* The dispatcher is done with one event when it takes the next.           *)
LEMMA ReceiveLoss ==
    ASSUME IInv, TrailInv, EventsKept, Receive, UNCHANGED <<pc, rid, reqs>>
    PROVE  EventsKept'
<1>1. /\ UNCHANGED <<delivered, notify, dropped>> /\ queue # << >>
      /\ queue' = Tail(queue) /\ dispatcher = "select"
      /\ pub' = [pub EXCEPT ![Dispatcher] = [evt |-> Head(queue), next |-> 1]]
  BY DEF Receive
<1>2. pub[Dispatcher].evt = NoEvent
  BY <1>1 DEF TrailInv, PublishFits
<1>3. pub'[Dispatcher].evt = Head(queue) /\ pub'[Dispatcher].next = 1
  BY <1>1 DEF IInv, AuditInv, AuditTypeOK, Publishers
<1>4. queue \in Seq(Nat)
  BY DEF IInv, AuditInv, AuditTypeOK
<1>5. ASSUME NEW r, In(r, queue) PROVE r = Head(queue) \/ In(r, queue')
  <2>1. PICK i \in DOMAIN queue : queue[i] = r
    BY <1>5 DEF In
  <2>2. CASE i = 1
    BY <1>4, <2>1, <2>2
  <2>3. CASE i # 1
    <3>1. i - 1 \in DOMAIN queue' /\ queue'[i - 1] = queue[i]
      BY <1>1, <1>4, <2>3
    <3> QED BY <2>1, <3>1 DEF In
  <2> QED BY <2>2, <2>3
<1>6. HeldStays
  BY <1>1, <1>2, <1>3, <1>5, AuditAssumption DEF HeldStays, Held
<1> QED BY <1>1, <1>6, LossKept DEF Passed

(* What a sink records is held.                                            *)
LEMMA SinkLoss ==
    ASSUME IInv, EventsKept, Reliable, NEW x \in Publishers, NotifySink(x),
           UNCHANGED <<pc, rid, reqs>>
    PROVE  EventsKept'
<1>1. UNCHANGED <<queue, dropped, notify>>
  BY DEF NotifySink
<1>2. pub'[Dispatcher].evt = pub[Dispatcher].evt
  BY SinkGrows DEF Publishers
<1>3. HeldStays
  BY <1>1, <1>2, SinkGrows DEF HeldStays, Held
<1> QED BY <1>1, <1>3, LossKept DEF Passed

(* A Publish of the dispatcher, or of a handler itself, has been at the    *)
(* file sink when it returns.                                              *)
LEMMA ReturnLoss ==
    ASSUME IInv, TrailInv, FileInv, EventsKept, Reliable, NEW x \in Publishers,
           PublishReturned(x), UNCHANGED <<pc, rid, reqs>>
    PROVE  EventsKept'
<1>1. /\ UNCHANGED <<queue, dropped, delivered>> /\ pub[x].evt # NoEvent
      /\ pub' = [pub EXCEPT ![x] = NotPublishing]
      /\ x = Dispatcher => UNCHANGED notify
      /\ x # Dispatcher => notify' = [notify EXCEPT ![x] = "done"]
  BY DEF PublishReturned
<1>2. In(pub[x].evt, delivered["file"])
  BY ReturnReached
<1>3. \A y \in Publishers \ {x} : pub'[y] = pub[y]
  BY <1>1 DEF IInv, AuditInv, AuditTypeOK
<1>4. HeldStays
  BY <1>1, <1>2, <1>3 DEF HeldStays, Held, In, Publishers
<1>5. x \in Handlers => Held(rid[x])'
  <2>1. x \in Handlers => pub[x].evt = rid[x]
    BY <1>1 DEF TrailInv, HandlersFit
  <2> QED BY <1>1, <1>2, <2>1 DEF Held, In
<1>6. \A g \in Handlers : notify'[g] = notify[g] \/ (x \in Handlers /\ g = x)
  BY <1>1 DEF IInv, AuditInv, AuditTypeOK, Publishers
<1>7. \A g \in Handlers : Passed(g)' => (Passed(g) /\ rid'[g] = rid[g]) \/ Held(rid[g])'
  BY <1>5, <1>6 DEF Passed
<1> QED BY <1>4, <1>7, LossKept

(* The handler leaves notifyAudit with its event held.                     *)
LEMMA EndAuditLoss ==
    ASSUME IInv, EventsKept, NEW h \in Handlers, EndAudit(h)
    PROVE  EventsKept'
<1>1. /\ UNCHANGED <<rid, reqs, queue, dropped, delivered, pub>>
      /\ notify[h] = "done" /\ notify' = [notify EXCEPT ![h] = "no"]
      /\ \E l : pc' = [pc EXCEPT ![h] = l]
  BY DEF EndAudit, Goto, NotifyReturned
<1>2. HeldStays
  BY <1>1, HeldBeside
<1>3. /\ \A g \in Handlers \ {h} : pc'[g] = pc[g] /\ notify'[g] = notify[g]
      /\ notify'[h] = "no"
  BY <1>1 DEF IInv, ServerTypeOK, AuditInv, AuditTypeOK
<1>4. \A g \in Handlers : Passed(g)' => Passed(g) /\ rid'[g] = rid[g]
  BY <1>1, <1>3 DEF Passed
<1> QED BY <1>1, <1>2, <1>4, LossKept

(* A write answered 200 was passed on before.                              *)
LEMMA RespondLoss ==
    ASSUME IInv, TrailInv, EventsKept, NEW h \in Handlers, Respond(h)
    PROVE  EventsKept'
<1>1. PICK a \in {"ok", "notfound"} :
        /\ reqs' = [reqs EXCEPT ![rid[h]].answer = a]
        /\ a = "ok" => pc[h] = "respond"
  BY DEF Respond
<1>2. /\ pc[h] \in {"respond", "notfound"} /\ pc' = [pc EXCEPT ![h] = "idle"]
      /\ rid' = [rid EXCEPT ![h] = 0]
      /\ UNCHANGED <<queue, dropped, delivered, pub, notify>>
  BY DEF Respond, Goto, CancelContext
<1>3. HeldStays
  BY <1>2, HeldBeside
<1>4. rid[h] \in DOMAIN reqs /\ notify[h] = "no"
  BY <1>2 DEF TrailInv, HandlersFit
<1>5. /\ DOMAIN reqs' = DOMAIN reqs /\ reqs'[rid[h]].answer = a
      /\ \A r \in DOMAIN reqs \ {rid[h]} : reqs'[r] = reqs[r]
  <2>1. reqs' = [reqs EXCEPT ![rid[h]] = [reqs[rid[h]] EXCEPT !.answer = a]]
    BY <1>1
  <2>2. reqs \in Seq(RequestRecords) /\ \A q \in DOMAIN reqs : reqs[q] \in RequestRecords
    BY RequestsTyped
  <2>3. [reqs[rid[h]] EXCEPT !.answer = a].answer = a
    BY <1>4, <2>2 DEF RequestRecords
  <2>4. DOMAIN reqs' = DOMAIN reqs /\ \A q \in DOMAIN reqs \ {rid[h]} : reqs'[q] = reqs[q]
    BY <1>4, <2>1, <2>2
  <2>5. reqs'[rid[h]] = [reqs[rid[h]] EXCEPT !.answer = a]
    BY <1>4, <2>1, <2>2
  <2> QED BY <2>3, <2>4, <2>5
<1>6. \A r \in DOMAIN reqs : r = rid[h] /\ a = "ok" => Held(r)'
  <2>1. DOMAIN reqs \subseteq Nat
    BY RequestsTyped
  <2>2. a = "ok" => Held(rid[h])
    BY <1>1 DEF EventsKept, Passed
  <2> QED BY <1>3, <2>1, <2>2 DEF HeldStays
<1>7. /\ pc'[h] = "idle" /\ \A g \in Handlers \ {h} : pc'[g] = pc[g] /\ rid'[g] = rid[g]
  BY <1>2 DEF IInv, ServerTypeOK
<1>8. \A g \in Handlers : Passed(g)' => Passed(g) /\ rid'[g] = rid[g]
  BY <1>2, <1>4, <1>7 DEF Passed
<1>9. \A r \in DOMAIN reqs' : reqs'[r].answer = "ok" => (r \in DOMAIN reqs /\ reqs[r].answer = "ok") \/ Held(r)'
  BY <1>5, <1>6
<1> QED BY <1>3, <1>8, <1>9, LossKept

(* Every step that does not end the process keeps all events.              *)
LEMMA NextKept ==
    ASSUME IInv, TrailInv, FileInv, EventsKept, Reliable, [Next]_vars, ~Crash, ~Exit, ~Boot
    PROVE  EventsKept'
<1>1. ASSUME NEW h \in Handlers, NEW b \in Batches, UpsertBatch(h, b) PROVE EventsKept'
  BY <1>1, ArrivalLoss DEF UpsertBatch, Arrives
<1>2. ASSUME NEW h \in Handlers, NEW m \in Singles, Upsert(h, m) PROVE EventsKept'
  BY <1>2, ArrivalLoss DEF Upsert, Arrives
<1>3. ASSUME NEW h \in Handlers, ClientGone(h) PROVE EventsKept'
  BY <1>3, IdleLoss DEF ClientGone, CancelContext, serverVars
<1>4. ASSUME NEW h \in Handlers, HandlerStep(h) PROVE EventsKept'
  <2>1. CASE WriteRepo(h) \/ BeginAudit(h) \/ EndAudit(h) \/ Respond(h)
    BY <2>1, WriteLoss, BeginAuditLoss, EndAuditLoss, RespondLoss
  <2>2. CASE AuditStep(h)
    <3>1. h \in Publishers /\ UNCHANGED <<pc, rid, reqs>>
      BY <2>2 DEF AuditStep, Publishers, serverVars
    <3> QED BY <2>2, <3>1, EnqueueLoss, SinkLoss, ReturnLoss DEF AuditStep
  <2>3. CASE ReadBack(h)
    <3>1. PICK l \in {"audit", "notfound"} : pc' = [pc EXCEPT ![h] = l]
      BY <2>3 DEF ReadBack, Goto
    <3>2. UNCHANGED <<rid, reqs, auditVars>>
      BY <2>3 DEF ReadBack
    <3> QED BY <3>1, <3>2, MoveLoss
  <2>4. CASE OnChanged(h)
    <3>1. pc' = [pc EXCEPT ![h] = "saving"] /\ pc[h] = "snapshot" /\ UNCHANGED <<rid, reqs, auditVars>>
      BY <2>4 DEF OnChanged, Goto
    <3> QED BY <3>1, MoveLoss DEF Passed
  <2>5. CASE Saved(h)
    <3>1. pc' = [pc EXCEPT ![h] = "respond"] /\ pc[h] = "saving" /\ UNCHANGED <<rid, reqs, auditVars>>
      BY <2>5 DEF Saved, Goto
    <3> QED BY <3>1, MoveLoss DEF Passed
  <2>6. CASE SaveSnapshot(h)
    BY <2>6, IdleLoss DEF SaveSnapshot, serverVars, auditVars
  <2> QED BY <1>4, <2>1, <2>2, <2>3, <2>4, <2>5, <2>6 DEF HandlerStep
<1>5. CASE TickerStep
  BY <1>5, IdleLoss DEF TickerStep, Tick, serverVars, auditVars
<1>6. CASE DispatcherStep
  <2>1. Dispatch /\ UNCHANGED <<pc, rid, reqs>> /\ Dispatcher \in Publishers
    BY <1>6 DEF DispatcherStep, serverVars, Publishers
  <2>2. CASE Receive
    BY <2>1, <2>2, ReceiveLoss
  <2>3. CASE DispatcherExit
    BY <2>1, <2>3, IdleLoss DEF DispatcherExit
  <2> QED BY <2>1, <2>2, <2>3, SinkLoss, ReturnLoss DEF Dispatch
<1>7. CASE ServeFails \/ CloseStep
  BY <1>7, IdleLoss DEF ServeFails, CloseStep, CloseCancel, CloseForget, serverVars, auditVars
<1>8. CASE UNCHANGED vars
  BY <1>8, IdleLoss DEF vars, serverVars, auditVars
<1> QED BY <1>1, <1>2, <1>3, <1>4, <1>5, <1>6, <1>7, <1>8 DEF Next

(* The first process ends once, and only the end of a process or a start   *)
(* lets go of events.                                                      *)
LEMMA NextLoss == IInv /\ TrailInv /\ FileInv /\ LossInv /\ [Next]_vars => LossInv'
<1> SUFFICES ASSUME IInv, TrailInv, FileInv, LossInv, [Next]_vars PROVE LossInv'
  OBVIOUS
<1>1. crashes \in Nat /\ (crashes = 0 => up = "up")
  BY DEF IInv, ServerTypeOK, LossInv
<1>2. CASE Crash \/ Exit \/ Boot
  <2>1. /\ crashes' # 0 /\ up' # "closing"
    BY <1>1, <1>2 DEF Crash, Exit, Boot, ProcessEnds
  <2> QED BY <2>1 DEF LossInv, FirstLife
<1>3. CASE ServeFails
  <2>1. up' = "closing" /\ crashes' = crashes + 1
    BY <1>3 DEF ServeFails
  <2>2. FirstLife' => FirstLife
    BY <1>1, <2>1 DEF FirstLife
  <2>3. ~Crash /\ ~Exit /\ ~Boot
    BY <2>1 DEF Crash, Exit, Boot, ProcessEnds
  <2>4. Reliable /\ FirstLife' => EventsKept'
    BY <2>2, <2>3, NextKept DEF LossInv
  <2> QED BY <1>1, <2>1, <2>4 DEF LossInv, Reliable
<1>4. CASE ~(Crash \/ Exit \/ Boot \/ ServeFails)
  <2>1. UNCHANGED <<up, crashes>>
    BY <1>4 DEF Next, UpsertBatch, Upsert, Accept, Refuse, ClientGone, HandlerStep, WriteRepo,
                ReadBack, BeginAudit, AuditStep, EndAudit, OnChanged, SaveSnapshot, Saved, Respond,
                TickerStep, Tick, DispatcherStep, CloseStep, serverVars, vars
  <2>2. Reliable /\ FirstLife' => EventsKept'
    BY <1>4, <2>1, NextKept DEF LossInv, FirstLife
  <2> QED BY <1>1, <2>1, <2>2 DEF LossInv, Reliable
<1> QED BY <1>2, <1>3, <1>4

(* A write answered 200 whose event is neither on its way, in the file nor *)
(* counted as dropped does not exist while the process lives, and Close    *)
(* makes none.                                                             *)
THEOREM NoEventVanishes == Spec => []NoSilentLoss
<1>1. IInv /\ LossInv => NoSilentLoss
  <2> SUFFICES ASSUME IInv, LossInv, Reliable, FirstLife, NEW r \in Answered({"batch", "single"})
               PROVE  \/ r \in ToSet(queue) \cup dropped \cup ToSet(delivered["file"])
                      \/ pub[Dispatcher].evt = r
    BY DEF NoSilentLoss, Reliable
  <2>1. Held(r)
    BY DEF Answered, LossInv, EventsKept
  <2> QED BY <2>1 DEF Held, In, ToSet
<1> QED BY <1>1, FileHolds, InitTrail, NextTrail, InitLoss, NextLoss, Invariant, PTL DEF Spec

-----------------------------------------------------------------------------
(* One request at a time and no ticker: Saves do not overlap.              *)
Serial == (\A g, h \in Handlers : g = h) /\ ~TickerOn

(* The repository has never held a value that json.Encoder refuses.        *)
NeverNaN == \A i \in DOMAIN hist : Encodable(Flatten(hist[i]))

(* No request knows a version that has not been, and none is answered      *)
(* before its handler is done.                                             *)
VersionsFit ==
    /\ save[Ticker].pc = "idle"
    /\ fileVer <= Len(hist)
    /\ \A r \in DOMAIN reqs : reqs[r].ver <= Len(hist)
    /\ \A h \in Handlers : pc[h] # "idle" => reqs[rid[h]].answer = "pending"

(* A Save is of its handler's batch and not older than the file.           *)
SavesFit ==
    \A h \in Handlers : save[h].pc # "idle" =>
        /\ pc[h] = "saving" /\ save[h].ver <= Len(hist) /\ fileVer <= save[h].ver
        /\ reqs[rid[h]].ver <= save[h].ver

(* If nothing made a Save fail, what has been saved is in the file.        *)
FileKeepsUp ==
    /\ \A h \in Handlers : save[h].pc \notin {"cleanup", "failed"}
    /\ \A h \in Handlers : save[h].pc = "saved" => fileVer = save[h].ver
    /\ \A h \in Handlers : pc[h] = "respond" /\ reqs[rid[h]].kind = "batch" =>
         reqs[rid[h]].ver <= fileVer
    /\ \A r \in DOMAIN reqs : reqs[r].answer = "ok" /\ reqs[r].kind = "batch" =>
         reqs[r].ver <= fileVer

SerialInv == VersionsFit /\ SavesFit /\ (faults = 0 /\ NeverNaN => FileKeepsUp)

(* The types the invariant speaks of.                                      *)
LEMMA SerialTypes ==
    ASSUME IInv
    PROVE  /\ Len(hist) \in Nat /\ fileVer \in Nat /\ faults \in Nat
           /\ \A r \in DOMAIN reqs : reqs[r].ver \in Nat /\ reqs[r] \in RequestRecords
           /\ \A h \in Handlers : save[h].ver \in Nat /\ h \in Savers /\ h # Ticker
           /\ hist \in Seq(Stores) /\ reqs \in Seq(RequestRecords) /\ Ticker \in Savers
<1>1. fileVer \in Nat /\ faults \in Nat /\ \A p \in Savers : save[p].ver \in Nat
  <2>1. PersisterTypeOK
    BY DEF IInv, DiskInv
  <2>2. fileVer \in Nat /\ faults \in Nat
    BY <2>1, PersisterAssumption DEF PersisterTypeOK
  <2>3. save \in [Savers -> SaveRecords]
    BY <2>1 DEF PersisterTypeOK, SaveRecords
  <2> QED BY <2>2, <2>3 DEF SaveRecords
<1>2. hist \in Seq(Stores) /\ reqs \in Seq(RequestRecords) /\ Len(hist) \in Nat
  BY RequestsTyped DEF IInv, ServerTypeOK
<1>3. ASSUME NEW r \in DOMAIN reqs PROVE reqs[r].ver \in Nat /\ reqs[r] \in RequestRecords
  <2>1. reqs[r] \in RequestRecords
    BY <1>2
  <2> QED BY <2>1 DEF RequestRecords
<1>4. \A h \in Handlers : h \in Savers /\ h # Ticker
  BY SaversAre, ServerAssumption
<1> QED BY <1>1, <1>2, <1>3, <1>4, SaversAre

(* A handler moves on without saving.                                      *)
LEMMA MoveSerial ==
    ASSUME IInv, SerialInv, NEW h \in Handlers, NEW l, pc' = [pc EXCEPT ![h] = l],
           pc[h] \notin {"idle", "saving"}, l # "idle",
           l = "respond" => reqs[rid[h]].kind # "batch",
           UNCHANGED <<rid, reqs, hist, persisterVars>>
    PROVE  SerialInv'
<1>1. UNCHANGED <<fileVer, save, faults>>
  BY DEF persisterVars
<1>2. pc'[h] = l /\ \A g \in Handlers \ {h} : pc'[g] = pc[g]
  BY DEF IInv, ServerTypeOK
<1>3. VersionsFit'
  BY <1>1, <1>2 DEF SerialInv, VersionsFit
<1>4. SavesFit'
  BY <1>1, <1>2 DEF SerialInv, SavesFit
<1>5. FileKeepsUp => FileKeepsUp'
  BY <1>1, <1>2 DEF FileKeepsUp
<1>6. NeverNaN' => NeverNaN
  BY DEF NeverNaN
<1> QED BY <1>1, <1>3, <1>4, <1>5, <1>6 DEF SerialInv

(* A step of others.                                                       *)
LEMMA IdleSerial ==
    ASSUME SerialInv, UNCHANGED <<pc, rid, reqs, hist, persisterVars>>
    PROVE  SerialInv'
<1>1. UNCHANGED <<fileVer, save, faults>>
  BY DEF persisterVars
<1> QED BY <1>1 DEF SerialInv, VersionsFit, SavesFit, FileKeepsUp, NeverNaN

(* A request arrives.                                                      *)
LEMMA ArrivalSerial ==
    ASSUME IInv, TrailInv, SerialInv, NEW h \in Handlers, pc[h] = "idle",
           NEW kind, NEW ms, NEW l \in {"update", "write"},
           Accept(h, kind, ms, l) \/ Refuse(kind)
    PROVE  SerialInv'
<1>0. UNCHANGED <<hist, fileVer, save, faults>>
  BY DEF Accept, Refuse, persisterVars
<1>1. PICK a \in {"pending", "refused"} : reqs' = Append(reqs, Request(kind, a))
  BY DEF Accept, Refuse
<1>2. /\ Request(kind, a).ver = 0 /\ Request(kind, a).answer = a
      /\ \A q \in DOMAIN reqs : q \in DOMAIN reqs' /\ reqs'[q] = reqs[q]
      /\ \A q \in DOMAIN reqs' : q \in DOMAIN reqs \/ reqs'[q] = Request(kind, a)
  BY <1>1, SerialTypes DEF Request
<1>3. \A g \in Handlers : pc[g] # "idle" => rid[g] \in DOMAIN reqs
  BY DEF TrailInv, HandlersFit
<1>4. /\ \A g \in Handlers \ {h} : pc'[g] = pc[g] /\ rid'[g] = rid[g]
      /\ \/ pc'[h] = l /\ reqs'[rid'[h]] = Request(kind, "pending")
         \/ pc'[h] = "idle" /\ rid'[h] = rid[h]
  <2>1. CASE Accept(h, kind, ms, l)
    <3>1. /\ pc' = [pc EXCEPT ![h] = l] /\ rid' = [rid EXCEPT ![h] = Len(reqs) + 1]
          /\ reqs' = Append(reqs, Request(kind, "pending"))
      BY <2>1 DEF Accept, Goto
    <3>2. reqs'[Len(reqs) + 1] = Request(kind, "pending")
      BY <3>1, SerialTypes
    <3> QED BY <3>1, <3>2 DEF IInv, ServerTypeOK
  <2>2. CASE Refuse(kind)
    BY <2>2 DEF Refuse
  <2> QED BY <2>1, <2>2
<1>5. Request(kind, "pending").answer = "pending"
  BY DEF Request
<1>6. VersionsFit'
  BY <1>0, <1>2, <1>3, <1>4, <1>5, SerialTypes DEF SerialInv, VersionsFit
<1>7. SavesFit'
  BY <1>0, <1>2, <1>3, <1>4 DEF SerialInv, SavesFit
<1>8. FileKeepsUp => FileKeepsUp'
  <2> SUFFICES ASSUME FileKeepsUp PROVE FileKeepsUp'
    OBVIOUS
  <2>1. ASSUME NEW g \in Handlers, pc'[g] = "respond", reqs'[rid'[g]].kind = "batch"
        PROVE  reqs'[rid'[g]].ver <= fileVer
    BY <1>2, <1>3, <1>4, <2>1 DEF FileKeepsUp
  <2>2. ASSUME NEW r \in DOMAIN reqs', reqs'[r].answer = "ok", reqs'[r].kind = "batch"
        PROVE  reqs'[r].ver <= fileVer
    BY <1>2, <2>2 DEF FileKeepsUp
  <2> QED BY <1>0, <2>1, <2>2 DEF FileKeepsUp
<1>9. NeverNaN' => NeverNaN
  BY <1>0 DEF NeverNaN
<1> QED BY <1>0, <1>6, <1>7, <1>8, <1>9 DEF SerialInv

(* A repository that changes, at a start too.                              *)
LEMMA NaNBefore ==
    ASSUME hist \in Seq(Stores), NEW s \in Stores, hist' = Append(hist, s), NeverNaN'
    PROVE  NeverNaN
BY DEF NeverNaN

(* The handler writes; it has not been answered, and does not save yet.    *)
LEMMA WriteSerial ==
    ASSUME IInv, IInv', TrailInv, SerialInv, NEW h \in Handlers, WriteRepo(h)
    PROVE  SerialInv'
<1> DEFINE i == rid[h]
           n == Len(hist) + 1
<1>1. /\ pc[h] \in {"update", "write"} /\ \E l \in {"audit", "readback"} : pc' = [pc EXCEPT ![h] = l]
      /\ reqs' = [reqs EXCEPT ![i].ver = n] /\ hist' = Append(hist, store')
      /\ UNCHANGED <<rid, fileVer, save, faults>>
  BY DEF WriteRepo, Goto, persisterVars
<1>2. store' \in Stores /\ hist \in Seq(Stores) /\ Len(hist') = n /\ Len(hist) \in Nat
  BY <1>1, SerialTypes DEF IInv, ServerTypeOK
<1>3. i \in DOMAIN reqs /\ reqs[i].answer = "pending" /\ save[h].pc = "idle"
  BY <1>1 DEF TrailInv, HandlersFit, SerialInv, VersionsFit, SavesFit
<1>4. /\ DOMAIN reqs' = DOMAIN reqs /\ reqs'[i].ver = n /\ reqs'[i].answer = "pending"
      /\ \A q \in DOMAIN reqs \ {i} : reqs'[q] = reqs[q]
  <2>1. reqs[i] \in RequestRecords /\ reqs' = [reqs EXCEPT ![i] = [reqs[i] EXCEPT !.ver = n]]
    BY <1>1, <1>3, SerialTypes
  <2> HIDE DEF n
  <2>2. [reqs[i] EXCEPT !.ver = n].ver = n /\ [reqs[i] EXCEPT !.ver = n].answer = reqs[i].answer
    BY <2>1 DEF RequestRecords
  <2> QED BY <1>3, <2>1, <2>2, SerialTypes
<1>5. \A g \in Handlers \ {h} : pc[g] # "idle" => rid[g] \in DOMAIN reqs \ {i}
  BY <1>1 DEF TrailInv, HandlersFit
<1>6. pc'[h] \in {"audit", "readback"} /\ \A g \in Handlers \ {h} : pc'[g] = pc[g]
  BY <1>1 DEF IInv, ServerTypeOK
<1> HIDE DEF i, n
<1>7. Len(hist) <= n /\ n \in Nat
  BY <1>2 DEF n
<1>8. VersionsFit'
  <2>1. ASSUME NEW r \in DOMAIN reqs' PROVE reqs'[r].ver <= n
    <3>1. CASE r = i
      BY <1>4, <1>7, <3>1
    <3>2. CASE r # i
      <4>1. reqs'[r].ver <= Len(hist) /\ reqs'[r].ver \in Nat
        BY <1>4, <3>2, SerialTypes DEF SerialInv, VersionsFit
      <4> QED BY <1>2, <1>7, <4>1
    <3> QED BY <3>1, <3>2
  <2>2. fileVer' <= n
    BY <1>1, <1>2, <1>7, SerialTypes DEF SerialInv, VersionsFit
  <2>3. ASSUME NEW g \in Handlers, pc'[g] # "idle" PROVE reqs'[rid'[g]].answer = "pending"
    <3>1. CASE g = h
      BY <1>1, <1>4, <3>1 DEF i
    <3>2. CASE g # h
      BY <1>1, <1>4, <1>5, <1>6, <2>3, <3>2 DEF SerialInv, VersionsFit
    <3> QED BY <3>1, <3>2
  <2> QED BY <1>1, <1>2, <2>1, <2>2, <2>3 DEF SerialInv, VersionsFit
<1>9. SavesFit'
  <2> SUFFICES ASSUME NEW g \in Handlers, save'[g].pc # "idle"
               PROVE  /\ pc'[g] = "saving" /\ save'[g].ver <= Len(hist') /\ fileVer' <= save'[g].ver
                      /\ reqs'[rid'[g]].ver <= save'[g].ver
    BY DEF SavesFit
  <2>1. g # h /\ pc[g] = "saving" /\ save[g].ver <= Len(hist) /\ fileVer <= save[g].ver
        /\ reqs[rid[g]].ver <= save[g].ver
    BY <1>1, <1>3 DEF SerialInv, SavesFit
  <2>2. pc'[g] = "saving" /\ rid[g] \in DOMAIN reqs \ {i}
    BY <1>5, <1>6, <2>1
  <2>3. save[g].ver \in Nat /\ save[g].ver <= n
    BY <1>2, <1>7, <2>1, SerialTypes
  <2> QED BY <1>1, <1>2, <1>4, <2>1, <2>2, <2>3
<1>10. FileKeepsUp => FileKeepsUp'
  <2> SUFFICES ASSUME FileKeepsUp PROVE FileKeepsUp'
    OBVIOUS
  <2>1. ASSUME NEW g \in Handlers, pc'[g] = "respond", reqs'[rid'[g]].kind = "batch"
        PROVE  reqs'[rid'[g]].ver <= fileVer'
    BY <1>1, <1>4, <1>5, <1>6, <2>1 DEF FileKeepsUp
  <2>2. ASSUME NEW r \in DOMAIN reqs', reqs'[r].answer = "ok", reqs'[r].kind = "batch"
        PROVE  reqs'[r].ver <= fileVer'
    BY <1>1, <1>4, <2>2 DEF FileKeepsUp
  <2> QED BY <1>1, <2>1, <2>2 DEF FileKeepsUp
<1>11. NeverNaN' => NeverNaN
  BY <1>1, <1>2, NaNBefore
<1> QED BY <1>1, <1>8, <1>9, <1>10, <1>11 DEF SerialInv

(* onChanged takes the snapshot of the newest version.                     *)
LEMMA OnChangedSerial ==
    ASSUME IInv, TrailInv, SerialInv, NEW h \in Handlers, OnChanged(h)
    PROVE  SerialInv'
<1>1. /\ pc[h] = "snapshot" /\ pc' = [pc EXCEPT ![h] = "saving"] /\ BeginSave(h, store, Len(hist))
      /\ UNCHANGED <<rid, reqs, hist, fileVer, faults>>
  BY DEF OnChanged, Goto, BeginSave, diskVars
<1>2. pc'[h] = "saving" /\ \A g \in Handlers \ {h} : pc'[g] = pc[g]
  BY <1>1 DEF IInv, ServerTypeOK
<1>3. save'[h].pc = "create" /\ save'[h].ver = Len(hist) /\ \A p \in Savers \ {h} : save'[p] = save[p]
  <2>1. save \in [Savers -> SaveRecords] /\ h \in Savers
    BY SerialTypes DEF IInv, DiskInv, PersisterTypeOK, SaveRecords
  <2> QED BY <1>1, <2>1 DEF BeginSave
<1>4. \A g \in Handlers : g \in Savers /\ g # Ticker
  BY SerialTypes
<1>5. rid[h] \in DOMAIN reqs
  BY <1>1 DEF TrailInv, HandlersFit
<1>6. VersionsFit'
  BY <1>1, <1>2, <1>3, <1>4, SerialTypes DEF SerialInv, VersionsFit
<1>7. SavesFit'
  <2> SUFFICES ASSUME NEW g \in Handlers, save'[g].pc # "idle"
               PROVE  /\ pc'[g] = "saving" /\ save'[g].ver <= Len(hist') /\ fileVer' <= save'[g].ver
                      /\ reqs'[rid'[g]].ver <= save'[g].ver
    BY DEF SavesFit
  <2>1. CASE g = h
    BY <1>1, <1>2, <1>3, <1>5, <2>1, SerialTypes DEF SerialInv, VersionsFit
  <2>2. CASE g # h
    BY <1>1, <1>2, <1>3, <1>4, <2>2 DEF SerialInv, SavesFit
  <2> QED BY <2>1, <2>2
<1>8. FileKeepsUp => FileKeepsUp'
  BY <1>1, <1>2, <1>3, <1>4 DEF FileKeepsUp
<1>9. NeverNaN' => NeverNaN
  BY <1>1 DEF NeverNaN
<1> QED BY <1>1, <1>6, <1>7, <1>8, <1>9 DEF SerialInv

(* A step of Save: it fails only for a NaN or a fault, and the file is not *)
(* older after the rename than before.                                     *)
LEMMA SaveSerial ==
    ASSUME Serial, IInv, TrailInv, SerialInv, NEW h \in Handlers, SaveSnapshot(h)
    PROVE  SerialInv'
<1>0. UNCHANGED <<pc, rid, reqs, hist>> /\ pc[h] = "saving" /\ SaveStep(h) /\ \A g \in Handlers : g = h
  BY DEF SaveSnapshot, serverVars, Serial
<1>1. /\ h \in Savers /\ h # Ticker /\ Ticker \in Savers
      /\ save \in [Savers -> SaveRecords] /\ save[h] \in SaveRecords
  BY SerialTypes DEF IInv, DiskInv, PersisterTypeOK, SaveRecords
<1>2. /\ save[h].pc \in {"create", "encode", "rename", "cleanup"} /\ save'[Ticker] = save[Ticker]
      /\ save'[h].ver = save[h].ver /\ save'[h].pc \in {"encode", "rename", "cleanup", "saved", "failed"}
  BY <1>0, <1>1 DEF SaveStep, CreateTemp, Encode, EncodeRefused, Rename, Cleanup, SaveFault, SaveAt,
                    SaveGoto, SaveRecords
<1>3. \/ save'[h].pc = "saved" /\ fileVer' = save[h].ver
      \/ save'[h].pc # "saved" /\ fileVer' = fileVer
  BY <1>0, <1>1 DEF SaveStep, CreateTemp, Encode, EncodeRefused, Rename, Cleanup, SaveFault, SaveAt,
                    SaveGoto, diskVars, SaveRecords
<1>4. /\ save[h].ver <= Len(hist) /\ fileVer <= save[h].ver /\ reqs[rid[h]].ver <= save[h].ver
      /\ save[h].ver \in Nat /\ fileVer \in Nat /\ Len(hist) \in Nat
  BY <1>2, SerialTypes DEF SerialInv, SavesFit
<1>5. fileVer <= fileVer' /\ fileVer' <= save[h].ver /\ fileVer' \in Nat /\ fileVer' <= Len(hist)
  BY <1>3, <1>4
<1>6. VersionsFit'
  BY <1>0, <1>2, <1>5 DEF SerialInv, VersionsFit
<1>7. SavesFit'
  BY <1>0, <1>2, <1>4, <1>5 DEF SavesFit
<1>8. ASSUME faults' = 0, NeverNaN' PROVE FileKeepsUp'
  <2>1. NeverNaN
    BY <1>0, <1>8 DEF NeverNaN
  <2>2. faults = 0 /\ ~SaveFault(h)
    BY <1>0, <1>8, SerialTypes DEF SaveStep, CreateTemp, Encode, EncodeRefused, Rename, Cleanup,
                                   SaveFault
  <2>3. FileKeepsUp
    BY <2>1, <2>2 DEF SerialInv
  <2>4. ~Cleanup(h)
    BY <2>3 DEF FileKeepsUp, Cleanup, SaveAt
  <2>5. ~EncodeRefused(h)
    <3>1. save[h].pc = "encode" => save[h].ver \in DOMAIN hist /\ save[h].items = Flatten(hist[save[h].ver])
      BY <1>1 DEF IInv, DiskInv, SavesApart
    <3> QED BY <2>1, <3>1 DEF EncodeRefused, SaveAt, NeverNaN
  <2>6. save'[h].pc \notin {"cleanup", "failed"}
    BY <1>0, <1>1, <2>2, <2>4, <2>5 DEF SaveStep, CreateTemp, Encode, Rename, SaveGoto, SaveRecords
  <2>7. ASSUME NEW r \in DOMAIN reqs', reqs'[r].answer = "ok", reqs'[r].kind = "batch"
        PROVE  reqs'[r].ver <= fileVer'
    <3>1. reqs[r].ver <= fileVer /\ reqs[r].ver \in Nat
      BY <1>0, <2>3, <2>7, SerialTypes DEF FileKeepsUp
    <3> QED BY <1>0, <1>4, <1>5, <3>1
  <2> QED BY <1>0, <1>2, <1>3, <2>6, <2>7 DEF FileKeepsUp
<1> QED BY <1>6, <1>7, <1>8 DEF SerialInv

(* Save has returned; if nothing failed the batch is in the file.          *)
LEMMA SavedSerial ==
    ASSUME IInv, TrailInv, SerialInv, NEW h \in Handlers, Saved(h)
    PROVE  SerialInv'
<1>1. /\ pc[h] = "saving" /\ pc' = [pc EXCEPT ![h] = "respond"] /\ save[h].pc \in {"saved", "failed"}
      /\ save' = [save EXCEPT ![h] = NoSave] /\ UNCHANGED <<rid, reqs, hist, fileVer, faults>>
  BY DEF Saved, Goto, EndSave, SaveReturned, diskVars
<1>2. pc'[h] = "respond" /\ \A g \in Handlers \ {h} : pc'[g] = pc[g]
  BY <1>1 DEF IInv, ServerTypeOK
<1>3. save'[h].pc = "idle" /\ \A p \in Savers \ {h} : save'[p] = save[p]
  <2>1. save \in [Savers -> SaveRecords] /\ h \in Savers
    BY SerialTypes DEF IInv, DiskInv, PersisterTypeOK, SaveRecords
  <2> QED BY <1>1, <2>1 DEF NoSave
<1>4. \A g \in Handlers : g \in Savers /\ g # Ticker
  BY SerialTypes
<1>5. reqs[rid[h]].ver <= save[h].ver
  BY <1>1 DEF SerialInv, SavesFit
<1>6. VersionsFit'
  BY <1>1, <1>2, <1>3, <1>4, SerialTypes DEF SerialInv, VersionsFit
<1>7. SavesFit'
  BY <1>1, <1>2, <1>3, <1>4 DEF SerialInv, SavesFit
<1>8. FileKeepsUp => FileKeepsUp'
  <2> SUFFICES ASSUME FileKeepsUp PROVE FileKeepsUp'
    OBVIOUS
  <2>1. reqs[rid[h]].ver <= fileVer
    BY <1>1, <1>5 DEF FileKeepsUp
  <2> QED BY <1>1, <1>2, <1>3, <1>4, <2>1 DEF FileKeepsUp
<1>9. NeverNaN' => NeverNaN
  BY <1>1 DEF NeverNaN
<1> QED BY <1>1, <1>6, <1>7, <1>8, <1>9 DEF SerialInv

(* The answer: that of a batch comes after its Save.                       *)
LEMMA RespondSerial ==
    ASSUME IInv, TrailInv, SerialInv, NEW h \in Handlers, Respond(h)
    PROVE  SerialInv'
<1> DEFINE i == rid[h]
<1>1. PICK a \in {"ok", "notfound"} : /\ reqs' = [reqs EXCEPT ![i].answer = a]
                                      /\ a = "ok" => pc[h] = "respond"
  BY DEF Respond
<1>2. /\ pc[h] \in {"respond", "notfound"} /\ pc' = [pc EXCEPT ![h] = "idle"]
      /\ rid' = [rid EXCEPT ![h] = 0] /\ UNCHANGED <<hist, fileVer, save, faults>>
  BY DEF Respond, Goto, persisterVars
<1>3. i \in DOMAIN reqs /\ \A g \in Handlers \ {h} : pc[g] # "idle" => rid[g] \in DOMAIN reqs \ {i}
  BY <1>2 DEF TrailInv, HandlersFit
<1>4. /\ DOMAIN reqs' = DOMAIN reqs /\ reqs'[i].ver = reqs[i].ver /\ reqs'[i].kind = reqs[i].kind
      /\ reqs'[i].answer = a /\ \A q \in DOMAIN reqs \ {i} : reqs'[q] = reqs[q]
  <2>1. reqs[i] \in RequestRecords /\ reqs' = [reqs EXCEPT ![i] = [reqs[i] EXCEPT !.answer = a]]
    BY <1>1, <1>3, SerialTypes
  <2>2. /\ [reqs[i] EXCEPT !.answer = a].ver = reqs[i].ver
        /\ [reqs[i] EXCEPT !.answer = a].kind = reqs[i].kind
        /\ [reqs[i] EXCEPT !.answer = a].answer = a
    BY <2>1 DEF RequestRecords
  <2> QED BY <1>3, <2>1, <2>2, SerialTypes
<1>5. /\ pc'[h] = "idle" /\ \A g \in Handlers \ {h} : pc'[g] = pc[g] /\ rid'[g] = rid[g]
  BY <1>2 DEF IInv, ServerTypeOK
<1> HIDE DEF i
<1>6. VersionsFit'
  BY <1>2, <1>3, <1>4, <1>5 DEF SerialInv, VersionsFit
<1>7. SavesFit'
  BY <1>2, <1>3, <1>4, <1>5 DEF SerialInv, SavesFit
<1>8. FileKeepsUp => FileKeepsUp'
  <2> SUFFICES ASSUME FileKeepsUp PROVE FileKeepsUp'
    OBVIOUS
  <2>1. ASSUME NEW r \in DOMAIN reqs', reqs'[r].answer = "ok", reqs'[r].kind = "batch"
        PROVE  reqs'[r].ver <= fileVer
    <3>1. CASE r = i
      BY <1>1, <1>4, <2>1, <3>1 DEF FileKeepsUp, i
    <3>2. CASE r # i
      BY <1>4, <2>1, <3>2 DEF FileKeepsUp
    <3> QED BY <3>1, <3>2
  <2>2. ASSUME NEW g \in Handlers, pc'[g] = "respond", reqs'[rid'[g]].kind = "batch"
        PROVE  reqs'[rid'[g]].ver <= fileVer
    BY <1>3, <1>4, <1>5, <2>2 DEF FileKeepsUp
  <2> QED BY <1>2, <2>1, <2>2 DEF FileKeepsUp
<1>9. NeverNaN' => NeverNaN
  BY <1>2 DEF NeverNaN
<1> QED BY <1>2, <1>6, <1>7, <1>8, <1>9 DEF SerialInv

(* The process ends with what is in the file.                              *)
LEMMA ProcessEndsSerial ==
    ASSUME IInv, SerialInv, ProcessEnds
    PROVE  SerialInv'
<1>1. /\ \A h \in Handlers : pc'[h] = "idle"
      /\ \A p \in Savers : save'[p].pc = "idle"
      /\ UNCHANGED <<hist, fileVer, faults>>
  BY DEF ProcessEnds, PersisterCrash, NoSave
<1>2. DOMAIN reqs' = DOMAIN reqs
  BY DEF ProcessEnds
<1>3. ASSUME NEW r \in DOMAIN reqs
      PROVE  /\ reqs'[r].ver = reqs[r].ver /\ reqs'[r].kind = reqs[r].kind
             /\ reqs'[r].answer = "ok" => reqs[r].answer = "ok"
  <2>1. reqs[r] \in RequestRecords
    BY SerialTypes
  <2>2. reqs'[r] = IF reqs[r].answer = "pending" THEN [reqs[r] EXCEPT !.answer = "lost"] ELSE reqs[r]
    BY DEF ProcessEnds
  <2> QED BY <2>1, <2>2 DEF RequestRecords
<1>4. VersionsFit'
  BY <1>1, <1>2, <1>3, SerialTypes DEF SerialInv, VersionsFit
<1>5. SavesFit'
  BY <1>1, SerialTypes DEF SavesFit
<1>6. FileKeepsUp => FileKeepsUp'
  BY <1>1, <1>2, <1>3, SerialTypes DEF FileKeepsUp
<1>7. NeverNaN' => NeverNaN
  BY <1>1 DEF NeverNaN
<1> QED BY <1>1, <1>4, <1>5, <1>6, <1>7 DEF SerialInv

(* It starts with a version of its own.                                    *)
LEMMA BootSerial ==
    ASSUME IInv, IInv', SerialInv, Boot
    PROVE  SerialInv'
<1>1. /\ hist' = Append(hist, store') /\ UNCHANGED <<pc, rid, reqs, fileVer, save>>
      /\ faults' = faults \/ faults' = faults + 1
  BY DEF Boot, diskVars
<1>2. store' \in Stores /\ hist \in Seq(Stores) /\ Len(hist') = Len(hist) + 1 /\ Len(hist) \in Nat
  BY <1>1, SerialTypes DEF IInv, ServerTypeOK
<1>3. VersionsFit'
  BY <1>1, <1>2, SerialTypes DEF SerialInv, VersionsFit
<1>4. SavesFit'
  BY <1>1, <1>2, SerialTypes DEF SerialInv, SavesFit
<1>5. FileKeepsUp => FileKeepsUp'
  BY <1>1 DEF FileKeepsUp
<1>6. NeverNaN' => NeverNaN
  BY <1>1, <1>2, NaNBefore
<1>7. faults' = 0 => faults = 0
  BY <1>1, SerialTypes
<1> QED BY <1>3, <1>4, <1>5, <1>6, <1>7 DEF SerialInv

(* Every step keeps the invariant.                                         *)
LEMMA NextSerial ==
    ASSUME Serial, IInv, IInv', TrailInv, SerialInv, [Next]_vars
    PROVE  SerialInv'
<1>1. ASSUME NEW h \in Handlers, NEW b \in Batches, UpsertBatch(h, b) PROVE SerialInv'
  BY <1>1, ArrivalSerial DEF UpsertBatch, Arrives
<1>2. ASSUME NEW h \in Handlers, NEW m \in Singles, Upsert(h, m) PROVE SerialInv'
  BY <1>2, ArrivalSerial DEF Upsert, Arrives
<1>3. ASSUME NEW h \in Handlers, ClientGone(h) \/ AuditStep(h) PROVE SerialInv'
  BY <1>3, IdleSerial DEF ClientGone, AuditStep, serverVars
<1>4. ASSUME NEW h \in Handlers, ReadBack(h) \/ BeginAudit(h) \/ EndAudit(h) PROVE SerialInv'
  <2>1. /\ pc[h] \notin {"idle", "saving"} /\ UNCHANGED <<rid, reqs, hist, persisterVars>>
        /\ \E l \in {"audit", "notfound", "auditing", "snapshot", "respond"} :
             pc' = [pc EXCEPT ![h] = l] /\ (l = "respond" => reqs[rid[h]].kind # "batch")
    BY <1>4 DEF ReadBack, BeginAudit, EndAudit, Goto
  <2>2. PICK l \in {"audit", "notfound", "auditing", "snapshot", "respond"} :
          pc' = [pc EXCEPT ![h] = l] /\ (l = "respond" => reqs[rid[h]].kind # "batch")
    BY <2>1
  <2> QED BY <2>1, <2>2, MoveSerial
<1>5. ASSUME NEW h \in Handlers, HandlerStep(h) PROVE SerialInv'
  BY <1>3, <1>4, <1>5, WriteSerial, OnChangedSerial, SaveSerial, SavedSerial, RespondSerial
     DEF HandlerStep
<1>6. CASE TickerStep
  <2>1. save[Ticker].pc = "idle" /\ ~TickerOn
    BY DEF SerialInv, VersionsFit, Serial
  <2> QED BY <1>6, <2>1 DEF TickerStep, Tick, SaveStep, CreateTemp, Encode, EncodeRefused, Rename,
                            Cleanup, SaveFault, SaveAt, EndSave, SaveReturned
<1>7. CASE DispatcherStep \/ CloseStep
  BY <1>7, IdleSerial DEF DispatcherStep, CloseStep, serverVars
<1>8. CASE ServeFails
  BY <1>8, IdleSerial DEF ServeFails
<1>9. CASE Crash \/ Exit
  BY <1>9, ProcessEndsSerial DEF Crash, Exit
<1>10. CASE Boot
  BY <1>10, BootSerial
<1>11. CASE UNCHANGED vars
  BY <1>11, IdleSerial DEF vars, serverVars
<1> QED BY <1>1, <1>2, <1>3, <1>5, <1>6, <1>7, <1>8, <1>9, <1>10, <1>11 DEF Next

(* What is left of the promise that AckedBatchesSaved states and that the  *)
(* code breaks when two Saves overlap: as long as requests come one at a   *)
(* time and the ticker is off (STORE_INTERVAL=0), a batch that was         *)
(* answered 200 is in the snapshot file, over any number of requests,      *)
(* crashes and restarts, unless a system call of Save failed or the        *)
(* repository has held a NaN.                                              *)
THEOREM SerialBatchesSaved ==
    ASSUME Serial
    PROVE  Spec => [](NeverNaN => AckedBatchesSaved)
<1>1. Init => SerialInv
  <2> SUFFICES ASSUME Init PROVE SerialInv
    OBVIOUS
  <2>1. (\A p \in Savers : save[p].pc = "idle") /\ (\A h \in Handlers : pc[h] = "idle")
    BY DEF Init, PersisterInit, NoSave
  <2>2. fileVer = 0 /\ hist = <<EmptyStore>> /\ reqs = << >>
    BY DEF Init, PersisterInit
  <2> QED BY <2>1, <2>2, SaversAre DEF SerialInv, VersionsFit, SavesFit, FileKeepsUp
<1>2. IInv /\ IInv' /\ TrailInv /\ SerialInv /\ [Next]_vars => SerialInv'
  BY NextSerial
<1>3. SerialInv => (NeverNaN => AckedBatchesSaved)
  BY DEF SerialInv, FileKeepsUp, AckedBatchesSaved, Answered
<1> QED BY <1>1, <1>2, <1>3, InitTrail, NextTrail, Invariant, PTL DEF Spec
=============================================================================
