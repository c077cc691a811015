---------------------------- MODULE FilePersister ----------------------------
(***************************************************************************)
(* The file persister (adapters/persistence/file): Save writes a snapshot  *)
(* to a fresh temporary file and renames it over the snapshot file, and    *)
(* Restore replays the file into an empty repository.  Nothing serialises  *)
(* two Saves: each runs in the goroutine that calls it.                    *)
(*                                                                         *)
(* The actions below are composed by Server.  faults counts the system     *)
(* calls that failed, up to MaxFaults.                                     *)
(***************************************************************************)
EXTENDS Metrics

CONSTANTS Savers,     \* goroutines that may be inside Save
          TmpNames,   \* names os.CreateTemp may pick
          MaxFaults

ASSUME PersisterAssumption ==
    /\ Nil \notin TmpNames
    /\ MaxFaults \in Nat

VARIABLES file,     \* the snapshot file
          fileVer,  \* history: the version of the store the file was taken from
          temps,    \* the temporary files
          save,     \* the Save each goroutine is executing
          orphans,  \* history: temporary files left by a crash or a failed Remove
          faults

diskVars == <<file, fileVer, temps, orphans>>
persisterVars == <<file, fileVer, temps, save, orphans, faults>>

(* A file that is not there, one that no JSON decoder accepts (empty or    *)
(* cut off), and one that holds an encoded list of metrics.                *)
Files == [state : {"absent", "partial", "complete"}, items : SUBSET Metric]

Absent == [state |-> "absent", items |-> {}]

Partial == [state |-> "partial", items |-> {}]

Complete(ms) == [state |-> "complete", items |-> ms]

NoSave == [pc |-> "idle", items |-> {}, ver |-> 0, tmp |-> Nil]

PersisterInit ==
    /\ file = Absent /\ fileVer = 0
    /\ temps = [t \in TmpNames |-> Absent]
    /\ save = [p \in Savers |-> NoSave]
    /\ orphans = {}
    /\ faults = 0

SaveAt(p, l) == save[p].pc = l

SaveGoto(p, l) == save' = [save EXCEPT ![p].pc = l]

-----------------------------------------------------------------------------
(* p calls Save with snapshot s, the store at version v.                   *)
BeginSave(p, s, v) ==
    /\ SaveAt(p, "idle")
    /\ save' = [save EXCEPT ![p] = [pc |-> "create", items |-> Flatten(s), ver |-> v, tmp |-> Nil]]
    /\ UNCHANGED <<diskVars, faults>>

(* Faulty variant of CreateTemp: the name may be in use already.           *)
CreateTempShared(p) ==
    /\ SaveAt(p, "create")
    /\ \E t \in TmpNames :
         /\ temps' = [temps EXCEPT ![t] = Partial]
         /\ save' = [save EXCEPT ![p].pc = "encode", ![p].tmp = t]
    /\ UNCHANGED <<file, fileVer, orphans, faults>>

(* Faulty variant of CreateTemp: the snapshot file itself is truncated.    *)
CreateTempInPlace(p) ==
    /\ SaveAt(p, "create")
    /\ \E t \in TmpNames :
         /\ temps[t] = Absent
         /\ temps' = [temps EXCEPT ![t] = Partial]
         /\ save' = [save EXCEPT ![p].pc = "encode", ![p].tmp = t]
    /\ file' = Partial
    /\ UNCHANGED <<fileVer, orphans, faults>>

(* os.MkdirAll and os.CreateTemp: a name that no file has.                 *)
CreateTemp(p) ==
    /\ SaveAt(p, "create")
    /\ \E t \in TmpNames :
         /\ temps[t] = Absent
         /\ temps' = [temps EXCEPT ![t] = Partial]
         /\ save' = [save EXCEPT ![p].pc = "encode", ![p].tmp = t]
    /\ UNCHANGED <<file, fileVer, orphans, faults>>

(* enc.Encode and tmp.Close                                                *)
Encode(p) ==
    /\ SaveAt(p, "encode") /\ Encodable(save[p].items)
    /\ temps' = [temps EXCEPT ![save[p].tmp] = Complete(save[p].items)]
    /\ SaveGoto(p, "rename")
    /\ UNCHANGED <<file, fileVer, orphans, faults>>

(* A NaN or an infinity in the snapshot: Encode returns an error.          *)
EncodeRefused(p) ==
    /\ SaveAt(p, "encode") /\ ~Encodable(save[p].items)
    /\ SaveGoto(p, "cleanup")
    /\ UNCHANGED <<diskVars, faults>>

Rename(p) ==
    /\ SaveAt(p, "rename")
    /\ file' = temps[save[p].tmp]
    /\ fileVer' = save[p].ver
    /\ temps' = [temps EXCEPT ![save[p].tmp] = Absent]
    /\ SaveGoto(p, "saved")
    /\ UNCHANGED <<orphans, faults>>

(* The deferred os.Remove(tmpName) of a Save that failed.                  *)
Cleanup(p) ==
    /\ SaveAt(p, "cleanup")
    /\ temps' = [temps EXCEPT ![save[p].tmp] = Absent]
    /\ SaveGoto(p, "failed")
    /\ UNCHANGED <<file, fileVer, orphans, faults>>

(* Faulty variant of SaveFault: the deferred cleanup is missing.           *)
SaveFaultNoCleanup(p) ==
    /\ faults < MaxFaults
    /\ faults' = faults + 1
    /\ save[p].pc \in {"create", "encode", "rename", "cleanup"}
    /\ SaveGoto(p, "failed")
    /\ UNCHANGED <<file, fileVer, temps, orphans>>

(* A system call of Save returns an error.                                 *)
SaveFault(p) ==
    /\ faults < MaxFaults
    /\ faults' = faults + 1
    /\ \/ SaveAt(p, "create") /\ SaveGoto(p, "failed") /\ UNCHANGED orphans
       \/ save[p].pc \in {"encode", "rename"} /\ SaveGoto(p, "cleanup") /\ UNCHANGED orphans
       \/ SaveAt(p, "cleanup") /\ SaveGoto(p, "failed") /\ orphans' = orphans \cup {save[p].tmp}
    /\ UNCHANGED <<file, fileVer, temps>>

SaveStep(p) ==
    \/ CreateTemp(p) \/ Encode(p) \/ EncodeRefused(p) \/ Rename(p) \/ Cleanup(p)
    \/ SaveFault(p)

(* Save has returned to p, which only logs an error.                       *)
SaveReturned(p) == save[p].pc \in {"saved", "failed"}

(* Faulty variant of EndSave: the caller does not go on after an error.    *)
EndSaveOnlyIfSaved(p) ==
    /\ SaveAt(p, "saved")
    /\ save' = [save EXCEPT ![p] = NoSave]
    /\ UNCHANGED <<diskVars, faults>>

EndSave(p) ==
    /\ SaveReturned(p)
    /\ save' = [save EXCEPT ![p] = NoSave]
    /\ UNCHANGED <<diskVars, faults>>

(* The temporary files of the Saves in progress.                           *)
Owns(p) == save[p].pc \in {"encode", "rename", "cleanup"}

Owned == {save[p].tmp : p \in {q \in Savers : Owns(q)}}

(* The process dies: its Saves end where they are, the disk stays.         *)

PersisterCrash ==
    /\ save' = [p \in Savers |-> NoSave]
    /\ orphans' = orphans \cup Owned
    /\ UNCHANGED <<file, fileVer, temps, faults>>

-----------------------------------------------------------------------------
(* The stores Restore may leave in a fresh repository: the decoded items   *)
(* are replayed in the order the file lists them.                          *)
Restored(f) ==
    IF f.state = "complete"
    THEN {UpdateMany(EmptyStore, ms) : ms \in Orders(f.items)}
    ELSE {EmptyStore}

PersisterTypeOK ==
    /\ file \in Files /\ fileVer \in Nat
    /\ temps \in [TmpNames -> Files]
    /\ save \in [Savers -> [pc : {"idle", "create", "encode", "rename", "cleanup", "saved", "failed"},
                            items : SUBSET Metric, ver : Nat, tmp : TmpNames \cup {Nil}]]
    /\ orphans \subseteq TmpNames
    /\ faults \in 0 .. MaxFaults
=============================================================================
