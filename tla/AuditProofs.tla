----------------------------- MODULE AuditProofs -----------------------------
(***************************************************************************)
(* The actions of AuditTrail, whoever takes them, keep its types and hand  *)
(* events over in order.                                                   *)
(***************************************************************************)
EXTENDS AuditTrail, SequenceTheorems, TLAPS

(* The part of the invariant that the audit trail keeps by itself.         *)
AuditInv == AuditTypeOK /\ sent = taken \o queue

(* The service starts with an empty channel and nothing handed over.       *)
LEMMA AuditInitInv == AuditInit => AuditInv
<1> SUFFICES ASSUME AuditInit PROVE AuditInv
  OBVIOUS
<1>1. AuditTypeOK
  <2>1. QueueSize \in Nat /\ << >> \in Seq(Nat) /\ Len(<< >>) <= QueueSize
    BY AuditAssumption
  <2>2. queueOpen \in BOOLEAN
    BY DEF AuditInit, AuditorSet
  <2>3. pub \in [Publishers -> [evt : Nat \cup {NoEvent}, next : Nat]]
    BY DEF AuditInit, NotPublishing
  <2>4. delivered \in [ToSet(Sinks) -> Seq(Nat)]
    BY <2>1 DEF AuditInit
  <2> QED BY <2>1, <2>2, <2>3, <2>4 DEF AuditInit, AuditTypeOK
<1>2. sent = taken \o queue
  BY DEF AuditInit
<1> QED BY <1>1, <1>2 DEF AuditInv

(* A restart makes a new channel; the histories restart with it.           *)
LEMMA AuditStartInv == AuditInv /\ AuditStart => AuditInv'
<1> SUFFICES ASSUME AuditInv, AuditStart PROVE AuditInv'
  OBVIOUS
<1>1. AuditTypeOK'
  <2>1. QueueSize \in Nat /\ << >> \in Seq(Nat) /\ Len(<< >>) <= QueueSize
    BY AuditAssumption
  <2>2. queueOpen' \in BOOLEAN
    BY DEF AuditStart, AuditorSet
  <2>3. pub' \in [Publishers -> [evt : Nat \cup {NoEvent}, next : Nat]]
    BY DEF AuditStart, NotPublishing
  <2>4. delivered' \in [ToSet(Sinks) -> Seq(Nat)]
    BY DEF AuditStart, AuditInv, AuditTypeOK
  <2> QED BY <2>1, <2>2, <2>3, <2>4 DEF AuditStart, AuditTypeOK
<1>2. (sent = taken \o queue)'
  BY DEF AuditStart
<1> QED BY <1>1, <1>2 DEF AuditInv

(* Request contexts come and go beside the channel.                        *)
LEMMA ContextInv ==
    ASSUME NEW r \in Nat, AuditInv, OpenContext(r) \/ CancelContext(r)
    PROVE  AuditInv'
BY DEF AuditInv, AuditTypeOK, OpenContext, CancelContext

(* notifyAudit takes the path of the channel or publishes by itself.       *)
LEMMA NotifyInv ==
    ASSUME NEW h \in Handlers, NEW r \in Nat, AuditInv,
           NotifyAudit(h, r) \/ NotifyReturned(h)
    PROVE  AuditInv'
<1>1. notify' \in [Handlers -> {"no", "send", "publish", "done"}]
  BY DEF AuditInv, AuditTypeOK, NotifyAudit, NotifyReturned
<1>2. pub' \in [Publishers -> [evt : Nat \cup {NoEvent}, next : Nat]]
  <2>1. pub' = pub \/ pub' = [pub EXCEPT ![h] = [evt |-> r, next |-> 1]]
    BY DEF NotifyAudit, NotifyReturned
  <2>2. pub \in [Publishers -> [evt : Nat \cup {NoEvent}, next : Nat]]
    BY DEF AuditInv, AuditTypeOK
  <2>3. [evt |-> r, next |-> 1] \in [evt : Nat \cup {NoEvent}, next : Nat]
    OBVIOUS
  <2> QED BY <2>1, <2>2, <2>3
<1>3. UNCHANGED <<queue, queueOpen, stopping, dispatcher, live, sent, taken, dropped, delivered>>
  BY DEF NotifyAudit, NotifyReturned
<1> QED BY <1>1, <1>2, <1>3 DEF AuditInv, AuditTypeOK

(* enqueueAudit appends to the channel what it appends to the history.     *)
LEMMA EnqueueInv ==
    ASSUME NEW h \in Handlers, NEW r \in Nat, AuditInv, Enqueue(h, r)
    PROVE  AuditInv'
<1>1. CASE queueOpen /\ Len(queue) < QueueSize
  <2>1. queue' = Append(queue, r) /\ sent' = Append(sent, r) /\ UNCHANGED taken
    BY <1>1 DEF Enqueue
  <2>2. queue \in Seq(Nat) /\ taken \in Seq(Nat) /\ sent \in Seq(Nat) /\ QueueSize \in Nat
    BY AuditAssumption DEF AuditInv, AuditTypeOK
  <2>3. Len(queue') <= QueueSize /\ queue' \in Seq(Nat) /\ sent' \in Seq(Nat)
    BY <1>1, <2>1, <2>2
  <2>4. sent' = taken' \o queue'
    <3>1. sent' = sent \o <<r>> /\ queue' = queue \o <<r>>
      BY <2>1, <2>2, AppendIsConcat
    <3>2. (taken \o queue) \o <<r>> = taken \o (queue \o <<r>>)
      BY <2>2, ConcatAssociative, <<r>> \in Seq(Nat)
    <3> QED BY <2>1, <3>1, <3>2 DEF AuditInv
  <2>5. AuditTypeOK'
    BY <1>1, <2>3 DEF AuditInv, AuditTypeOK, Enqueue
  <2> QED BY <2>4, <2>5 DEF AuditInv
<1>2. CASE ~(queueOpen /\ Len(queue) < QueueSize)
  BY <1>2 DEF AuditInv, AuditTypeOK, Enqueue
<1> QED BY <1>1, <1>2

(* The dispatcher takes the head of the channel.                           *)
LEMMA ReceiveInv ==
    ASSUME AuditInv, Receive
    PROVE  AuditInv'
<1>1. queue \in Seq(Nat) /\ taken \in Seq(Nat) /\ queue # << >> /\ QueueSize \in Nat
  BY AuditAssumption DEF AuditInv, AuditTypeOK, Receive
<1>2. Head(queue) \in Nat /\ Tail(queue) \in Seq(Nat) /\ Len(Tail(queue)) <= Len(queue)
  BY <1>1
<1>3. taken' = Append(taken, Head(queue)) /\ queue' = Tail(queue) /\ UNCHANGED sent
  BY DEF Receive
<1>4. sent' = taken' \o queue'
  <2>1. queue = <<Head(queue)>> \o Tail(queue)
    BY <1>1, <1>2
  <2>2. taken' = taken \o <<Head(queue)>>
    BY <1>1, <1>2, <1>3, AppendIsConcat
  <2>3. (taken \o <<Head(queue)>>) \o Tail(queue) = taken \o (<<Head(queue)>> \o Tail(queue))
    BY <1>1, <1>2, ConcatAssociative, <<Head(queue)>> \in Seq(Nat)
  <2> QED BY <1>3, <2>1, <2>2, <2>3 DEF AuditInv
<1>5. AuditTypeOK'
  BY <1>1, <1>2, <1>3 DEF AuditInv, AuditTypeOK, Receive, Publishers
<1> QED BY <1>4, <1>5 DEF AuditInv

(* Publish hands the event to the next sink, which takes it or fails.      *)
LEMMA NotifySinkInv ==
    ASSUME NEW x \in Publishers, AuditInv, NotifySink(x)
    PROVE  AuditInv'
<1> DEFINE sink == Sinks[pub[x].next]
<1>1. pub[x].evt \in Nat /\ pub[x].next \in Nat
  BY DEF AuditInv, AuditTypeOK, NotifySink
<1>2. pub' \in [Publishers -> [evt : Nat \cup {NoEvent}, next : Nat]]
  BY <1>1 DEF AuditInv, AuditTypeOK, NotifySink
<1>3. delivered' = delivered \/ delivered' = [delivered EXCEPT ![sink] = Append(@, pub[x].evt)]
  BY DEF NotifySink
<1>4. delivered' \in [ToSet(Sinks) -> Seq(Nat)]
  <2>1. delivered \in [ToSet(Sinks) -> Seq(Nat)]
    BY DEF AuditInv, AuditTypeOK
  <2>2. \A s \in ToSet(Sinks) : Append(delivered[s], pub[x].evt) \in Seq(Nat)
    BY <1>1, <2>1, AppendProperties
  <2> HIDE DEF sink
  <2> QED BY <1>3, <2>1, <2>2
<1> QED BY <1>2, <1>4 DEF AuditInv, AuditTypeOK, NotifySink

(* Publish has been through the sinks.                                     *)
LEMMA PublishReturnedInv ==
    ASSUME NEW x \in Publishers, AuditInv, PublishReturned(x)
    PROVE  AuditInv'
BY DEF AuditInv, AuditTypeOK, PublishReturned, Publishers, NotPublishing

(* Close and the end of the dispatcher leave the channel as it is.         *)
LEMMA CloseInv ==
    ASSUME AuditInv, DispatcherExit \/ CloseCancel \/ CloseForget
    PROVE  AuditInv'
BY DEF AuditInv, AuditTypeOK, DispatcherExit, CloseCancel, CloseForget

(* Every step of the dispatcher keeps the invariant.                       *)
LEMMA DispatchInv ==
    ASSUME AuditInv, Dispatch
    PROVE  AuditInv'
BY ReceiveInv, CloseInv, NotifySinkInv, PublishReturnedInv DEF Dispatch, Publishers
=============================================================================
