----------------------------- MODULE AuditTrail ------------------------------
(***************************************************************************)
(* The audit trail of services/metrics: request handlers put an event into *)
(* a bounded channel without ever waiting, one dispatcher goroutine takes  *)
(* events out and publishes each to every sink in turn (pkg/observer), and *)
(* Close stops the dispatcher.  An event is named by the number of the     *)
(* request it is about, because a request raises at most one.              *)
(*                                                                         *)
(* The actions below are composed by Server.                               *)
(***************************************************************************)
EXTENDS Integers, Sequences, SequencesExt

CONSTANTS Handlers,    \* goroutines that serve requests
          Dispatcher,  \* the goroutine of initAuditDispatcher
          Sinks,       \* the observers attached, in order; none: no auditor
          QueueSize,   \* auditQueueSize
          FailingSinks, \* sinks that may fail for reasons of their own
          NoEvent

(* buildAuditor attaches at most one file writer and one remote client.    *)
ASSUME AuditAssumption ==
    /\ Dispatcher \notin Handlers
    /\ Sinks \in Seq({"file", "remote"})
    /\ \A i, j \in DOMAIN Sinks : Sinks[i] = Sinks[j] => i = j
    /\ QueueSize \in Nat \ {0}
    /\ FailingSinks \subseteq {"file", "remote"}
    /\ NoEvent \notin Nat

VARIABLES queue,      \* the events in the channel
          queueOpen,  \* s.auditQueue is not nil
          stopping,   \* the dispatcher's context is cancelled
          dispatcher, \* "select", "publish" or "exited"
          pub,        \* the Publish each goroutine is executing
          notify,     \* how far each handler is in notifyAudit
          live,       \* requests whose context is not cancelled
          sent,       \* history: the events the channel accepted, in order
          taken,      \* history: the events the dispatcher received, in order
          dropped,    \* history: the events the handlers dropped
          delivered   \* delivered[s]: what sink s has recorded

auditVars == <<queue, queueOpen, stopping, dispatcher, pub, notify, live,
               sent, taken, dropped, delivered>>

Publishers == Handlers \cup {Dispatcher}

NotPublishing == [evt |-> NoEvent, next |-> 1]

AuditorSet == Sinks # << >>

(* The state after metrics.New; the sinks keep what they have.             *)
AuditStart ==
    /\ queue' = << >> /\ queueOpen' = AuditorSet
    /\ stopping' = FALSE
    /\ dispatcher' = IF AuditorSet THEN "select" ELSE "exited"
    /\ pub' = [x \in Publishers |-> NotPublishing]
    /\ notify' = [h \in Handlers |-> "no"]
    /\ live' = {}
    /\ sent' = << >> /\ taken' = << >> /\ dropped' = {}
    /\ UNCHANGED delivered

AuditInit ==
    /\ queue = << >> /\ queueOpen = AuditorSet
    /\ stopping = FALSE
    /\ dispatcher = IF AuditorSet THEN "select" ELSE "exited"
    /\ pub = [x \in Publishers |-> NotPublishing]
    /\ notify = [h \in Handlers |-> "no"]
    /\ live = {}
    /\ sent = << >> /\ taken = << >> /\ dropped = {}
    /\ delivered = [s \in ToSet(Sinks) |-> << >>]

-----------------------------------------------------------------------------
(* net/http gives a request a context and cancels it when the handler has  *)
(* returned or the client has gone.  Only the audit trail looks at it.     *)
OpenContext(r) ==
    /\ live' = IF AuditorSet THEN live \cup {r} ELSE live
    /\ UNCHANGED <<queue, queueOpen, stopping, dispatcher, pub, notify, sent, taken, dropped, delivered>>

CancelContext(r) ==
    /\ live' = live \ {r}
    /\ UNCHANGED <<queue, queueOpen, stopping, dispatcher, pub, notify, sent, taken, dropped, delivered>>

(* notifyAudit, and enqueueAudit as far as its test of s.auditQueue.       *)
NotifyAudit(h, r) ==
    /\ notify[h] = "no"
    /\ \/ ~AuditorSet /\ notify' = [notify EXCEPT ![h] = "done"] /\ UNCHANGED pub
       \/ AuditorSet /\ queueOpen /\ notify' = [notify EXCEPT ![h] = "send"] /\ UNCHANGED pub
       \/ /\ AuditorSet /\ ~queueOpen
          /\ notify' = [notify EXCEPT ![h] = "publish"]
          /\ pub' = [pub EXCEPT ![h] = [evt |-> r, next |-> 1]]
    /\ UNCHANGED <<queue, queueOpen, stopping, dispatcher, live, sent, taken, dropped, delivered>>

(* Faulty variant of Enqueue: without the default case the handler waits.  *)
EnqueueBlocking(h, r) ==
    /\ notify[h] = "send" /\ queueOpen /\ Len(queue) < QueueSize
    /\ notify' = [notify EXCEPT ![h] = "done"]
    /\ queue' = Append(queue, r)
    /\ sent' = Append(sent, r)
    /\ UNCHANGED <<queueOpen, stopping, dispatcher, pub, live, taken, dropped, delivered>>

(* Faulty variant of Enqueue: a full channel silently loses its head.      *)
EnqueueEvicting(h, r) ==
    /\ notify[h] = "send"
    /\ notify' = [notify EXCEPT ![h] = "done"]
    /\ queue' = Append(IF Len(queue) < QueueSize THEN queue ELSE Tail(queue), r)
    /\ sent' = Append(sent, r)
    /\ UNCHANGED <<queueOpen, stopping, dispatcher, pub, live, taken, dropped, delivered>>

(* The select of enqueueAudit; a channel that Close has set to nil         *)
(* meanwhile accepts nothing.                                              *)
Enqueue(h, r) ==
    /\ notify[h] = "send"
    /\ notify' = [notify EXCEPT ![h] = "done"]
    /\ IF queueOpen /\ Len(queue) < QueueSize
       THEN /\ queue' = Append(queue, r)
            /\ sent' = Append(sent, r)
            /\ UNCHANGED dropped
       ELSE /\ dropped' = dropped \cup {r}
            /\ UNCHANGED <<queue, sent>>
    /\ UNCHANGED <<queueOpen, stopping, dispatcher, pub, live, taken, delivered>>

NotifyReturned(h) ==
    /\ notify[h] = "done"
    /\ notify' = [notify EXCEPT ![h] = "no"]
    /\ UNCHANGED <<queue, queueOpen, stopping, dispatcher, pub, live, sent, taken, dropped, delivered>>

-----------------------------------------------------------------------------
(* The dispatcher's select: with both channels ready Go picks either.      *)
Receive ==
    /\ dispatcher = "select" /\ queue # << >>
    /\ dispatcher' = "publish"
    /\ pub' = [pub EXCEPT ![Dispatcher] = [evt |-> Head(queue), next |-> 1]]
    /\ queue' = Tail(queue)
    /\ taken' = Append(taken, Head(queue))
    /\ UNCHANGED <<queueOpen, stopping, notify, live, sent, dropped, delivered>>

DispatcherExit ==
    /\ dispatcher = "select" /\ stopping
    /\ dispatcher' = "exited"
    /\ UNCHANGED <<queue, queueOpen, stopping, pub, notify, live, sent, taken, dropped, delivered>>

(* One turn of the loop of Publish: x notifies the next sink, which may    *)
(* fail; the file writer ignores the context of the request, the remote    *)
(* client sends nothing once it is cancelled.                              *)
CanDeliver(x, sink) == sink = "file" \/ pub[x].evt \in live

(* Faulty variant of NotifySink: a failure starts the fan-out again.       *)
NotifySinkRetrying(x) ==
    /\ pub[x].evt # NoEvent /\ pub[x].next <= Len(Sinks)
    /\ LET sink == Sinks[pub[x].next]
       IN  \/ /\ CanDeliver(x, sink)
              /\ delivered' = [delivered EXCEPT ![sink] = Append(@, pub[x].evt)]
              /\ pub' = [pub EXCEPT ![x].next = @ + 1]
           \/ /\ sink \in FailingSinks
              /\ pub' = [pub EXCEPT ![x].next = 1]
              /\ UNCHANGED delivered
    /\ UNCHANGED <<queue, queueOpen, stopping, dispatcher, notify, live, sent, taken, dropped>>

NotifySink(x) ==
    /\ pub[x].evt # NoEvent /\ pub[x].next <= Len(Sinks)
    /\ LET sink == Sinks[pub[x].next]
       IN  \/ /\ CanDeliver(x, sink)
              /\ delivered' = [delivered EXCEPT ![sink] = Append(@, pub[x].evt)]
           \/ /\ sink \in FailingSinks \/ ~CanDeliver(x, sink)
              /\ UNCHANGED delivered
    /\ pub' = [pub EXCEPT ![x].next = @ + 1]
    /\ UNCHANGED <<queue, queueOpen, stopping, dispatcher, notify, live, sent, taken, dropped>>

(* Faulty variant of PublishReturned: the dispatcher serves one event.     *)
PublishReturnedForGood(x) ==
    /\ pub[x].evt # NoEvent /\ pub[x].next > Len(Sinks)
    /\ pub' = [pub EXCEPT ![x] = NotPublishing]
    /\ IF x = Dispatcher
       THEN dispatcher' = "exited" /\ UNCHANGED notify
       ELSE notify' = [notify EXCEPT ![x] = "done"] /\ UNCHANGED dispatcher
    /\ UNCHANGED <<queue, queueOpen, stopping, live, sent, taken, dropped, delivered>>

PublishReturned(x) ==
    /\ pub[x].evt # NoEvent /\ pub[x].next > Len(Sinks)
    /\ pub' = [pub EXCEPT ![x] = NotPublishing]
    /\ IF x = Dispatcher
       THEN dispatcher' = "select" /\ UNCHANGED notify
       ELSE notify' = [notify EXCEPT ![x] = "done"] /\ UNCHANGED dispatcher
    /\ UNCHANGED <<queue, queueOpen, stopping, live, sent, taken, dropped, delivered>>

Dispatch == Receive \/ DispatcherExit \/ NotifySink(Dispatcher) \/ PublishReturned(Dispatcher)

-----------------------------------------------------------------------------
(* Close: cancel, wait for the dispatcher, forget the channel.             *)
CloseCancel ==
    /\ AuditorSet /\ ~stopping
    /\ stopping' = TRUE
    /\ UNCHANGED <<queue, queueOpen, dispatcher, pub, notify, live, sent, taken, dropped, delivered>>

(* Faulty variant of CloseForget: the wait for the dispatcher is left out. *)
CloseForgetUnawaited ==
    /\ stopping /\ queueOpen
    /\ queueOpen' = FALSE
    /\ UNCHANGED <<queue, stopping, dispatcher, pub, notify, live, sent, taken, dropped, delivered>>

CloseForget ==
    /\ stopping /\ dispatcher = "exited" /\ queueOpen
    /\ queueOpen' = FALSE
    /\ UNCHANGED <<queue, stopping, dispatcher, pub, notify, live, sent, taken, dropped, delivered>>

Closed == ~queueOpen

AuditTypeOK ==
    /\ queue \in Seq(Nat) /\ Len(queue) <= QueueSize
    /\ queueOpen \in BOOLEAN /\ stopping \in BOOLEAN
    /\ dispatcher \in {"select", "publish", "exited"}
    /\ pub \in [Publishers -> [evt : Nat \cup {NoEvent}, next : Nat]]
    /\ notify \in [Handlers -> {"no", "send", "publish", "done"}]
    /\ live \subseteq Nat /\ dropped \subseteq Nat
    /\ sent \in Seq(Nat) /\ taken \in Seq(Nat)
    /\ delivered \in [ToSet(Sinks) -> Seq(Nat)]
=============================================================================
