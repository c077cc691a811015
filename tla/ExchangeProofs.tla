---------------------------- MODULE ExchangeProofs ----------------------------
(***************************************************************************)
(* What the HTTP side of the server promises, for any number of            *)
(* connections, pooled slices, secrets and requests.                       *)
(***************************************************************************)
EXTENDS Exchange, MetricsProofs, SequenceTheorems

Stages == {"idle", "handle", "use", "release", "readback", "respond", "done"}

(* The secrets of both sides fit.                                          *)
Fit == NoKey \in {TrimKey[agentKey], TrimKey[serverKey]} \/ TrimKey[agentKey] = TrimKey[serverKey]

(* What DoGzJSON makes of a report.                                        *)
FromAgent(rq) ==
    /\ rq.gzip /\ rq.bytes.form = "gzip"
    /\ Plain(rq).form = "json" /\ Plain(rq).items \in Seq(Measured)
    /\ Len(Plain(rq).items) \in 1 .. Slots
    /\ rq.route \in {"updates", "update"}
    /\ rq.hash = IF TrimKey[agentKey] # NoKey THEN SumSHA256(Plain(rq), TrimKey[agentKey])
                 ELSE NoHash

(* The middlewares let the request through to its handler.                 *)
Passed(rq) == Inflates(rq) /\ Verify(rq) = Unserved

Shape == DOMAIN ex = Conns /\ \A c \in Conns : DOMAIN ex[c] = {"pc", "rq", "ans", "wire", "effect"}

RequestInv(c) ==
    ex[c].pc # "idle" => WellFormed(ex[c].rq) /\ (ex[c].rq.agent => FromAgent(ex[c].rq))

(* How far the handler of a connection is, and what it has stored.         *)
StageInv(c) ==
    LET x == ex[c] IN
    /\ x.pc \in Stages
    /\ x.pc \in {"handle", "use", "release", "readback"} \/ x.effect # << >> => Passed(x.rq)
    /\ x.pc \in {"use", "release"} => x.rq.route = "updates" /\ Plain(x.rq).form = "json"
    /\ x.pc = "readback" => /\ x.rq.route \in {"update", "path"} /\ x.effect # << >>
                            /\ Sent(c) \in Measured /\ Stored(Sent(c)) # Nil
    /\ x.effect # << >> =>
         x.rq.route \in WriteRoutes /\ (x.rq.route # "path" => Plain(x.rq).form = "json")
    /\ x.pc \in {"idle", "handle", "use"} => x.effect = << >>

(* What it answers, and what of that reaches the client.                   *)
AnswerInv(c) ==
    LET x == ex[c] IN
    /\ x.pc \in {"release", "respond", "done"} =>
         /\ x.ans.status # 0 \/ x.rq.route = "unknown"
         /\ x.rq.route \in WriteRoutes => (x.ans.status = 200 <=> x.effect # << >>)
         /\ x.rq.agent => (x.ans.status = 200 <=> Fit)
    /\ x.rq.agent /\ x.effect # << >> =>
         UpdateMany(EmptyStore, x.effect) = UpdateMany(EmptyStore, ValidItems(Plain(x.rq).items))
    /\ x.pc = "done" =>
         \/ x.wire = Outbound(x.rq, x.ans)
         \/ x.wire = [NoWire EXCEPT !.status = 400] /\ x.ans = Answer(400, "none", Empty)

ConnInv(c) == RequestInv(c) /\ StageInv(c) /\ AnswerInv(c)

(* Who may write to a slice: the handler that holds it, until it releases. *)
PoolInv ==
    /\ elems \in [Buffers -> [1 .. Slots -> Metric]]
    /\ pool \subseteq allocated /\ allocated \subseteq Buffers
    /\ buf \in [Conns -> Buffers \cup {NoBuf}] /\ DOMAIN clone = Conns
    /\ \A c \in Conns : ex[c].pc \in {"use", "release"} => buf[c] \in allocated \ pool
    /\ \A c, d \in Conns :
         ex[c].pc \in {"use", "release"} /\ ex[d].pc \in {"use", "release"} /\ c # d => buf[c] # buf[d]

(* What a handler that uses its slice finds there.                         *)
UseInv(c) ==
    ex[c].pc = "use" =>
        LET items == Plain(ex[c].rq).items
        IN  /\ clone[c] = Clone(elems[buf[c]], Len(items))
            /\ \A i \in 1 .. Len(items) : Fill(elems[buf[c]][i], items[i]) = elems[buf[c]][i]

(* The inductive invariant.                                                *)
ExchangeInv ==
    /\ Shape /\ serverKey \in Keys /\ agentKey \in Keys /\ store \in Stores
    /\ PoolInv
    /\ \A c \in Conns : ConnInv(c) /\ UseInv(c)

-----------------------------------------------------------------------------
(* An answer that was given a status passes the middlewares as it is.      *)
LEMMA OutboundFaithful ==
    ASSUME NEW rq, NEW ans, ans.status # 0
    PROVE  LET w == Outbound(rq, ans) IN
           /\ w.gzip => rq.accept /\ w.bytes.form = "gzip"
           /\ w.status = ans.status
           /\ Drained(w) = ans.body
           /\ w.hash # NoHash => w.hash = SumSHA256(Drained(w), TrimKey[serverKey])
<1> DEFINE h == Hashed(ans)
<1>1. /\ h = [status |-> h.status, ctype |-> ans.ctype, gzip |-> FALSE, bytes |-> ans.body,
              hash |-> h.hash]
      /\ h.status = ans.status
      /\ h.hash # NoHash => h.hash = SumSHA256(ans.body, TrimKey[serverKey])
  BY DEF Hashed
<1> HIDE DEF h
<1>2. \/ Compressed(rq, h) = h
      \/ rq.accept /\ Compressed(rq, h) = [h EXCEPT !.gzip = TRUE, !.bytes = Gzip(h.bytes)]
  BY DEF Compressed
<1>3. Compressed(rq, h).status = ans.status
  BY <1>1, <1>2
<1>4. Outbound(rq, ans) = Compressed(rq, h)
  BY <1>3 DEF Outbound, ServeError, h
<1>5. CASE Compressed(rq, h) = h
  BY <1>1, <1>4, <1>5 DEF Drained
<1>6. CASE rq.accept /\ Compressed(rq, h) = [h EXCEPT !.gzip = TRUE, !.bytes = Gzip(h.bytes)]
  <2> DEFINE w == [h EXCEPT !.gzip = TRUE, !.bytes = Gzip(h.bytes)]
  <2>1. w.gzip /\ w.status = ans.status /\ w.bytes = Gzip(ans.body) /\ w.hash = h.hash
    BY <1>1
  <2>2. w.bytes.form = "gzip" /\ w.bytes.items[1] = ans.body
    BY <2>1 DEF Gzip, Body
  <2>3. Drained(w) = ans.body
    BY <2>1, <2>2 DEF Drained
  <2>4. w.hash # NoHash => w.hash = SumSHA256(ans.body, TrimKey[serverKey])
    BY <1>1, <2>1
  <2> HIDE DEF w
  <2> QED BY <1>4, <1>6, <2>1, <2>2, <2>3, <2>4 DEF w
<1> QED BY <1>2, <1>5, <1>6

(* The answers of Verify.                                                  *)
LEMMA VerifyAnswers ==
    ASSUME NEW rq
    PROVE  Verify(rq) = Unserved \/ Verify(rq).status = 400
BY DEF Verify, JSON, Answer

(* The statuses are different numbers.                                     *)
LEMMA Codes == 200 # 0 /\ 400 # 0 /\ 404 # 0 /\ 405 # 0 /\ 500 # 0 /\ 400 # 200 /\ 404 # 200
OBVIOUS

(* Answers of middlewares and handlers are not the mark of a request let   *)
(* through.                                                                *)
LEMMA NotUnserved ==
    /\ JSON(400, "read body failed") # Unserved /\ JSON(400, "invalid hash") # Unserved
    /\ NotFound # Unserved /\ BadRequest # Unserved
    /\ NotFound.status \notin {0, 200} /\ BadRequest.status \notin {0, 200}
<1>1. JSON(400, "read body failed") # Unserved /\ JSON(400, "invalid hash") # Unserved
  BY Codes DEF JSON, Unserved, Answer
<1>2. NotFound # Unserved
  BY Codes DEF NotFound, Text, Unserved, Answer
<1>3. BadRequest # Unserved
  BY Codes DEF BadRequest, Text, Unserved, Answer
<1>4. NotFound.status \notin {0, 200} /\ BadRequest.status \notin {0, 200}
  <2>1. NotFound.status = 404 /\ BadRequest.status = 400
    BY DEF NotFound, BadRequest, Text, Answer
  <2> QED BY <2>1, Codes
<1> QED BY <1>1, <1>2, <1>3, <1>4

(* A hash that passes is of the whole body, with the server's secret.      *)
LEMMA PassedVerified ==
    ASSUME NEW rq, WellFormed(rq), Passed(rq), Plain(rq).form = "json",
           TrimKey[serverKey] # NoKey, rq.hash # NoHash
    PROVE  rq.hash = SumSHA256(Plain(rq), TrimKey[serverKey]) /\ rq.bytes.form # "damaged"
<1>1. Plain(rq) # Empty
  BY DEF Empty, Body
<1>2. ~(rq.gzip /\ rq.bytes.form = "damaged")
  BY NotUnserved DEF Passed, Verify
<1>3. rq.hash = SumSHA256(Plain(rq), TrimKey[serverKey])
  BY <1>1, <1>2, NotUnserved DEF Passed, Verify
<1>4. ~rq.gzip => rq.bytes.form # "damaged"
  BY DEF WellFormed, Inflates, Plain, PlainBodies
<1> QED BY <1>2, <1>3, <1>4

(* A report passes exactly if the secrets fit.                             *)
LEMMA AgentPasses ==
    ASSUME NEW rq, FromAgent(rq)
    PROVE  Verify(rq) = Unserved <=> Fit
<1> DEFINE ak == TrimKey[agentKey]
           sk == TrimKey[serverKey]
<1>1. Plain(rq) # Empty
  BY DEF FromAgent, Empty, Body
<1>2. ~(rq.gzip /\ rq.bytes.form = "damaged")
  BY DEF FromAgent
<1>3. ak # NoKey => rq.hash = SumSHA256(Plain(rq), ak) /\ rq.hash # NoHash
  BY DEF FromAgent, SumSHA256, NoHash
<1>4. ak = NoKey => rq.hash = NoHash
  BY DEF FromAgent
<1>5. rq.hash # SumSHA256(Plain(rq), sk) <=> (ak = NoKey \/ ak # sk) \/ (ak = NoKey /\ sk = NoKey)
  BY <1>1, <1>3, <1>4 DEF SumSHA256, NoHash
<1>6. CASE sk = NoKey \/ ak = NoKey
  BY <1>4, <1>6 DEF Verify, Fit
<1>7. CASE sk # NoKey /\ ak # NoKey
  <2>1. Verify(rq) = IF ak # sk THEN JSON(400, "invalid hash") ELSE Unserved
    BY <1>1, <1>2, <1>3, <1>5, <1>7 DEF Verify
  <2> QED BY <1>7, <2>1, NotUnserved DEF Fit
<1> QED BY <1>6, <1>7

(* Decoding fills the gaps of an item with what was there.                 *)
LEMMA FillType ==
    ASSUME NEW old \in Metric, NEW item \in Item
    PROVE  Fill(old, item) \in Metric
<1>1. DOMAIN item = {"id", "mtype", "value", "delta"}
  BY DEF Item
<1>2. /\ (IF item.id # Nil THEN item.id ELSE old.id) \in RawIds
      /\ (IF item.mtype # Nil THEN item.mtype ELSE old.mtype) \in MTypes
      /\ (IF item.value # Nil THEN item.value ELSE old.value) \in Values \cup {Nil}
      /\ (IF item.delta # Nil THEN item.delta ELSE old.delta) \in Int64 \cup {Nil}
  BY DEF Item, Metric
<1>3. Fill(old, item) = [id |-> IF item.id # Nil THEN item.id ELSE old.id,
                         mtype |-> IF item.mtype # Nil THEN item.mtype ELSE old.mtype,
                         value |-> IF item.value # Nil THEN item.value ELSE old.value,
                         delta |-> IF item.delta # Nil THEN item.delta ELSE old.delta]
  BY <1>1 DEF Fill
<1> QED BY <1>2, <1>3 DEF Metric

(* Decoding the same item again changes nothing.                           *)
LEMMA FillTwice ==
    ASSUME NEW old, NEW item
    PROVE  Fill(Fill(old, item), item) = Fill(old, item)
BY DEF Fill

(* An empty element is a metric.                                           *)
LEMMA ZeroType == Zero \in Metric
BY TrimAssumption DEF Zero, Metric, MTypes

-----------------------------------------------------------------------------
(* What a handler sees: the body, and gaps filled with what was there.     *)
LEMMA SeenIs ==
    ASSUME ExchangeInv, NEW c \in Conns, ex[c].pc = "use"
    PROVE  LET items == Plain(ex[c].rq).items
           IN  /\ items \in Seq(Item) /\ Len(items) <= Slots
               /\ Seen(c) = [i \in 1 .. Len(items) |-> elems[buf[c]][i]]
               /\ Seen(c) \in Seq(Metric) /\ Len(Seen(c)) = Len(items)
               /\ \A i \in 1 .. Len(items) : Fill(Seen(c)[i], items[i]) = Seen(c)[i]
<1> DEFINE items == Plain(ex[c].rq).items
           n == Len(items)
           es == elems[buf[c]]
<1>1. items \in Seq(Item) /\ n <= Slots
  BY DEF ExchangeInv, ConnInv, RequestInv, StageInv, Passed, WellFormed, PlainBodies
<1>2. n \in Nat /\ Slots \in Nat
  BY <1>1, DecodeAssumption
<1>3. es \in [1 .. Slots -> Metric]
  BY DEF ExchangeInv, PoolInv
<1>4. /\ clone[c] = Clone(es, n)
      /\ \A i \in 1 .. n : Fill(es[i], items[i]) = es[i]
  BY DEF ExchangeInv, UseInv
<1> HIDE DEF items, n, es
<1>5. DOMAIN clone[c] = 1 .. n
  BY <1>4 DEF Clone
<1>6. ASSUME NEW i \in 1 .. n
      PROVE  es[i] \in Metric /\ Seen(c)[i] = es[i]
  <2>1. i \in 1 .. Slots
    BY <1>1, <1>2
  <2>2. es[i] \in Metric
    BY <1>3, <2>1
  <2>3. clone[c][i] = [id |-> es[i].id, mtype |-> es[i].mtype, value |-> es[i].value # Nil,
                       delta |-> es[i].delta # Nil]
    BY <1>4 DEF Clone
  <2>4. Seen(c)[i] = [id |-> clone[c][i].id, mtype |-> clone[c][i].mtype,
                      value |-> IF clone[c][i].value THEN es[i].value ELSE Nil,
                      delta |-> IF clone[c][i].delta THEN es[i].delta ELSE Nil]
    BY <1>5 DEF Seen, es
  <2>5. Seen(c)[i] = [id |-> es[i].id, mtype |-> es[i].mtype,
                      value |-> IF es[i].value # Nil THEN es[i].value ELSE Nil,
                      delta |-> IF es[i].delta # Nil THEN es[i].delta ELSE Nil]
    <3>1. clone[c][i].id = es[i].id /\ clone[c][i].mtype = es[i].mtype
      BY <2>3
    <3>2. clone[c][i].value = (es[i].value # Nil)
      BY <2>3
    <3>3. clone[c][i].delta = (es[i].delta # Nil)
      BY <2>3
    <3> QED BY <2>4, <3>1, <3>2, <3>3
  <2>6. /\ (IF es[i].value # Nil THEN es[i].value ELSE Nil) = es[i].value
        /\ (IF es[i].delta # Nil THEN es[i].delta ELSE Nil) = es[i].delta
    OBVIOUS
  <2>7. Seen(c)[i] = [id |-> es[i].id, mtype |-> es[i].mtype, value |-> es[i].value,
                      delta |-> es[i].delta]
    BY <2>5, <2>6
  <2>8. es[i] = [id |-> es[i].id, mtype |-> es[i].mtype, value |-> es[i].value,
                 delta |-> es[i].delta]
    BY <2>2 DEF Metric
  <2> QED BY <2>2, <2>7, <2>8
<1>7. DOMAIN Seen(c) = 1 .. n
  BY <1>5 DEF Seen
<1>8. Seen(c) = [i \in 1 .. n |-> es[i]]
  BY <1>6, <1>7 DEF Seen
<1>9. Seen(c) \in Seq(Metric) /\ Len(Seen(c)) = n
  BY <1>2, <1>6, <1>8
<1>10. \A i \in 1 .. n : Fill(Seen(c)[i], items[i]) = Seen(c)[i]
  BY <1>4, <1>6
<1> QED BY <1>1, <1>8, <1>9, <1>10 DEF items, n, es

(* Every property of the runs follows from the invariant.                  *)
LEMMA InvKeepsFields == ExchangeInv => OwnFieldsKept
<1> SUFFICES ASSUME ExchangeInv, NEW c \in Conns, ex[c].pc = "use",
                    NEW i \in DOMAIN Plain(ex[c].rq).items
             PROVE  Fill(Seen(c)[i], Plain(ex[c].rq).items[i]) = Seen(c)[i]
  BY DEF OwnFieldsKept
<1> DEFINE items == Plain(ex[c].rq).items
<1>1. items \in Seq(Item) /\ \A k \in 1 .. Len(items) : Fill(Seen(c)[k], items[k]) = Seen(c)[k]
  BY SeenIs
<1> QED BY <1>1

(* The invariant implies AnswersTellEffect.                                *)
LEMMA InvTellsEffect == ExchangeInv => AnswersTellEffect
<1> SUFFICES ASSUME ExchangeInv, NEW c \in Conns, ex[c].pc = "done",
                    ex[c].rq.route \in WriteRoutes
             PROVE  ex[c].wire.status = 200 <=> ex[c].effect # << >>
  BY DEF AnswersTellEffect, Finished
<1>1. /\ ex[c].ans.status # 0
      /\ ex[c].ans.status = 200 <=> ex[c].effect # << >>
  BY DEF ExchangeInv, ConnInv, AnswerInv, WriteRoutes
<1>2. ex[c].wire.status = ex[c].ans.status
  <2>1. CASE ex[c].wire = Outbound(ex[c].rq, ex[c].ans)
    BY <1>1, <2>1, OutboundFaithful
  <2>2. CASE ex[c].wire = [NoWire EXCEPT !.status = 400] /\ ex[c].ans = Answer(400, "none", Empty)
    BY <2>2 DEF NoWire, Answer
  <2> QED BY <2>1, <2>2 DEF ExchangeInv, ConnInv, AnswerInv
<1> QED BY <1>1, <1>2

(* The invariant implies OnlyVerifiedStored.                               *)
LEMMA InvStoresVerified == ExchangeInv => OnlyVerifiedStored
<1> SUFFICES ASSUME ExchangeInv, NEW c \in Conns, ex[c].effect # << >>, ex[c].rq.route # "path",
                    TrimKey[serverKey] # NoKey, ex[c].rq.hash # NoHash
             PROVE  /\ ex[c].rq.hash = SumSHA256(Plain(ex[c].rq), TrimKey[serverKey])
                    /\ ex[c].rq.bytes.form # "damaged"
  BY DEF OnlyVerifiedStored
<1>1. Passed(ex[c].rq) /\ Plain(ex[c].rq).form = "json" /\ ex[c].pc # "idle"
  BY DEF ExchangeInv, ConnInv, StageInv
<1>2. WellFormed(ex[c].rq)
  BY <1>1 DEF ExchangeInv, ConnInv, RequestInv
<1> QED BY <1>1, <1>2, PassedVerified

(* The invariant implies ReportsGetThrough.                                *)
LEMMA InvGetsThrough == ExchangeInv => ReportsGetThrough
<1> SUFFICES ASSUME ExchangeInv, NEW c \in Conns, ex[c].pc = "done", ex[c].rq.agent
             PROVE  /\ ex[c].wire.status = 200 <=> Fit
                    /\ Fit => UpdateMany(EmptyStore, ex[c].effect)
                                 = UpdateMany(EmptyStore, ValidItems(Plain(ex[c].rq).items))
  BY DEF ReportsGetThrough, Finished, Fit
<1>1. ex[c].rq.route \in WriteRoutes
  BY DEF ExchangeInv, ConnInv, RequestInv, FromAgent, WriteRoutes
<1>2. ex[c].wire.status = 200 <=> ex[c].effect # << >>
  BY <1>1, InvTellsEffect DEF AnswersTellEffect, Finished
<1>3. ex[c].effect # << >> <=> Fit
  BY <1>1 DEF ExchangeInv, ConnInv, AnswerInv
<1> QED BY <1>2, <1>3 DEF ExchangeInv, ConnInv, AnswerInv

(* The invariant implies AnswersReadable.                                  *)
LEMMA InvReadable == ExchangeInv => AnswersReadable
<1> SUFFICES ASSUME ExchangeInv, NEW c \in Conns, ex[c].pc = "done", ex[c].rq.route # "unknown"
             PROVE  LET w == ex[c].wire IN
                    /\ w.gzip => ex[c].rq.accept /\ w.bytes.form = "gzip"
                    /\ w.status = ex[c].ans.status
                    /\ Drained(w) = ex[c].ans.body
                    /\ w.hash # NoHash => w.hash = SumSHA256(Drained(w), TrimKey[serverKey])
  BY DEF AnswersReadable, Finished
<1>1. ex[c].ans.status # 0
  BY DEF ExchangeInv, ConnInv, AnswerInv
<1>2. CASE ex[c].wire = Outbound(ex[c].rq, ex[c].ans)
  BY <1>1, <1>2, OutboundFaithful
<1>3. CASE ex[c].wire = [NoWire EXCEPT !.status = 400] /\ ex[c].ans = Answer(400, "none", Empty)
  BY <1>3 DEF NoWire, Answer, Drained
<1> QED BY <1>2, <1>3 DEF ExchangeInv, ConnInv, AnswerInv

-----------------------------------------------------------------------------
(* The initial state satisfies the invariant.                              *)
LEMMA InitExchange == Init => ExchangeInv
<1> SUFFICES ASSUME Init PROVE ExchangeInv
  OBVIOUS
<1>1. Shape
  BY DEF Init, Shape, Idle
<1>2. store \in Stores
  BY EmptyStoreType DEF Init
<1>3. \A c \in Conns : ex[c].pc = "idle" /\ ex[c].effect = << >> /\ ~ex[c].rq.agent
  BY DEF Init, Idle, Request
<1>4. PoolInv
  BY <1>3, ZeroType DEF Init, DecodeInit, PoolInv
<1>5. \A c \in Conns : ConnInv(c) /\ UseInv(c)
  BY <1>3 DEF ConnInv, RequestInv, StageInv, AnswerInv, UseInv, Stages
<1> QED BY <1>1, <1>2, <1>4, <1>5 DEF ExchangeInv, Init

(* A request is what it was as long as the secrets are.                    *)
LEMMA SameRequest ==
    ASSUME NEW c \in Conns, RequestInv(c), ex[c].pc # "idle", ex'[c].rq = ex[c].rq,
           UNCHANGED <<serverKey, agentKey>>
    PROVE  RequestInv(c)'
<1>1. FromAgent(ex[c].rq)' = FromAgent(ex[c].rq)
  BY DEF FromAgent
<1>2. WellFormed(ex[c].rq)' = WellFormed(ex[c].rq)
  BY DEF WellFormed
<1> QED BY <1>1, <1>2 DEF RequestInv

(* A connection nobody touches keeps its invariant: the secrets do not     *)
(* change, and the store loses no entry.                                   *)
LEMMA Untouched ==
    ASSUME Shape, NEW d \in Conns, ConnInv(d), ex'[d] = ex[d], UNCHANGED <<serverKey, agentKey>>,
           Keeps(store, store')
    PROVE  ConnInv(d)'
<1>1. RequestInv(d)'
  <2>1. FromAgent(ex[d].rq)' = FromAgent(ex[d].rq)
    BY DEF FromAgent
  <2>2. WellFormed(ex[d].rq)' = WellFormed(ex[d].rq)
    BY DEF WellFormed
  <2> QED BY <2>1, <2>2 DEF ConnInv, RequestInv
<1>2. StageInv(d)'
  <2>1. Verify(ex[d].rq)' = Verify(ex[d].rq)
    BY DEF Verify
  <2>2. Sent(d)' = Sent(d)
    BY DEF Sent, Plain, Fill
  <2>3. ASSUME ex[d].pc = "readback" PROVE Stored(Sent(d))' # Nil
    <3>1. Sent(d) \in Measured /\ Stored(Sent(d)) # Nil
      BY <2>3 DEF ConnInv, StageInv
    <3>2. Trim[Sent(d).id] \in Names
      BY <3>1, TrimAssumption DEF Measured, Metric, Names
    <3>3. Stored(Sent(d))' = IF Sent(d).mtype = "gauge" THEN store'.gauges[Trim[Sent(d).id]]
                             ELSE store'.counters[Trim[Sent(d).id]]
      BY <2>2 DEF Stored
    <3>4. Stored(Sent(d)) = IF Sent(d).mtype = "gauge" THEN store.gauges[Trim[Sent(d).id]]
                            ELSE store.counters[Trim[Sent(d).id]]
      BY DEF Stored
    <3> QED BY <3>1, <3>2, <3>3, <3>4 DEF Keeps
  <2>4. Passed(ex[d].rq) => Passed(ex[d].rq)'
    BY <2>1 DEF Passed, Inflates
  <2> QED BY <2>2, <2>3, <2>4 DEF ConnInv, StageInv, Plain
<1>3. AnswerInv(d)'
  <2>1. Fit' = Fit
    BY DEF Fit
  <2>2. Outbound(ex[d].rq, ex[d].ans)' = Outbound(ex[d].rq, ex[d].ans)
    BY DEF Outbound, ServeError, Compressed, Hashed
  <2> QED BY <2>1, <2>2 DEF ConnInv, AnswerInv, Plain
<1> QED BY <1>1, <1>2, <1>3 DEF ConnInv

(* A handler that returns an answer.                                       *)
LEMMA AnsweredKeeps ==
    ASSUME Shape, NEW c \in Conns, NEW a, ConnInv(c), Answered(c, a), UNCHANGED <<serverKey, agentKey>>,
           ex[c].pc \in {"handle", "release", "readback"},
           a.status # 0 \/ ex[c].rq.route = "unknown",
           ex[c].rq.route \in WriteRoutes => (a.status = 200 <=> ex[c].effect # << >>),
           ex[c].rq.agent => a.status = 200
    PROVE  ConnInv(c)' /\ Shape' /\ \A d \in Conns \ {c} : ex'[d] = ex[d]
<1>1. /\ ex'[c].pc = "respond" /\ ex'[c].ans = a /\ ex'[c].rq = ex[c].rq
      /\ ex'[c].effect = ex[c].effect
      /\ \A d \in Conns \ {c} : ex'[d] = ex[d]
  BY DEF Answered, Shape
<1>2. Shape'
  BY DEF Answered, Shape
<1>3. RequestInv(c)'
  BY <1>1, SameRequest DEF ConnInv
<1>4. Verify(ex[c].rq)' = Verify(ex[c].rq)
  BY <1>1 DEF Verify
<1>5. StageInv(c)'
  <2>1. Passed(ex[c].rq) => Passed(ex[c].rq)'
    BY <1>1, <1>4 DEF Passed, Inflates
  <2> QED BY <1>1, <2>1 DEF ConnInv, StageInv, Plain, Stages
<1>6. AnswerInv(c)'
  <2>1. ex[c].rq.agent => Fit
    <3> SUFFICES ASSUME ex[c].rq.agent PROVE Fit
      OBVIOUS
    <3>1. Passed(ex[c].rq) /\ FromAgent(ex[c].rq)
      BY DEF ConnInv, StageInv, RequestInv
    <3> QED BY <3>1, AgentPasses DEF Passed
  <2>2. Fit' = Fit
    BY DEF Fit
  <2> QED BY <1>1, <2>1, <2>2 DEF ConnInv, AnswerInv, Plain
<1> QED BY <1>1, <1>2, <1>3, <1>5, <1>6 DEF ConnInv

(* The slices while no handler takes or returns one.                       *)
LEMMA PoolStays ==
    ASSUME Shape, Shape', PoolInv, NEW c \in Conns, UNCHANGED decodeVars,
           \A d \in Conns \ {c} : ex'[d] = ex[d] /\ UseInv(d),
           ex'[c].pc \in {"use", "release"} => ex[c].pc \in {"use", "release"},
           ex'[c].pc # "use"
    PROVE  PoolInv' /\ \A d \in Conns : UseInv(d)'
<1>1. PoolInv'
  <2>1. \A d \in Conns : ex'[d].pc \in {"use", "release"} => ex[d].pc \in {"use", "release"}
    OBVIOUS
  <2>2. UNCHANGED <<elems, pool, allocated, buf, clone>>
    BY DEF decodeVars
  <2> QED BY <2>1, <2>2 DEF PoolInv
<1>2. ASSUME NEW d \in Conns \ {c} PROVE UseInv(d)'
  <2>1. UseInv(d) /\ ex'[d] = ex[d] /\ UNCHANGED <<elems, buf, clone>>
    BY <1>2 DEF decodeVars
  <2> QED BY <2>1 DEF UseInv
<1>3. UseInv(c)'
  BY DEF UseInv
<1> QED BY <1>1, <1>2, <1>3

(* The invariant of one connection, of the pool and of the others give the *)
(* whole.                                                                  *)
LEMMA Assembled ==
    ASSUME ExchangeInv, NEW c \in Conns, UNCHANGED <<serverKey, agentKey>>,
           store' \in Stores, Keeps(store, store'),
           Shape', ConnInv(c)', \A d \in Conns \ {c} : ex'[d] = ex[d],
           PoolInv', \A d \in Conns : UseInv(d)'
    PROVE  ExchangeInv'
<1>1. \A d \in Conns \ {c} : ConnInv(d)'
  BY Untouched DEF ExchangeInv
<1> QED BY <1>1 DEF ExchangeInv

(* A handler's last step, where it neither stores nor touches a slice.     *)
LEMMA AnswerStep ==
    ASSUME ExchangeInv, NEW c \in Conns, NEW a, Answered(c, a),
           UNCHANGED <<serverKey, agentKey, store, decodeVars>>,
           ex[c].pc \in {"handle", "readback"},
           a.status # 0 \/ ex[c].rq.route = "unknown",
           ex[c].rq.route \in WriteRoutes => (a.status = 200 <=> ex[c].effect # << >>),
           ex[c].rq.agent => a.status = 200
    PROVE  ExchangeInv'
<1>1. ConnInv(c)' /\ Shape' /\ \A d \in Conns \ {c} : ex'[d] = ex[d]
  BY AnsweredKeeps DEF ExchangeInv
<1>2. ex'[c].pc = "respond"
  BY DEF Answered, ExchangeInv, Shape
<1>3. PoolInv' /\ \A d \in Conns : UseInv(d)'
  BY <1>1, <1>2, PoolStays DEF ExchangeInv
<1>4. store' \in Stores /\ Keeps(store, store')
  BY DEF ExchangeInv, Keeps
<1> QED BY <1>1, <1>3, <1>4, Assembled

-----------------------------------------------------------------------------
(* What the publisher sends is a report of the agent.                      *)
LEMMA ReportRequest ==
    ASSUME NEW items \in Seq(Measured), Len(items) \in 1 .. Slots,
           NEW route \in {"updates", "update"}, route = "update" => Len(items) = 1
    PROVE  WellFormed(DoGzJSON(route, items)) /\ FromAgent(DoGzJSON(route, items))
<1> DEFINE rq == DoGzJSON(route, items)
           plain == Body("json", items)
<1>1. plain.form = "json" /\ plain.items = items
  BY DEF Body
<1>2. /\ rq.gzip /\ rq.bytes = Gzip(plain) /\ rq.route = route /\ rq.param = Zero
      /\ rq.hash = IF TrimKey[agentKey] # NoKey THEN SumSHA256(plain, TrimKey[agentKey]) ELSE NoHash
  BY DEF DoGzJSON, Request
<1>3. rq.bytes.form = "gzip" /\ rq.bytes.items[1] = plain
  BY <1>2 DEF Gzip, Body
<1>4. Plain(rq) = plain
  BY <1>2, <1>3 DEF Plain
<1>5. Measured \subseteq Item
  BY DEF Measured, Metric, Item
<1>6. items \in Seq(Item)
  BY <1>5
<1>7. plain \in PlainBodies
  BY <1>1, <1>6, DecodeAssumption DEF PlainBodies, Body
<1> HIDE DEF rq, plain
<1>8. WellFormed(rq)
  BY <1>1, <1>2, <1>4, <1>7, ZeroType DEF WellFormed, Routes
<1>9. FromAgent(rq)
  BY <1>1, <1>2, <1>3, <1>4 DEF FromAgent
<1> QED BY <1>8, <1>9 DEF rq

(* A request comes in.                                                     *)
LEMMA ArriveStep ==
    ASSUME ExchangeInv, NEW c \in Conns, NEW rq, WellFormed(rq), rq.agent => FromAgent(rq),
           Arrive(c, rq)
    PROVE  ExchangeInv'
<1>1. /\ UNCHANGED <<serverKey, agentKey, store, decodeVars>> /\ ex[c].pc = "idle"
      /\ Shape' /\ \A d \in Conns \ {c} : ex'[d] = ex[d]
  BY DEF Arrive, ExchangeInv, Shape, Idle
<1>2. CASE ~Inflates(rq)
  <2>1. /\ ex'[c].pc = "done" /\ ex'[c].rq = rq /\ ex'[c].ans = Answer(400, "none", Empty)
        /\ ex'[c].wire = [NoWire EXCEPT !.status = 400] /\ ex'[c].effect = << >>
    BY <1>2 DEF Arrive, ExchangeInv, Shape, Idle
  <2>2. ~rq.agent
    BY <1>2 DEF FromAgent, Inflates
  <2>3. Answer(400, "none", Empty).status = 400
    BY DEF Answer
  <2>4. RequestInv(c)'
    BY <2>1, <2>2 DEF RequestInv, WellFormed, Inflates, Plain
  <2>5. StageInv(c)'
    BY <2>1 DEF StageInv, Stages
  <2>6. AnswerInv(c)'
    BY <2>1, <2>2, <2>3 DEF AnswerInv, WriteRoutes, NoWire
  <2>7. PoolInv' /\ \A d \in Conns : UseInv(d)'
    BY <1>1, <2>1, PoolStays DEF ExchangeInv
  <2> QED BY <1>1, <2>4, <2>5, <2>6, <2>7, Assembled DEF ConnInv, ExchangeInv, Keeps
<1>3. CASE Inflates(rq)
  <2>1. /\ ex'[c].pc = (IF Verify(rq) = Unserved THEN "handle" ELSE "respond")
        /\ ex'[c].rq = rq /\ ex'[c].ans = Verify(rq) /\ ex'[c].effect = << >>
    BY <1>3 DEF Arrive, ExchangeInv, Shape, Idle
  <2>2. FromAgent(rq) => FromAgent(rq)'
    BY <1>1 DEF FromAgent, Plain
  <2>3. Verify(rq)' = Verify(rq)
    BY <1>1 DEF Verify
  <2>4. RequestInv(c)'
    BY <1>1, <2>1 DEF RequestInv, WellFormed, Inflates, Plain, FromAgent
  <2>5. StageInv(c)'
    <3>1. Passed(ex[c].rq)' <=> Inflates(rq) /\ Verify(rq) = Unserved
      BY <1>1, <2>1 DEF Passed, Inflates, Verify, Plain
    <3> QED BY <1>3, <2>1, <3>1 DEF StageInv, Stages
  <2>6. AnswerInv(c)'
    <3>1. Fit' = Fit
      BY <1>1 DEF Fit
    <3>2. Verify(rq) # Unserved => Verify(rq).status = 400 /\ (rq.agent => ~Fit)
      BY VerifyAnswers, AgentPasses
    <3> QED BY <2>1, <3>1, <3>2 DEF AnswerInv
  <2>7. PoolInv' /\ \A d \in Conns : UseInv(d)'
    BY <1>1, <2>1, PoolStays DEF ExchangeInv
  <2> QED BY <1>1, <2>4, <2>5, <2>6, <2>7, Assembled DEF ConnInv, ExchangeInv, Keeps
<1> QED BY <1>2, <1>3

(* The answer goes out.                                                    *)
LEMMA RespondStep ==
    ASSUME ExchangeInv, NEW c \in Conns, Respond(c)
    PROVE  ExchangeInv'
<1>1. /\ UNCHANGED <<serverKey, agentKey, store, decodeVars>> /\ ex[c].pc = "respond"
      /\ Shape' /\ \A d \in Conns \ {c} : ex'[d] = ex[d]
      /\ ex'[c].pc = "done" /\ ex'[c].rq = ex[c].rq /\ ex'[c].ans = ex[c].ans
      /\ ex'[c].effect = ex[c].effect /\ ex'[c].wire = Outbound(ex[c].rq, ex[c].ans)
  BY DEF Respond, ExchangeInv, Shape
<1>2. ConnInv(c)
  BY DEF ExchangeInv
<1>3. RequestInv(c)'
  BY <1>1, <1>2, SameRequest DEF ConnInv
<1>4. StageInv(c)'
  <2>1. Verify(ex[c].rq)' = Verify(ex[c].rq)
    BY <1>1 DEF Verify
  <2>2. Passed(ex[c].rq) => Passed(ex[c].rq)'
    BY <1>1, <2>1 DEF Passed, Inflates
  <2> QED BY <1>1, <1>2, <2>2 DEF ConnInv, StageInv, Plain, Stages
<1>5. AnswerInv(c)'
  <2>1. Fit' = Fit
    BY <1>1 DEF Fit
  <2>2. Outbound(ex[c].rq, ex[c].ans)' = Outbound(ex[c].rq, ex[c].ans)
    BY <1>1 DEF Outbound, ServeError, Compressed, Hashed
  <2> QED BY <1>1, <1>2, <2>1, <2>2 DEF ConnInv, AnswerInv, Plain
<1>6. PoolInv' /\ \A d \in Conns : UseInv(d)'
  BY <1>1, PoolStays DEF ExchangeInv
<1> QED BY <1>1, <1>3, <1>4, <1>5, <1>6, Assembled DEF ConnInv, ExchangeInv, Keeps

(* The client has read the answer.                                         *)
LEMMA DoneStep ==
    ASSUME ExchangeInv, NEW c \in Conns, Done(c)
    PROVE  ExchangeInv'
<1>1. /\ UNCHANGED <<serverKey, agentKey, store, decodeVars>>
      /\ Shape' /\ \A d \in Conns \ {c} : ex'[d] = ex[d]
      /\ ex'[c].pc = "idle" /\ ex'[c].effect = << >>
  BY DEF Done, ExchangeInv, Shape, Idle
<1>2. ConnInv(c)'
  BY <1>1 DEF ConnInv, RequestInv, StageInv, AnswerInv, Stages
<1>3. PoolInv' /\ \A d \in Conns : UseInv(d)'
  BY <1>1, PoolStays DEF ExchangeInv
<1> QED BY <1>1, <1>2, <1>3, Assembled DEF ExchangeInv, Keeps

-----------------------------------------------------------------------------
(* The handlers without a metric write nothing and answer with a status.   *)
LEMMA ViewKeeps ==
    ASSUME ExchangeInv, NEW c \in Conns, NEW a,
           NEW route \in {"snapshot", "index", "ping", "method", "unknown"},
           View(c, route, a), a.status # 0 \/ route = "unknown"
    PROVE  ExchangeInv'
<1>1. /\ ex[c].pc = "handle" /\ ex[c].rq.route = route /\ Answered(c, a)
      /\ UNCHANGED <<serverKey, agentKey, store, decodeVars>>
  BY DEF View, At
<1>2. ~ex[c].rq.agent
  BY <1>1 DEF ExchangeInv, ConnInv, RequestInv, FromAgent
<1>3. route \notin WriteRoutes
  BY DEF WriteRoutes
<1> QED BY <1>1, <1>2, <1>3, AnswerStep

(* Requests that only look.                                                *)
LEMMA ViewStep ==
    ASSUME ExchangeInv, NEW c \in Conns,
           SnapshotJSON(c) \/ Index(c) \/ Ping(c) \/ NoMethod(c) \/ NoRoute(c)
    PROVE  ExchangeInv'
<1>1. CASE SnapshotJSON(c)
  <2> DEFINE e == \A n \in Names : store.gauges[n] \notin NonFinite
  <2>1. Rendered("snapshot", e).status = 200
    BY DEF Rendered, JSON, Answer
  <2>2. View(c, "snapshot", Rendered("snapshot", e))
    BY <1>1 DEF SnapshotJSON
  <2> HIDE DEF e
  <2>3. Rendered("snapshot", e).status # 0
    BY <2>1, Codes
  <2> QED BY <2>2, <2>3, ViewKeeps
<1>2. CASE Index(c)
  <2> DEFINE a == Answer(200, "html", Body("page", << >>))
  <2>1. a.status # 0
    BY DEF Answer
  <2> HIDE DEF a
  <2> QED BY <1>2, <2>1, ViewKeeps DEF Index, a
<1>3. CASE Ping(c)
  <2> DEFINE a == Text(500, "db ping error")
  <2>1. a.status # 0 /\ View(c, "ping", a)
    BY <1>3, Codes DEF Text, Answer, Ping
  <2> HIDE DEF a
  <2> QED BY <2>1, ViewKeeps
<1>4. CASE NoMethod(c)
  <2> DEFINE a == Text(405, "method not allowed")
  <2>1. a.status # 0 /\ View(c, "method", a)
    BY <1>4, Codes DEF Text, Answer, NoMethod
  <2> HIDE DEF a
  <2> QED BY <2>1, ViewKeeps
<1>5. CASE NoRoute(c)
  BY <1>5, ViewKeeps DEF NoRoute
<1> QED BY <1>1, <1>2, <1>3, <1>4, <1>5

(* What a request of one metric sends.                                     *)
LEMMA SentType ==
    ASSUME ExchangeInv, NEW c \in Conns, ex[c].pc = "handle",
           \/ ex[c].rq.route \in {"path", "get"}
           \/ ex[c].rq.route \in {"update", "value"} /\ Plain(ex[c].rq).form = "json"
    PROVE  Sent(c) \in Metric
<1>1. WellFormed(ex[c].rq) /\ Inflates(ex[c].rq)
  BY DEF ExchangeInv, ConnInv, RequestInv, StageInv, Passed
<1>2. CASE ex[c].rq.route \in {"path", "get"}
  BY <1>1, <1>2 DEF Sent, WellFormed
<1>3. CASE ex[c].rq.route \in {"update", "value"} /\ Plain(ex[c].rq).form = "json"
  <2>1. Plain(ex[c].rq) \in PlainBodies /\ Len(Plain(ex[c].rq).items) = 1
    BY <1>1, <1>3 DEF WellFormed
  <2>2. Plain(ex[c].rq).items[1] \in Item
    BY <2>1 DEF PlainBodies
  <2>3. Sent(c) = Fill(Zero, Plain(ex[c].rq).items[1])
    BY <1>3 DEF Sent
  <2> QED BY <2>2, <2>3, FillType, ZeroType
<1> QED BY <1>2, <1>3

(* The answers of Get: 200 exactly for what is stored.                     *)
LEMMA FoundAnswers ==
    ASSUME NEW c \in Conns
    PROVE  /\ Found(c).status # 0
           /\ Sent(c) \in Measured /\ Stored(Sent(c)) # Nil => Found(c).status = 200
<1>1. /\ Text(200, "ok").status = 200 /\ Text(200, "value").status = 200
      /\ \A e \in BOOLEAN : Rendered("metric", e).status = 200
  BY DEF Text, Rendered, JSON, Answer
<1> DEFINE m == Sent(c)
           enc == m.mtype = "counter" \/ Stored(m) \notin NonFinite
           good == CASE ex[c].rq.route = "path" -> Text(200, "ok")
                     [] ex[c].rq.route = "get" -> Text(200, "value")
                     [] OTHER -> Rendered("metric", enc)
<1>2. enc \in BOOLEAN
  OBVIOUS
<1>3. Found(c) = IF Trim[m.id] = Blank THEN NotFound
                 ELSE IF m.mtype \notin {"gauge", "counter"} THEN BadRequest
                 ELSE IF Stored(m) = Nil THEN NotFound
                 ELSE good
  BY DEF Found
<1> HIDE DEF enc
<1>4. good.status = 200
  <2>1. CASE ex[c].rq.route = "path"
    BY <1>1, <2>1
  <2>2. CASE ex[c].rq.route = "get"
    BY <1>1, <2>2
  <2>3. CASE ex[c].rq.route \notin {"path", "get"}
    BY <1>1, <1>2, <2>3
  <2> QED BY <2>1, <2>2, <2>3
<1> HIDE DEF good, m
<1>5. Found(c).status # 0
  <2>1. CASE Found(c) = NotFound
    BY <2>1, NotUnserved
  <2>2. CASE Found(c) = BadRequest
    BY <2>2, NotUnserved
  <2>3. CASE Found(c) = good
    BY <1>4, <2>3, Codes
  <2> QED BY <1>3, <2>1, <2>2, <2>3
<1>6. ASSUME m \in Measured, Stored(m) # Nil PROVE Found(c).status = 200
  <2>1. Trim[m.id] # Blank /\ m.mtype \in {"gauge", "counter"}
    BY <1>6 DEF Measured, Usable
  <2> QED BY <1>3, <1>4, <1>6, <2>1
<1> QED BY <1>5, <1>6 DEF m

(* A read of one metric.                                                   *)
LEMMA ReadStep ==
    ASSUME ExchangeInv, NEW c \in Conns, ReadBack(c) \/ GetMetric(c)
    PROVE  ExchangeInv'
<1>1. CASE ReadBack(c)
  <2>1. /\ ex[c].pc = "readback" /\ Answered(c, Found(c))
        /\ UNCHANGED <<serverKey, agentKey, store, decodeVars>>
    BY <1>1 DEF ReadBack, At
  <2>2. ex[c].effect # << >> /\ Sent(c) \in Measured /\ Stored(Sent(c)) # Nil
    BY <2>1 DEF ExchangeInv, ConnInv, StageInv
  <2>3. Found(c).status = 200
    BY <2>2, FoundAnswers
  <2> QED BY <2>1, <2>2, <2>3, AnswerStep
<1>2. CASE GetMetric(c)
  <2> DEFINE a == IF Malformed(c) = Unserved THEN Found(c) ELSE Malformed(c)
  <2>1. /\ ex[c].pc = "handle" /\ ex[c].rq.route \in {"get", "value"} /\ Answered(c, a)
        /\ UNCHANGED <<serverKey, agentKey, store, decodeVars>>
    BY <1>2 DEF GetMetric, At
  <2>2. Malformed(c) # Unserved => Malformed(c) = BadRequest
    BY <2>1 DEF Malformed
  <2>3. a.status # 0
    <3>1. CASE Malformed(c) = Unserved
      BY <3>1, FoundAnswers
    <3>2. CASE Malformed(c) # Unserved
      <4>1. a = BadRequest
        BY <2>2, <3>2
      <4> QED BY <4>1, NotUnserved
    <3> QED BY <3>1, <3>2
  <2> HIDE DEF a
  <2>4. ~ex[c].rq.agent
    BY <2>1 DEF ExchangeInv, ConnInv, RequestInv, FromAgent
  <2>5. ex[c].rq.route \notin WriteRoutes
    BY <2>1 DEF WriteRoutes
  <2> QED BY <2>1, <2>3, <2>4, <2>5, AnswerStep
<1> QED BY <1>1, <1>2

(* A sequence of length one is the tuple of its element.                   *)
LEMMA Singleton ==
    ASSUME NEW S, NEW s \in Seq(S), Len(s) = 1
    PROVE  s[1] \in S /\ s = <<s[1]>>
<1>1. s[1] \in S
  BY 1 \in 1 .. Len(s), ElementOfSeq
<1>2. <<s[1]>> \in Seq(S) /\ Len(<<s[1]>>) = 1 /\ <<s[1]>>[1] = s[1]
  BY <1>1
<1>3. \A i \in 1 .. Len(s) : s[i] = <<s[1]>>[i]
  BY <1>2
<1> QED BY <1>1, <1>2, <1>3, SeqEqual

(* Of a report of one metric the handler sees just that.                   *)
LEMMA AgentSends ==
    ASSUME ExchangeInv, NEW c \in Conns, ex[c].pc = "handle", ex[c].rq.route = "update",
           ex[c].rq.agent
    PROVE  /\ Plain(ex[c].rq).form = "json" /\ Plain(ex[c].rq).items = <<Sent(c)>>
           /\ Sent(c) \in Measured
<1> DEFINE items == Plain(ex[c].rq).items
<1>1. WellFormed(ex[c].rq) /\ Inflates(ex[c].rq) /\ FromAgent(ex[c].rq)
  BY DEF ExchangeInv, ConnInv, RequestInv, StageInv, Passed
<1>2. Plain(ex[c].rq).form = "json" /\ items \in Seq(Measured) /\ Len(items) = 1
  BY <1>1 DEF FromAgent, WellFormed
<1>3. Sent(c) = Fill(Zero, items[1])
  BY DEF Sent
<1> HIDE DEF items
<1>4. items[1] \in Measured /\ items = <<items[1]>>
  <2>1. items \in Seq(Measured) /\ Len(items) = 1
    BY <1>2
  <2> QED BY <2>1, Singleton
<1>5. Fill(Zero, items[1]) = items[1]
  <2>1. /\ items[1] \in Metric /\ items[1].id # Nil /\ items[1].mtype # Nil
        /\ DOMAIN items[1] = {"id", "mtype", "value", "delta"}
    BY <1>4, ExchangeAssumption DEF Measured, Metric
  <2>2. Zero.value = Nil /\ Zero.delta = Nil
    BY DEF Zero
  <2>3. items[1] = [id |-> items[1].id, mtype |-> items[1].mtype, value |-> items[1].value,
                    delta |-> items[1].delta]
    BY <2>1 DEF Metric
  <2>4. \A f \in DOMAIN items[1] : Fill(Zero, items[1])[f] = items[1][f]
    BY <2>1, <2>2 DEF Fill
  <2> QED BY <2>1, <2>3, <2>4 DEF Fill
<1> QED BY <1>2, <1>3, <1>4, <1>5 DEF items

(* What Upsert refuses.                                                    *)
LEMMA MalformedAnswers ==
    ASSUME NEW c \in Conns, ex[c].rq.route \in {"update", "path"}
    PROVE  /\ Malformed(c) \in {Unserved, NotFound, BadRequest}
           /\ Malformed(c) = Unserved =>
                /\ Trim[Sent(c).id] # Blank
                /\ ex[c].rq.route = "update" => Plain(ex[c].rq).form = "json"
           /\ /\ ex[c].rq.route = "update" /\ Plain(ex[c].rq).form = "json"
              /\ Trim[Sent(c).id] # Blank
              => Malformed(c) = Unserved
<1>1. CASE ex[c].rq.route = "path"
  <2>1. Malformed(c) = IF Trim[Sent(c).id] = Blank THEN NotFound
                       ELSE IF Usable(Sent(c)) THEN Unserved ELSE BadRequest
    BY <1>1 DEF Malformed
  <2> QED BY <1>1, <2>1, NotUnserved
<1>2. CASE ex[c].rq.route = "update"
  <2>1. Malformed(c) = IF Plain(ex[c].rq).form # "json" \/ Trim[Sent(c).id] = Blank
                       THEN BadRequest ELSE Unserved
    BY <1>2 DEF Malformed
  <2> QED BY <1>2, <2>1, NotUnserved
<1> QED BY <1>1, <1>2

(* A write of one metric.                                                  *)
LEMMA UpsertStep ==
    ASSUME ExchangeInv, NEW c \in Conns, Upsert(c)
    PROVE  ExchangeInv'
<1>1. /\ ex[c].pc = "handle" /\ ex[c].rq.route \in {"update", "path"}
      /\ UNCHANGED <<serverKey, agentKey, decodeVars>>
  BY DEF Upsert, At
<1>2. ConnInv(c) /\ Shape /\ ex[c].effect = << >> /\ store \in Stores
  BY <1>1 DEF ExchangeInv, ConnInv, StageInv
<1>3. ex[c].rq.agent => /\ ex[c].rq.route = "update" /\ Sent(c) \in Measured
                        /\ Plain(ex[c].rq).form = "json" /\ Plain(ex[c].rq).items = <<Sent(c)>>
  <2> SUFFICES ASSUME ex[c].rq.agent
               PROVE  /\ ex[c].rq.route = "update" /\ Sent(c) \in Measured
                      /\ Plain(ex[c].rq).form = "json" /\ Plain(ex[c].rq).items = <<Sent(c)>>
    OBVIOUS
  <2>1. ex[c].rq.route = "update"
    BY <1>1, <1>2 DEF ConnInv, RequestInv, FromAgent
  <2> QED BY <1>1, <2>1, AgentSends
<1>4. CASE ~(Malformed(c) = Unserved /\ Usable(Sent(c)))
  <2> DEFINE a == IF Malformed(c) = Unserved THEN BadRequest ELSE Malformed(c)
  <2>1. Answered(c, a) /\ UNCHANGED store
    BY <1>4 DEF Upsert
  <2>2. a \in {NotFound, BadRequest}
    BY <1>1, MalformedAnswers
  <2>3. a.status \notin {0, 200}
    BY <2>2, NotUnserved
  <2>4. ~ex[c].rq.agent
    BY <1>1, <1>3, <1>4, MalformedAnswers DEF Measured
  <2> HIDE DEF a
  <2> QED BY <1>1, <1>2, <2>1, <2>3, <2>4, AnswerStep
<1>5. CASE Malformed(c) = Unserved /\ Usable(Sent(c))
  <2> DEFINE m == Trimmed(Sent(c))
  <2>1. /\ store' = UpdateMany(store, <<m>>)
        /\ ex' = [ex EXCEPT ![c].pc = "readback", ![c].effect = <<m>>]
    BY <1>5 DEF Upsert
  <2>2. Sent(c) \in Metric /\ Trim[Sent(c).id] # Blank
        /\ (ex[c].rq.route = "update" => Plain(ex[c].rq).form = "json")
    BY <1>1, <1>5, MalformedAnswers, SentType
  <2>3. m \in UsableMetric
    BY <1>5, <2>2, TrimmedType
  <2>4. m.mtype = Sent(c).mtype /\ m.id = Trim[Sent(c).id]
    BY <2>2 DEF Trimmed, Metric
  <2> HIDE DEF m
  <2>5. store' = ApplyItem(store, m)
    BY <2>1, <2>3, UpdateOne
  <2>6. store' \in Stores /\ Keeps(store, store')
    BY <1>2, <2>3, <2>5, ApplyItemType, ApplyItemKeeps
  <2>7. Sent(c).mtype \in {"gauge", "counter"}
        /\ IF Sent(c).mtype = "gauge" THEN store'.gauges[Trim[Sent(c).id]] # Nil
           ELSE store'.counters[Trim[Sent(c).id]] # Nil
    <3>1. Sent(c).mtype \in {"gauge", "counter"}
      BY <1>5 DEF Usable
    <3>2. /\ m.mtype = "gauge" => store'.gauges[m.id] # Nil
          /\ m.mtype = "counter" => store'.counters[m.id] # Nil
      BY <1>2, <2>3, <2>5, ApplyItemKeeps
    <3> QED BY <2>4, <3>1, <3>2
  <2>8. /\ ex'[c].pc = "readback" /\ ex'[c].effect = <<m>> /\ ex'[c].rq = ex[c].rq
        /\ ex'[c].ans = ex[c].ans /\ Shape' /\ \A d \in Conns \ {c} : ex'[d] = ex[d]
    BY <1>2, <2>1 DEF Shape
  <2>9. RequestInv(c)'
    BY <1>1, <1>2, <2>8, SameRequest DEF ConnInv
  <2>10. StageInv(c)'
    <3>1. Verify(ex[c].rq)' = Verify(ex[c].rq)
      BY <1>1, <2>8 DEF Verify
    <3>2. Passed(ex[c].rq)'
      BY <1>1, <1>2, <2>8, <3>1 DEF ConnInv, StageInv, Passed, Inflates
    <3>3. Sent(c)' = Sent(c)
      BY <2>8 DEF Sent, Plain, Fill
    <3>4. Sent(c)' \in Measured /\ Stored(Sent(c))' # Nil
      BY <1>5, <2>2, <2>7, <3>3 DEF Stored, Measured
    <3>5. <<m>> # << >>
      OBVIOUS
    <3>6. ex'[c].rq.route \in WriteRoutes
      BY <1>1, <2>8 DEF WriteRoutes
    <3>7. (ex[c].rq.route = "update" => Plain(ex[c].rq).form = "json")'
      BY <2>2, <2>8 DEF Plain
    <3> QED BY <1>1, <2>8, <3>2, <3>4, <3>5, <3>6, <3>7 DEF StageInv, Stages
  <2>11. AnswerInv(c)'
    <3>1. ASSUME ex[c].rq.agent
          PROVE  UpdateMany(EmptyStore, <<m>>)
                   = UpdateMany(EmptyStore, ValidItems(Plain(ex[c].rq).items))
      <4>1. Plain(ex[c].rq).items = <<Sent(c)>>
        BY <1>3, <3>1
      <4>2. /\ <<Sent(c)>> \in Seq(Metric) /\ Len(<<Sent(c)>>) = 1 /\ <<Sent(c)>>[1] = Sent(c)
        BY <2>2
      <4>3. ValidItems(<<Sent(c)>>) = [i \in 1 .. Len(<<Sent(c)>>) |-> Trimmed(<<Sent(c)>>[i])]
        <5>1. \A i \in 1 .. Len(<<Sent(c)>>) :
                Trim[<<Sent(c)>>[i].id] # Blank /\ Usable(<<Sent(c)>>[i])
          BY <1>5, <2>2, <4>2
        <5> QED BY <4>2, <5>1, ValidItemsAll
      <4>4. [i \in 1 .. Len(<<Sent(c)>>) |-> Trimmed(<<Sent(c)>>[i])] = <<m>>
        <5> DEFINE v == [i \in 1 .. Len(<<Sent(c)>>) |-> Trimmed(<<Sent(c)>>[i])]
        <5>1. v \in Seq(UsableMetric)
          BY <4>2, <4>3, ValidItemsType
        <5>2. Len(v) = 1 /\ v[1] = m
          BY <4>2 DEF m
        <5>3. <<m>> \in Seq(UsableMetric) /\ Len(<<m>>) = 1 /\ <<m>>[1] = m
          BY <2>3
        <5> HIDE DEF v
        <5>4. \A i \in 1 .. Len(v) : v[i] = <<m>>[i]
          BY <5>2, <5>3
        <5>5. v = <<m>>
          BY <5>1, <5>2, <5>3, <5>4, SeqEqual
        <5> QED BY <5>5 DEF v
      <4> QED BY <4>1, <4>3, <4>4
    <3> QED BY <2>8, <3>1 DEF AnswerInv, Plain
  <2>12. PoolInv' /\ \A d \in Conns : UseInv(d)'
    BY <1>1, <2>8, PoolStays DEF ExchangeInv
  <2> QED BY <1>1, <2>6, <2>8, <2>9, <2>10, <2>11, <2>12, Assembled DEF ConnInv
<1> QED BY <1>4, <1>5

-----------------------------------------------------------------------------
(* The slices change hands.                                                *)
LEMMA DecodedIs ==
    ASSUME NEW old \in [1 .. Slots -> Metric], NEW items \in Seq(Item), Len(items) <= Slots
    PROVE  /\ Decoded(old, items) \in [1 .. Slots -> Metric]
           /\ \A i \in 1 .. Len(items) :
                 Fill(Decoded(old, items)[i], items[i]) = Decoded(old, items)[i]
<1>1. DOMAIN items = 1 .. Len(items) /\ Len(items) \in Nat /\ Slots \in Nat
  BY DecodeAssumption
<1>2. ASSUME NEW i \in 1 .. Slots PROVE Decoded(old, items)[i] \in Metric
  <2>1. CASE i \in DOMAIN items
    <3>1. items[i] \in Item /\ old[i] \in Metric
      BY <1>1, <2>1
    <3>2. Decoded(old, items)[i] = Fill(old[i], items[i])
      BY <2>1 DEF Decoded
    <3> QED BY <3>1, <3>2, FillType
  <2>2. CASE i \notin DOMAIN items
    BY <2>2 DEF Decoded
  <2> QED BY <2>1, <2>2
<1>3. Decoded(old, items) \in [1 .. Slots -> Metric]
  BY <1>2 DEF Decoded
<1>4. ASSUME NEW i \in 1 .. Len(items)
      PROVE  Fill(Decoded(old, items)[i], items[i]) = Decoded(old, items)[i]
  <2>1. i \in 1 .. Slots /\ i \in DOMAIN items
    BY <1>1
  <2>2. Decoded(old, items)[i] = Fill(old[i], items[i])
    BY <2>1 DEF Decoded
  <2> QED BY <2>2, FillTwice
<1> QED BY <1>3, <1>4

(* A batch is decoded into a pooled slice.                                 *)
LEMMA DecodeStep ==
    ASSUME ExchangeInv, NEW c \in Conns, NEW b \in Buffers, DecodeBatch(c, b)
    PROVE  ExchangeInv'
<1> DEFINE body == Plain(ex[c].rq)
<1>1. /\ ex[c].pc = "handle" /\ ex[c].rq.route = "updates" /\ Get(b)
      /\ UNCHANGED <<serverKey, agentKey, store>>
      /\ elems' = [elems EXCEPT ![b] = Decoded(elems[b], body.items)]
      /\ allocated' = allocated \cup {b}
  BY DEF DecodeBatch, At, Decode, DecodeFails
<1>2. ConnInv(c) /\ Shape /\ PoolInv /\ ex[c].effect = << >>
  BY <1>1 DEF ExchangeInv, ConnInv, StageInv
<1>3. body \in PlainBodies /\ Passed(ex[c].rq)
  BY <1>1, <1>2 DEF ConnInv, RequestInv, StageInv, Passed, WellFormed
<1>4. body.items \in Seq(Item) /\ Len(body.items) <= Slots
  BY <1>3 DEF PlainBodies
<1>5. elems[b] \in [1 .. Slots -> Metric]
  BY <1>2 DEF PoolInv
<1>6. /\ elems' \in [Buffers -> [1 .. Slots -> Metric]]
      /\ elems'[b] = Decoded(elems[b], body.items)
      /\ \A x \in Buffers \ {b} : elems'[x] = elems[x]
  <2>1. Decoded(elems[b], body.items) \in [1 .. Slots -> Metric]
    BY <1>4, <1>5, DecodedIs
  <2> QED BY <1>1, <1>2, <2>1 DEF PoolInv
<1>7. \A d \in Conns : ex[d].pc \in {"use", "release"} => buf[d] # b /\ buf[d] \in Buffers
  BY <1>1, <1>2 DEF PoolInv, Get
<1>8. store' \in Stores /\ Keeps(store, store')
  BY <1>1 DEF ExchangeInv, Keeps
<1> HIDE DEF body
<1>9. CASE body.form = "json"
  <2>1. /\ pool' = pool \ {b} /\ buf' = [buf EXCEPT ![c] = b]
        /\ clone' = [clone EXCEPT ![c] = Clone(elems'[b], Len(body.items))]
        /\ ex' = [ex EXCEPT ![c].pc = "use"]
    BY <1>9 DEF DecodeBatch, Decode, body
  <2>2. /\ ex'[c].pc = "use" /\ ex'[c].rq = ex[c].rq /\ ex'[c].effect = ex[c].effect
        /\ Shape' /\ \A d \in Conns \ {c} : ex'[d] = ex[d]
    BY <1>2, <2>1 DEF Shape
  <2>3. RequestInv(c)'
    BY <1>1, <1>2, <2>2, SameRequest DEF ConnInv
  <2>4. StageInv(c)'
    <3>1. Verify(ex[c].rq)' = Verify(ex[c].rq)
      BY <1>1, <2>2 DEF Verify
    <3>2. Passed(ex[c].rq)'
      BY <1>3, <2>2, <3>1 DEF Passed, Inflates
    <3>3. Plain(ex[c].rq)' = body
      BY <2>2 DEF Plain, body
    <3> QED BY <1>1, <1>2, <1>9, <2>2, <3>2, <3>3 DEF StageInv, Stages
  <2>5. AnswerInv(c)'
    BY <1>2, <2>2 DEF AnswerInv
  <2>6. /\ buf'[c] = b /\ clone'[c] = Clone(elems'[b], Len(body.items))
        /\ \A d \in Conns \ {c} : buf'[d] = buf[d] /\ clone'[d] = clone[d]
    BY <1>2, <2>1 DEF PoolInv
  <2>7. PoolInv'
    <3>1. pool' \subseteq allocated' /\ allocated' \subseteq Buffers
      BY <1>1, <1>2, <2>1 DEF PoolInv
    <3>2. buf' \in [Conns -> Buffers \cup {NoBuf}] /\ DOMAIN clone' = Conns
      BY <1>2, <2>1 DEF PoolInv
    <3>3. \A d \in Conns : ex'[d].pc \in {"use", "release"} => buf'[d] \in allocated' \ pool'
      BY <1>1, <1>2, <2>1, <2>2, <2>6 DEF PoolInv
    <3>4. \A d, e \in Conns :
            ex'[d].pc \in {"use", "release"} /\ ex'[e].pc \in {"use", "release"} /\ d # e
            => buf'[d] # buf'[e]
      BY <1>2, <1>7, <2>2, <2>6 DEF PoolInv
    <3> QED BY <1>6, <3>1, <3>2, <3>3, <3>4 DEF PoolInv
  <2>8. UseInv(c)'
    <3>1. \A i \in 1 .. Len(body.items) : Fill(elems'[b][i], body.items[i]) = elems'[b][i]
      BY <1>4, <1>5, <1>6, DecodedIs
    <3>2. Plain(ex[c].rq)' = body
      BY <2>2 DEF Plain, body
    <3> QED BY <2>6, <3>1, <3>2 DEF UseInv
  <2>9. ASSUME NEW d \in Conns \ {c} PROVE UseInv(d)'
    <3>1. CASE ex[d].pc = "use"
      <4>1. elems'[buf'[d]] = elems[buf[d]] /\ clone'[d] = clone[d]
        BY <1>6, <1>7, <2>6, <3>1
      <4>2. Plain(ex[d].rq)' = Plain(ex[d].rq)
        BY <2>2 DEF Plain
      <4> QED BY <2>2, <3>1, <4>1, <4>2 DEF UseInv, ExchangeInv
    <3>2. CASE ex[d].pc # "use"
      BY <2>2, <3>2 DEF UseInv
    <3> QED BY <3>1, <3>2
  <2> QED BY <1>1, <1>8, <2>2, <2>3, <2>4, <2>5, <2>7, <2>8, <2>9, Assembled DEF ConnInv
<1>10. CASE body.form # "json"
  <2>1. pool' = pool \cup {b} /\ UNCHANGED <<buf, clone>> /\ Answered(c, BadRequest)
    BY <1>10 DEF DecodeBatch, DecodeFails, body
  <2>2. ~ex[c].rq.agent
    BY <1>1, <1>2, <1>10 DEF ConnInv, RequestInv, FromAgent, body
  <2>3. ConnInv(c)' /\ Shape' /\ \A d \in Conns \ {c} : ex'[d] = ex[d]
    BY <1>1, <1>2, <2>1, <2>2, NotUnserved, AnsweredKeeps
  <2>4. ex'[c].pc = "respond"
    BY <1>2, <2>1 DEF Answered, Shape
  <2>5. PoolInv'
    <3>1. \A d \in Conns : ex'[d].pc \in {"use", "release"} =>
             ex[d].pc \in {"use", "release"} /\ buf'[d] \in allocated' \ pool'
      BY <1>1, <1>2, <1>7, <2>1, <2>3, <2>4 DEF PoolInv
    <3> QED BY <1>1, <1>2, <1>6, <2>1, <3>1 DEF PoolInv
  <2>6. ASSUME NEW d \in Conns PROVE UseInv(d)'
    <3>1. CASE d # c /\ ex[d].pc = "use"
      <4>1. elems'[buf'[d]] = elems[buf[d]] /\ clone'[d] = clone[d]
        BY <1>6, <1>7, <2>1, <3>1
      <4>2. Plain(ex[d].rq)' = Plain(ex[d].rq)
        BY <2>3, <3>1 DEF Plain
      <4> QED BY <2>1, <2>3, <3>1, <4>1, <4>2 DEF UseInv, ExchangeInv
    <3>2. CASE d = c \/ ex[d].pc # "use"
      BY <2>3, <2>4, <3>2 DEF UseInv
    <3> QED BY <3>1, <3>2
  <2> QED BY <1>1, <1>8, <2>3, <2>5, <2>6, Assembled
<1> QED BY <1>9, <1>10

(* A report that is decoded does to the store what it spells, whatever an  *)
(* earlier request left in the fields that do not matter.                  *)
LEMMA ReportSeen ==
    ASSUME ExchangeInv, NEW c \in Conns, ex[c].pc = "use", ex[c].rq.agent
    PROVE  /\ ValidItems(Seen(c)) # << >>
           /\ UpdateMany(EmptyStore, ValidItems(Seen(c)))
                = UpdateMany(EmptyStore, ValidItems(Plain(ex[c].rq).items))
<1> DEFINE items == Plain(ex[c].rq).items
           seen == Seen(c)
<1>1. items \in Seq(Measured) /\ Len(items) >= 1
  BY DEF ExchangeInv, ConnInv, RequestInv, FromAgent
<1>2. /\ seen \in Seq(Metric) /\ Len(seen) = Len(items)
      /\ \A i \in 1 .. Len(items) : Fill(seen[i], items[i]) = seen[i]
  BY SeenIs
<1> HIDE DEF items, seen
<1>3. items \in Seq(Metric)
  BY <1>1 DEF Measured
<1>4. ASSUME NEW i \in 1 .. Len(items)
      PROVE  /\ items[i] \in Measured /\ seen[i] \in Metric
             /\ seen[i].id = items[i].id /\ seen[i].mtype = items[i].mtype
             /\ items[i].mtype = "gauge" => items[i].value # Nil /\ seen[i].value = items[i].value
             /\ items[i].mtype = "counter" => items[i].delta # Nil /\ seen[i].delta = items[i].delta
  <2>1. items[i] \in Measured /\ seen[i] \in Metric
    BY <1>1, <1>2
  <2>2. /\ items[i].id # Nil /\ items[i].mtype # Nil
        /\ DOMAIN items[i] = {"id", "mtype", "value", "delta"}
    BY <2>1, ExchangeAssumption DEF Measured, Metric
  <2>3. /\ items[i].mtype = "gauge" => items[i].value # Nil
        /\ items[i].mtype = "counter" => items[i].delta # Nil
    BY <2>1 DEF Measured, Usable
  <2>4. \A f \in DOMAIN items[i] : items[i][f] # Nil => seen[i][f] = items[i][f]
    BY <1>2 DEF Fill
  <2> QED BY <2>1, <2>2, <2>3, <2>4
<1>5. \A i \in 1 .. Len(items) : /\ Trim[seen[i].id] # Blank /\ Usable(seen[i])
                                 /\ Trim[items[i].id] # Blank /\ Usable(items[i])
  BY <1>4 DEF Measured, Usable
<1>6. /\ ValidItems(seen) = [i \in 1 .. Len(seen) |-> Trimmed(seen[i])]
      /\ ValidItems(items) = [i \in 1 .. Len(items) |-> Trimmed(items[i])]
  BY <1>2, <1>3, <1>5, ValidItemsAll
<1>7. ValidItems(seen) \in Seq(UsableMetric) /\ ValidItems(items) \in Seq(UsableMetric)
  BY <1>2, <1>3, ValidItemsType
<1> DEFINE p == ValidItems(seen)
           q == ValidItems(items)
<1>8. Len(p) = Len(items) /\ Len(q) = Len(items) /\ Len(items) \in Nat
  BY <1>1, <1>2, <1>6
<1>9. ASSUME NEW k \in 1 .. Len(p), NEW t PROVE ApplyItem(t, p[k]) = ApplyItem(t, q[k])
  <2>1. p[k] = Trimmed(seen[k]) /\ q[k] = Trimmed(items[k])
    BY <1>2, <1>6, <1>8
  <2>2. k \in 1 .. Len(items)
    BY <1>8
  <2>3. /\ p[k].id = q[k].id /\ p[k].mtype = q[k].mtype /\ p[k].mtype \in {"gauge", "counter"}
        /\ p[k].mtype = "gauge" => q[k].value # Nil /\ p[k].value = q[k].value
        /\ p[k].mtype = "counter" => q[k].delta # Nil /\ p[k].delta = q[k].delta
    BY <1>4, <2>1, <2>2 DEF Trimmed, Measured, Metric, Usable
  <2> HIDE DEF p, q
  <2>4. CASE p[k].mtype = "gauge"
    BY <2>3, <2>4 DEF ApplyItem
  <2>5. CASE p[k].mtype = "counter"
    BY <2>3, <2>5 DEF ApplyItem
  <2> QED BY <2>3, <2>4, <2>5
<1> HIDE DEF p, q
<1>10. p \in Seq(UsableMetric) /\ q \in Seq(UsableMetric)
  BY <1>7 DEF p, q
<1>11. UpdateMany(EmptyStore, p) = UpdateMany(EmptyStore, q)
  BY <1>8, <1>9, <1>10, UpdateManySame
<1>12. p # << >>
  BY <1>1, <1>8, Len(<< >>) = 0
<1> QED BY <1>11, <1>12 DEF p, q, seen, items

(* The valid items of a batch are stored.                                  *)
LEMMA UpsertBatchStep ==
    ASSUME ExchangeInv, NEW c \in Conns, UpsertBatch(c)
    PROVE  ExchangeInv'
<1> DEFINE valid == ValidItems(Seen(c))
           a == IF valid = << >> THEN BadRequest ELSE JSON(200, "updated")
<1>1. /\ ex[c].pc = "use" /\ ex[c].rq.route = "updates"
      /\ UNCHANGED <<serverKey, agentKey, decodeVars>>
      /\ store' = UpdateMany(store, valid)
      /\ ex' = [ex EXCEPT ![c].pc = "release", ![c].effect = valid, ![c].ans = a]
  BY DEF UpsertBatch, At
<1>2. ConnInv(c) /\ Shape /\ store \in Stores
  BY DEF ExchangeInv
<1>3. valid \in Seq(UsableMetric)
  BY <1>1, SeenIs, ValidItemsType
<1>4. store' \in Stores /\ Keeps(store, store')
  BY <1>1, <1>2, <1>3, UpdateManyType, UpdateManyKeeps
<1>5. a.status # 0 /\ (a.status = 200 <=> valid # << >>)
  <2>1. CASE valid = << >>
    BY <2>1, NotUnserved
  <2>2. CASE valid # << >>
    <3>1. JSON(200, "updated").status = 200
      BY DEF JSON, Answer
    <3> QED BY <2>2, <3>1, Codes
  <2> QED BY <2>1, <2>2
<1>6. ex[c].rq.agent => /\ valid # << >> /\ Fit
                        /\ UpdateMany(EmptyStore, valid)
                             = UpdateMany(EmptyStore, ValidItems(Plain(ex[c].rq).items))
  <2> SUFFICES ASSUME ex[c].rq.agent
               PROVE  /\ valid # << >> /\ Fit
                      /\ UpdateMany(EmptyStore, valid)
                           = UpdateMany(EmptyStore, ValidItems(Plain(ex[c].rq).items))
    OBVIOUS
  <2>1. FromAgent(ex[c].rq) /\ Passed(ex[c].rq)
    BY <1>1, <1>2 DEF ConnInv, RequestInv, StageInv
  <2>2. Fit
    BY <2>1, AgentPasses DEF Passed
  <2> QED BY <1>1, <2>2, ReportSeen
<1> HIDE DEF valid, a
<1>7. /\ ex'[c].pc = "release" /\ ex'[c].effect = valid /\ ex'[c].ans = a
      /\ ex'[c].rq = ex[c].rq /\ Shape' /\ \A d \in Conns \ {c} : ex'[d] = ex[d]
  BY <1>1, <1>2 DEF Shape
<1>8. RequestInv(c)'
  BY <1>1, <1>2, <1>7, SameRequest DEF ConnInv
<1>9. StageInv(c)'
  <2>1. Verify(ex[c].rq)' = Verify(ex[c].rq)
    BY <1>1, <1>7 DEF Verify
  <2>2. Passed(ex[c].rq)'
    BY <1>1, <1>2, <1>7, <2>1 DEF ConnInv, StageInv, Passed, Inflates
  <2>3. (Plain(ex[c].rq).form = "json")'
    BY <1>1, <1>2, <1>7 DEF ConnInv, StageInv, Plain
  <2> QED BY <1>1, <1>7, <2>2, <2>3 DEF StageInv, Stages, WriteRoutes
<1>10. AnswerInv(c)'
  <2>1. Fit' = Fit
    BY <1>1 DEF Fit
  <2> QED BY <1>1, <1>5, <1>6, <1>7, <2>1 DEF AnswerInv, Plain
<1>11. PoolInv' /\ \A d \in Conns : UseInv(d)'
  BY <1>1, <1>7, PoolStays DEF ExchangeInv
<1> QED BY <1>1, <1>4, <1>7, <1>8, <1>9, <1>10, <1>11, Assembled DEF ConnInv

(* The slice goes back to the pool.                                        *)
LEMMA ReleaseStep ==
    ASSUME ExchangeInv, NEW c \in Conns, ReleaseBatch(c)
    PROVE  ExchangeInv'
<1>1. /\ ex[c].pc = "release" /\ ex[c].rq.route = "updates" /\ Answered(c, ex[c].ans)
      /\ UNCHANGED <<serverKey, agentKey, store, allocated, elems>>
      /\ pool' = pool \cup {buf[c]} /\ buf' = [buf EXCEPT ![c] = NoBuf]
      /\ clone' = [clone EXCEPT ![c] = << >>]
  BY DEF ReleaseBatch, At, Release
<1>2. ConnInv(c) /\ Shape /\ PoolInv
  BY DEF ExchangeInv
<1>3. /\ ex[c].ans.status # 0 /\ (ex[c].ans.status = 200 <=> ex[c].effect # << >>)
      /\ ex[c].rq.agent => (ex[c].ans.status = 200 <=> Fit)
  BY <1>1, <1>2 DEF ConnInv, AnswerInv, WriteRoutes
<1>4. ex[c].rq.agent => Fit
  <2> SUFFICES ASSUME ex[c].rq.agent PROVE Fit
    OBVIOUS
  <2>1. FromAgent(ex[c].rq) /\ Passed(ex[c].rq)
    BY <1>1, <1>2 DEF ConnInv, RequestInv, StageInv
  <2> QED BY <2>1, AgentPasses DEF Passed
<1>5. ConnInv(c)' /\ Shape' /\ \A d \in Conns \ {c} : ex'[d] = ex[d]
  BY <1>1, <1>2, <1>3, <1>4, AnsweredKeeps
<1>6. ex'[c].pc = "respond"
  BY <1>1, <1>2 DEF Answered, Shape
<1>7. \A d \in Conns \ {c} : buf'[d] = buf[d] /\ clone'[d] = clone[d]
  BY <1>1, <1>2 DEF PoolInv
<1>8. PoolInv'
  <2>1. \A d \in Conns : ex'[d].pc \in {"use", "release"} =>
          d # c /\ ex[d].pc \in {"use", "release"} /\ buf'[d] = buf[d]
    BY <1>5, <1>6, <1>7
  <2>2. \A d \in Conns : ex'[d].pc \in {"use", "release"} => buf'[d] \in allocated' \ pool'
    BY <1>1, <1>2, <2>1 DEF PoolInv
  <2>3. pool' \subseteq allocated' /\ allocated' \subseteq Buffers
    BY <1>1, <1>2 DEF PoolInv
  <2>4. buf' \in [Conns -> Buffers \cup {NoBuf}] /\ DOMAIN clone' = Conns
    BY <1>1, <1>2 DEF PoolInv
  <2> QED BY <1>1, <1>2, <2>1, <2>2, <2>3, <2>4 DEF PoolInv
<1>9. ASSUME NEW d \in Conns PROVE UseInv(d)'
  <2>1. CASE d # c /\ ex[d].pc = "use"
    <3>1. elems'[buf'[d]] = elems[buf[d]] /\ clone'[d] = clone[d]
      BY <1>1, <1>7, <2>1
    <3>2. Plain(ex[d].rq)' = Plain(ex[d].rq)
      BY <1>5, <2>1 DEF Plain
    <3> QED BY <1>5, <2>1, <3>1, <3>2 DEF UseInv, ExchangeInv
  <2>2. CASE d = c \/ ex[d].pc # "use"
    BY <1>5, <1>6, <2>2 DEF UseInv
  <2> QED BY <2>1, <2>2
<1>10. store' \in Stores /\ Keeps(store, store')
  BY <1>1 DEF ExchangeInv, Keeps
<1> QED BY <1>1, <1>5, <1>8, <1>9, <1>10, Assembled

-----------------------------------------------------------------------------
(* Every step keeps the invariant.                                         *)
LEMMA NextExchange == ExchangeInv /\ [Next]_vars => ExchangeInv'
<1> SUFFICES ASSUME ExchangeInv, [Next]_vars PROVE ExchangeInv'
  OBVIOUS
<1>1. CASE UNCHANGED vars
  <2>1. /\ UNCHANGED <<serverKey, agentKey, store, ex, pool, allocated, elems, buf, clone>>
        /\ Keeps(store, store')
    BY <1>1 DEF vars, decodeVars, Keeps
  <2>2. Shape' /\ store' \in Stores /\ PoolInv'
    BY <2>1 DEF ExchangeInv, Shape, PoolInv
  <2>3. ASSUME NEW d \in Conns PROVE ConnInv(d)' /\ UseInv(d)'
    <3>1. ConnInv(d)'
      BY <2>1, Untouched DEF ExchangeInv
    <3>2. UseInv(d)'
      BY <2>1 DEF ExchangeInv, UseInv, Plain
    <3> QED BY <3>1, <3>2
  <2> QED BY <2>1, <2>2, <2>3 DEF ExchangeInv
<1>2. ASSUME NEW c \in Conns, NEW items \in Reports, Arrive(c, DoGzJSON("updates", items))
      PROVE  ExchangeInv'
  <2>1. WellFormed(DoGzJSON("updates", items)) /\ FromAgent(DoGzJSON("updates", items))
    BY ReportRequest, ExchangeAssumption
  <2> QED BY <1>2, <2>1, ArriveStep
<1>3. ASSUME NEW c \in Conns, NEW items \in Reports, NEW i \in DOMAIN items,
             Arrive(c, DoGzJSON("update", <<items[i]>>))
      PROVE  ExchangeInv'
  <2>1. items \in Seq(Measured) /\ Len(items) \in 1 .. Slots
    BY ExchangeAssumption
  <2>2. <<items[i]>> \in Seq(Measured) /\ Len(<<items[i]>>) = 1
    BY <2>1
  <2>3. Len(<<items[i]>>) \in 1 .. Slots
    BY <2>1, <2>2, DecodeAssumption
  <2>4. WellFormed(DoGzJSON("update", <<items[i]>>)) /\ FromAgent(DoGzJSON("update", <<items[i]>>))
    BY <2>2, <2>3, ReportRequest
  <2> QED BY <1>3, <2>4, ArriveStep
<1>4. ASSUME NEW c \in Conns, NEW rq \in Others, Arrive(c, rq) PROVE ExchangeInv'
  BY <1>4, ArriveStep, ExchangeAssumption
<1>5. ASSUME NEW c \in Conns,
             \/ \E b \in Buffers : DecodeBatch(c, b)
             \/ UpsertBatch(c) \/ ReleaseBatch(c)
             \/ Upsert(c) \/ ReadBack(c) \/ GetMetric(c)
             \/ SnapshotJSON(c) \/ Index(c) \/ Ping(c) \/ NoMethod(c) \/ NoRoute(c)
             \/ Respond(c) \/ Done(c)
      PROVE  ExchangeInv'
  BY <1>5, DecodeStep, UpsertBatchStep, ReleaseStep, UpsertStep, ReadStep, ViewStep, RespondStep,
     DoneStep
<1> QED BY <1>1, <1>2, <1>3, <1>4, <1>5 DEF Next

(* The invariant holds in every reachable state.                           *)
LEMMA ExchangeHolds == Spec => []ExchangeInv
BY InitExchange, NextExchange, PTL DEF Spec

(* No request writes through the pointers of a body another handler works  *)
(* on, although their memory is pooled.                                    *)
THEOREM FieldsAreKept == Spec => []OwnFieldsKept
BY ExchangeHolds, InvKeepsFields, PTL

(* A write is answered 200 exactly if it is stored.                        *)
THEOREM AnswersTell == Spec => []AnswersTellEffect
BY ExchangeHolds, InvTellsEffect, PTL

(* With a secret, a hash that comes with a body is of it and of the        *)
(* secret, or the body is not stored.                                      *)
THEOREM StoredIsVerified == Spec => []OnlyVerifiedStored
BY ExchangeHolds, InvStoresVerified, PTL

(* The agent's reports are accepted exactly if the secrets fit, and what   *)
(* is stored is what they spell.                                           *)
THEOREM ReportsAccepted == Spec => []ReportsGetThrough
BY ExchangeHolds, InvGetsThrough, PTL

(* Compression and hashing never hide from a client what the handler       *)
(* answered.                                                               *)
THEOREM AnswersAreReadable == Spec => []AnswersReadable
BY ExchangeHolds, InvReadable, PTL
=============================================================================
