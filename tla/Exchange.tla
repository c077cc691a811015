------------------------------- MODULE Exchange ------------------------------
(***************************************************************************)
(* HTTP exchanges on concurrent connections: on one side the client of the *)
(* agent (publisher/httpjson) and other clients, on the other the router   *)
(* of ginserver with the middlewares in the order of cmd/server/main.go,   *)
(*     GzipRequest > GzipResponse > HashSHA256 > handler,                  *)
(* its handlers and the memory repository.  Retries and lost connections   *)
(* are in BatchPublisher, auditing and saving in Server; a repository call *)
(* is one step, as MetricsRepo specifies.                                  *)
(*                                                                         *)
(* Bytes are what they stand for: Body(form, items), compressed Gzip(b).   *)
(* SumSHA256 is a pair: no two inputs collide.                             *)
(***************************************************************************)
EXTENDS BatchDecode

CONSTANTS Keys,         \* the secrets as configured, padding included
          TrimKey,      \* strings.TrimSpace on Keys
          NoKey,        \* the empty secret
          Reports,      \* the batches the agent sends
          Others,       \* the requests other clients send
          MaxRequests   \* bounds the requests of a behaviour

Routes == {"updates", "update", "path", "get", "value", "snapshot", "index", "ping",
           "method", "unknown"}

WriteRoutes == {"updates", "update", "path"}

(* "json" spells these items, "badjson" fails to decode after them.        *)
Body(form, items) == [form |-> form, items |-> items]

Empty == Body("empty", << >>)

Gzip(b) == Body("gzip", <<b>>)

(* Compressed, but what it inflates to does not fit its checksum.          *)
Damaged(b) == Body("damaged", <<b>>)

SumSHA256(b, k) == [of |-> b, key |-> k]

NoHash == SumSHA256(Empty, NoKey)

(* An item as a body spells it, with Nil for a field it leaves out.        *)
Item == [id : RawIds \cup {Nil}, mtype : MTypes \cup {Nil},
         value : Values \cup {Nil}, delta : Int64 \cup {Nil}]

PlainBodies ==
    {b \in [form : {"empty", "json", "badjson"}, items : Seq(Item)] : Len(b.items) <= Slots}

(* The body behind GzipRequest, which inflates what it can.                *)
Inflates(rq) == rq.gzip => rq.bytes.form \in {"gzip", "damaged"}

Plain(rq) == IF rq.gzip THEN rq.bytes.items[1] ELSE rq.bytes

(* A request to /update or /value spells one object.                       *)
WellFormed(rq) ==
    /\ rq.route \in Routes /\ rq.param \in Metric
    /\ Inflates(rq) =>
         /\ Plain(rq) \in PlainBodies
         /\ rq.route \in {"update", "value"} /\ Plain(rq).form = "json" => Len(Plain(rq).items) = 1

(* What the collector measures has a name and a value.                     *)
Measured == {m \in Metric : Trim[m.id] # Blank /\ Usable(m)}

ASSUME ExchangeAssumption ==
    /\ NoKey \in Keys /\ TrimKey \in [Keys -> Keys]
    /\ Nil \notin RawIds \cup MTypes
    /\ \A r \in Others : WellFormed(r) /\ ~r.agent
    /\ \A items \in Reports : items \in Seq(Measured) /\ Len(items) \in 1 .. Slots
    /\ MaxRequests \in Nat

VARIABLES serverKey, agentKey, \* the configured secrets
          store,               \* the repository
          ex,                  \* what happens on each connection
          requests             \* how many requests were sent

vars == <<serverKey, agentKey, store, ex, requests, decodeVars>>

-----------------------------------------------------------------------------
(* What a handler answers: status, content type, body.                     *)
Answer(st, ct, b) == [status |-> st, ctype |-> ct, body |-> b]

Text(st, t) == Answer(st, "text", Body(t, << >>))

JSON(st, t) == Answer(st, "json", Body(t, << >>))

NotFound == Text(404, "not found")

BadRequest == Text(400, "bad request")

(* A context nothing was written to: its status is not set.                *)
Unserved == Answer(0, "none", Empty)

Request(route, param, gzip, bytes, hash, accept, agent) ==
    [route |-> route, param |-> param, gzip |-> gzip, bytes |-> bytes, hash |-> hash,
     accept |-> accept, agent |-> agent]

NoWire == [status |-> 0, ctype |-> "none", hash |-> NoHash, gzip |-> FALSE, bytes |-> Empty]

Idle == [pc |-> "idle", rq |-> Request("none", Zero, FALSE, Empty, NoHash, FALSE, FALSE),
         ans |-> Unserved, wire |-> NoWire, effect |-> << >>]

Init ==
    /\ DecodeInit
    /\ serverKey \in Keys /\ agentKey \in Keys
    /\ store = EmptyStore
    /\ ex = [c \in Conns |-> Idle]
    /\ requests = 0

At(c, pc, routes) == ex[c].pc = pc /\ ex[c].rq.route \in routes

(* The handler returns with this answer.                                   *)
Answered(c, ans) == ex' = [ex EXCEPT ![c].pc = "respond", ![c].ans = ans]

-----------------------------------------------------------------------------
(* Faulty variant of DoGzJSON: the hash is taken of what is sent.          *)
DoGzJSONHashingGzip(route, items) ==
    LET gz == Gzip(Body("json", items))
        key == TrimKey[agentKey]
    IN  Request(route, Zero, TRUE, gz, IF key # NoKey THEN SumSHA256(gz, key) ELSE NoHash,
                TRUE, TRUE)

(* SendBatch to /updates, SendOne to /update: the hash is taken of the     *)
(* plain JSON, then that is compressed.                                    *)
DoGzJSON(route, items) ==
    LET plain == Body("json", items)
        key == TrimKey[agentKey]
    IN  Request(route, Zero, TRUE, Gzip(plain),
                IF key # NoKey THEN SumSHA256(plain, key) ELSE NoHash, TRUE, TRUE)

(* Faulty variant of Verify: the hash is compared before the body is read. *)
VerifyUnread(rq) ==
    IF TrimKey[serverKey] # NoKey /\ rq.hash # NoHash /\ rq.hash.key # TrimKey[serverKey]
    THEN JSON(400, "invalid hash") ELSE Unserved

(* HashSHA256 before the handler: the answer that stops the request, or    *)
(* Unserved to let it pass.  A request without the header is not verified, *)
(* nor is an empty body; io.ReadAll reports a damaged one.                 *)
Verify(rq) ==
    LET key == TrimKey[serverKey]
    IN  IF key = NoKey \/ rq.hash = NoHash THEN Unserved
        ELSE IF rq.gzip /\ rq.bytes.form = "damaged" THEN JSON(400, "read body failed")
        ELSE IF Plain(rq) # Empty /\ rq.hash # SumSHA256(Plain(rq), key)
             THEN JSON(400, "invalid hash") ELSE Unserved

(* A request passes the middlewares.  GzipRequest is outside the other     *)
(* two: what it refuses is answered without a body and without a hash.     *)
Arrive(c, rq) ==
    /\ ex[c].pc = "idle" /\ requests < MaxRequests
    /\ requests' = requests + 1
    /\ ex' = [ex EXCEPT ![c] =
          IF ~Inflates(rq)
          THEN [Idle EXCEPT !.pc = "done", !.rq = rq, !.ans = Answer(400, "none", Empty),
                            !.wire = [NoWire EXCEPT !.status = 400]]
          ELSE [Idle EXCEPT !.pc = IF Verify(rq) = Unserved THEN "handle" ELSE "respond",
                            !.rq = rq, !.ans = Verify(rq)]]
    /\ UNCHANGED <<serverKey, agentKey, store, decodeVars>>

-----------------------------------------------------------------------------
(* UpdateMetricsBatchJSON: decode, UpsertBatch, deferred release.          *)
DecodeBatch(c, b) ==
    /\ At(c, "handle", {"updates"})
    /\ LET body == Plain(ex[c].rq)
       IN  \/ /\ body.form = "json"
              /\ Decode(c, body.items, b)
              /\ ex' = [ex EXCEPT ![c].pc = "use"]
           \/ /\ body.form # "json"
              /\ DecodeFails(body.items, b)
              /\ Answered(c, BadRequest)
    /\ UNCHANGED <<serverKey, agentKey, store, requests>>

UpsertBatch(c) ==
    /\ At(c, "use", {"updates"})
    /\ LET valid == ValidItems(Seen(c))
       IN  /\ store' = UpdateMany(store, valid)
           /\ ex' = [ex EXCEPT ![c].pc = "release", ![c].effect = valid,
                               ![c].ans = IF valid = << >> THEN BadRequest ELSE JSON(200, "updated")]
    /\ UNCHANGED <<serverKey, agentKey, requests, decodeVars>>

ReleaseBatch(c) ==
    /\ At(c, "release", {"updates"})
    /\ Release(c)
    /\ Answered(c, ex[c].ans)
    /\ UNCHANGED <<serverKey, agentKey, store, requests>>

-----------------------------------------------------------------------------
(* The metric in the path, its number Nil if it does not parse, or the one *)
(* the body spells, decoded into a fresh struct.                           *)
Sent(c) == IF ex[c].rq.route \in {"path", "get"} THEN ex[c].rq.param
           ELSE Fill(Zero, Plain(ex[c].rq).items[1])

(* What a handler refuses before it calls the service.                     *)
Malformed(c) ==
    CASE ex[c].rq.route = "get" -> Unserved
      [] ex[c].rq.route = "path" -> IF Trim[Sent(c).id] = Blank THEN NotFound
                                    ELSE IF Usable(Sent(c)) THEN Unserved ELSE BadRequest
      [] OTHER -> IF Plain(ex[c].rq).form # "json" \/ Trim[Sent(c).id] = Blank
                  THEN BadRequest ELSE Unserved

(* Service.Upsert, its write.                                              *)
Upsert(c) ==
    /\ At(c, "handle", {"update", "path"})
    /\ IF Malformed(c) = Unserved /\ Usable(Sent(c))
       THEN /\ store' = UpdateMany(store, <<Trimmed(Sent(c))>>)
            /\ ex' = [ex EXCEPT ![c].pc = "readback", ![c].effect = <<Trimmed(Sent(c))>>]
       ELSE /\ Answered(c, IF Malformed(c) = Unserved THEN BadRequest ELSE Malformed(c))
            /\ UNCHANGED store
    /\ UNCHANGED <<serverKey, agentKey, requests, decodeVars>>

Stored(m) == IF m.mtype = "gauge" THEN store.gauges[Trim[m.id]] ELSE store.counters[Trim[m.id]]

(* c.JSON sets the status and the content type, then finds that a NaN      *)
(* cannot be encoded and writes no body.                                   *)
Rendered(t, encodable) == IF encodable THEN JSON(200, t) ELSE Answer(200, "json", Empty)

(* Service.Get with the answer of the route to what it finds.              *)
Found(c) ==
    LET m == Sent(c)
    IN  IF Trim[m.id] = Blank THEN NotFound
        ELSE IF m.mtype \notin {"gauge", "counter"} THEN BadRequest
        ELSE IF Stored(m) = Nil THEN NotFound
        ELSE CASE ex[c].rq.route = "path" -> Text(200, "ok")
               [] ex[c].rq.route = "get" -> Text(200, "value")
               [] OTHER -> Rendered("metric", m.mtype = "counter" \/ Stored(m) \notin NonFinite)

ReadBack(c) ==
    /\ At(c, "readback", {"update", "path"})
    /\ Answered(c, Found(c))
    /\ UNCHANGED <<serverKey, agentKey, store, requests, decodeVars>>

(* GetMetric and GetMetricJSON.                                            *)
GetMetric(c) ==
    /\ At(c, "handle", {"get", "value"})
    /\ Answered(c, IF Malformed(c) = Unserved THEN Found(c) ELSE Malformed(c))
    /\ UNCHANGED <<serverKey, agentKey, store, requests, decodeVars>>

(* The handlers without a metric.                                          *)
View(c, route, ans) ==
    /\ At(c, "handle", {route})
    /\ Answered(c, ans)
    /\ UNCHANGED <<serverKey, agentKey, store, requests, decodeVars>>

SnapshotJSON(c) ==
    View(c, "snapshot", Rendered("snapshot", \A n \in Names : store.gauges[n] \notin NonFinite))

Index(c) == View(c, "index", Answer(200, "html", Body("page", << >>)))

(* The memory repository has no database to reach.                         *)
Ping(c) == View(c, "ping", Text(500, "db ping error"))

NoMethod(c) == View(c, "method", Text(405, "method not allowed"))

(* gin runs the middlewares and no handler.                                *)
NoRoute(c) == View(c, "unknown", Unserved)

-----------------------------------------------------------------------------
(* Faulty variant of Hashed: the buffered status is not passed on.         *)
HashedStatusLost(ans) ==
    LET key == TrimKey[serverKey]
    IN  [status |-> IF key = NoKey THEN ans.status ELSE 200, ctype |-> ans.ctype, gzip |-> FALSE,
         bytes |-> ans.body,
         hash |-> IF key # NoKey /\ ans.body # Empty THEN SumSHA256(ans.body, key) ELSE NoHash]

(* HashSHA256 after the handler: the buffered answer is hashed and passed  *)
(* on; an answer nobody set a status for becomes 200.                      *)
Hashed(ans) ==
    LET key == TrimKey[serverKey]
    IN  [status |-> IF key # NoKey /\ ans.status = 0 THEN 200 ELSE ans.status,
         ctype |-> ans.ctype, gzip |-> FALSE, bytes |-> ans.body,
         hash |-> IF key # NoKey /\ ans.body # Empty THEN SumSHA256(ans.body, key) ELSE NoHash]

(* GzipResponse: decided at the first Write, which HashSHA256 calls even   *)
(* for an empty body.                                                      *)
Compressed(rq, r) ==
    IF /\ rq.accept /\ r.ctype \in {"json", "html"}
       /\ r.bytes # Empty \/ TrimKey[serverKey] # NoKey
    THEN [r EXCEPT !.gzip = TRUE, !.bytes = Gzip(r.bytes)]
    ELSE r

(* serveError of gin: a request that no one has answered.                  *)
ServeError(r) == IF r.status = 0 THEN [r EXCEPT !.status = 404, !.ctype = "text",
                                                !.bytes = Body("404 page not found", << >>)]
                 ELSE r

(* Faulty variant of Outbound: the middlewares wrap in the other order.    *)
OutboundHashLast(rq, ans) ==
    LET r == ServeError(Compressed(rq, Hashed(ans)))
    IN  [r EXCEPT !.hash = IF @ # NoHash THEN SumSHA256(r.bytes, @.key) ELSE @]

Outbound(rq, ans) == ServeError(Compressed(rq, Hashed(ans)))

Respond(c) ==
    /\ ex[c].pc = "respond"
    /\ ex' = [ex EXCEPT ![c].pc = "done", ![c].wire = Outbound(ex[c].rq, ex[c].ans)]
    /\ UNCHANGED <<serverKey, agentKey, store, requests, decodeVars>>

(* The client has read the answer.                                         *)
Done(c) ==
    /\ ex[c].pc = "done"
    /\ ex' = [ex EXCEPT ![c] = Idle]
    /\ UNCHANGED <<serverKey, agentKey, store, requests, decodeVars>>

Next ==
    \E c \in Conns :
        \/ \E items \in Reports :
             \/ Arrive(c, DoGzJSON("updates", items))
             \/ \E i \in DOMAIN items : Arrive(c, DoGzJSON("update", <<items[i]>>))
        \/ \E rq \in Others : Arrive(c, rq)
        \/ \E b \in Buffers : DecodeBatch(c, b)
        \/ UpsertBatch(c) \/ ReleaseBatch(c)
        \/ Upsert(c) \/ ReadBack(c) \/ GetMetric(c)
        \/ SnapshotJSON(c) \/ Index(c) \/ Ping(c) \/ NoMethod(c) \/ NoRoute(c)
        \/ Respond(c) \/ Done(c)

Spec == Init /\ [][Next]_vars

-----------------------------------------------------------------------------
Finished == {c \in Conns : ex[c].pc = "done"}

(* What the client reads: drainAndDiscard inflates what is announced as    *)
(* compressed.                                                             *)
Drained(w) == IF w.gzip THEN w.bytes.items[1] ELSE w.bytes

(* A body keeps what it says for as long as the handler works on it,       *)
(* although its numbers live in memory that the pool hands on: no other    *)
(* request writes through those pointers meanwhile.                        *)
OwnFieldsKept ==
    \A c \in Conns : ex[c].pc = "use" =>
        \A i \in DOMAIN Plain(ex[c].rq).items :
            Fill(Seen(c)[i], Plain(ex[c].rq).items[i]) = Seen(c)[i]

(* A write that was answered 200 is in the repository, and one that was    *)
(* refused, by a middleware or by the handler, has not touched it.         *)
AnswersTellEffect ==
    \A c \in Finished : ex[c].rq.route \in WriteRoutes =>
        (ex[c].wire.status = 200 <=> ex[c].effect # << >>)

(* With a secret and a HashSHA256 header only a body that arrived whole,   *)
(* was hashed with that secret and is the one hashed gets stored: the hash *)
(* is compared with the body as it was before compression.                 *)
OnlyVerifiedStored ==
    \A c \in Conns :
        ex[c].effect # << >> /\ ex[c].rq.route # "path"
        /\ TrimKey[serverKey] # NoKey /\ ex[c].rq.hash # NoHash
        => /\ ex[c].rq.hash = SumSHA256(Plain(ex[c].rq), TrimKey[serverKey])
           /\ ex[c].rq.bytes.form # "damaged"

(* A report of the agent is accepted exactly if the secrets of both sides  *)
(* fit: the same after trimming, or one side has none.  Then the agent     *)
(* sees 200 and the report, not what an earlier one left, is stored.       *)
ReportsGetThrough ==
    \A c \in Finished : ex[c].rq.agent =>
        LET fit == NoKey \in {TrimKey[agentKey], TrimKey[serverKey]}
                   \/ TrimKey[agentKey] = TrimKey[serverKey]
        IN  /\ ex[c].wire.status = 200 <=> fit
            /\ fit => UpdateMany(EmptyStore, ex[c].effect)
                        = UpdateMany(EmptyStore, ValidItems(Plain(ex[c].rq).items))

(* Every client can read every answer: it is compressed only if the client *)
(* said it accepts that, its status is the handler's, it inflates to the   *)
(* body the handler wrote, and a hash, if there is one, is of that body.   *)
AnswersReadable ==
    \A c \in Finished : ex[c].rq.route # "unknown" =>
        LET w == ex[c].wire IN
        /\ w.gzip => ex[c].rq.accept /\ w.bytes.form = "gzip"
        /\ w.status = ex[c].ans.status
        /\ Drained(w) = ex[c].ans.body
        /\ w.hash # NoHash => w.hash = SumSHA256(Drained(w), TrimKey[serverKey])

(* "partially invalid filtered": a gauge sent without a value, or a        *)
(* counter without a delta, is seen without one, so UpsertBatch skips it.  *)
IncompleteItemsFiltered ==
    \A c \in Conns : ex[c].pc = "use" =>
        \A i \in DOMAIN Plain(ex[c].rq).items :
            Usable(Seen(c)[i]) => Usable(Plain(ex[c].rq).items[i])
=============================================================================
