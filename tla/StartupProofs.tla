----------------------------- MODULE StartupProofs ----------------------------
(***************************************************************************)
(* For every environment and every set of flags, any number of crashes and *)
(* outages: the programs start with settings their tickers accept, agree   *)
(* on an address, and lose no acknowledged batch unless a start or a Save  *)
(* failed or two Saves overlapped.                                         *)
(***************************************************************************)
EXTENDS Startup, TLAPS

ServerEnv == [address : Texts, dsn : Texts, interval : Texts, restore : Texts]
ServerFlags == [address : Texts, dsn : Texts, interval : Int, restore : BOOLEAN]
AgentEnv == [address : Texts, report : Texts, poll : Texts, limit : Texts]
AgentFlags == [address : Texts, report : Int, poll : Int, limit : Int]

(* The inputs are environments and flags.                                  *)
LEMMA InputTypes ==
    \A i \in Inputs : /\ i.server.env \in ServerEnv /\ i.server.flags \in ServerFlags
                      /\ i.agent.env \in AgentEnv /\ i.agent.flags \in AgentFlags
BY InputsAssumption DEF ServerEnv, ServerFlags, AgentEnv, AgentFlags

-----------------------------------------------------------------------------
(* The conversion to nanoseconds wraps, but stays an int64.                *)
LEMMA SecondsType ==
    ASSUME NEW n \in Int
    PROVE  Seconds(n) \in -HalfRange .. HalfRange - 1
<1> DEFINE m == n * Second + HalfRange
           w == 2 * HalfRange
<1>1. m \in Int /\ w \in Nat \ {0}
  BY ScaleAssumption
<1> HIDE DEF m, w
<1>2. m % w \in 0 .. w - 1
  BY <1>1
<1>3. Seconds(n) = (m % w) - HalfRange /\ HalfRange \in Nat
  BY ScaleAssumption DEF Seconds, m, w
<1> QED BY <1>1, <1>2, <1>3 DEF w

(* The default intervals are numbers.                                      *)
LEMMA DefaultsType == DefStore \in Int /\ DefReport \in Int /\ DefPoll \in Int
BY ScaleAssumption

(* Whatever is spelled, a duration comes out.                              *)
LEMMA DurationType ==
    ASSUME NEW ev \in Texts, NEW fl \in Int, NEW sentinel \in Int, NEW def \in Int
    PROVE  FromEnvOrFlagDuration(ev, fl, sentinel, def) \in Int
<1> DEFINE t == TrimSpace[ev]
<1>1. /\ t \in Texts
      /\ ParseInt[t] \in Int \cup {NotParsed} /\ ParseDur[t] \in Int \cup {NotParsed}
  BY ConfigAssumption
<1>2. HalfRange \in Int
  BY ScaleAssumption
<1>3. \A n \in Int : Seconds(n) \in Int
  BY <1>2, SecondsType
<1> QED BY <1>1, <1>3 DEF FromEnvOrFlagDuration

(* No accepted server configuration has a negative STORE_INTERVAL: the     *)
(* check comes after the conversion that may overflow.                     *)
LEMMA ServerIntervals ==
    ASSUME NEW in \in Inputs
    PROVE  LET cf == LoadServerConfig(in.server.env, in.server.flags) IN cf.ok => cf.interval >= 0
<1> DEFINE interval == FromEnvOrFlagDuration(in.server.env.interval, in.server.flags.interval, -1, DefStore)
<1>1. in.server.env.interval \in Texts /\ in.server.flags.interval \in Int
  BY InputTypes DEF ServerEnv, ServerFlags
<1>2. interval \in Int
  BY <1>1, DurationType, DefaultsType
<1> HIDE DEF interval
<1>3. LET cf == LoadServerConfig(in.server.env, in.server.flags)
      IN  cf.ok => cf.interval = interval /\ ~(interval < 0)
  BY DEF LoadServerConfig, Refused, interval
<1> QED BY <1>2, <1>3

(* What the agent's tickers and its worker pool are given is positive.     *)
LEMMA AgentIntervals ==
    ASSUME NEW in \in Inputs
    PROVE  LET ag == LoadAgentConfig(in.agent.env, in.agent.flags)
           IN  ag.ok => ag.report > 0 /\ ag.poll > 0 /\ ag.limit >= 1
<1> DEFINE report == FromEnvOrFlagDuration(in.agent.env.report, in.agent.flags.report, 0, DefReport)
           poll == FromEnvOrFlagDuration(in.agent.env.poll, in.agent.flags.poll, 0, DefPoll)
           limit == FromEnvOrFlagInt(in.agent.env.limit, in.agent.flags.limit, 1, 1)
<1>1. /\ in.agent.env.report \in Texts /\ in.agent.flags.report \in Int
      /\ in.agent.env.poll \in Texts /\ in.agent.flags.poll \in Int
  BY InputTypes DEF AgentEnv, AgentFlags
<1>2. report \in Int /\ poll \in Int
  BY <1>1, DurationType, DefaultsType
<1>3. limit >= 1
  BY DEF FromEnvOrFlagInt
<1> HIDE DEF report, poll, limit
<1>4. LET ag == LoadAgentConfig(in.agent.env, in.agent.flags)
      IN  ag.ok => /\ ag.report = report /\ ag.poll = poll /\ ag.limit = limit
                   /\ ~(report <= 0) /\ ~(poll <= 0)
  BY DEF LoadAgentConfig, Refused, report, poll, limit
<1> QED BY <1>2, <1>3, <1>4

-----------------------------------------------------------------------------
(* A text that both loaders are given.                                     *)
LEMMA SameText ==
    ASSUME NEW a \in Texts, NEW b \in Texts, NEW def,
           FromEnvOrFlag(a, b, Blank) # Blank
    PROVE  FromEnvOrFlag(a, b, def) = FromEnvOrFlag(a, b, Blank)
BY DEF FromEnvOrFlag

(* Where neither environment nor flag says anything the default counts.    *)
LEMMA NoText ==
    ASSUME NEW a \in Texts, NEW b \in Texts, NEW def,
           FromEnvOrFlag(a, b, Blank) = Blank
    PROVE  FromEnvOrFlag(a, b, def) = def
BY DEF FromEnvOrFlag

(* Host and port that are dialled are those listened on, if the text has   *)
(* a port.                                                                 *)
Meets(listen, dial) ==
    dial.port # "" => /\ ~listen.scheme /\ listen.port = dial.port
                      /\ listen.host \in {"", dial.host}

(* One address, read by server and agent.                                  *)
LEMMA SameTextMeets ==
    ASSUME NEW a \in Addrs, a # NotParsed
    PROVE  Meets(NormalizeListen(a), NormalizeDial(a))
<1>1. CASE a.scheme
  <2>1. NormalizeListen(a) = [a EXCEPT !.scheme = FALSE]
    BY <1>1 DEF NormalizeListen
  <2>2. NormalizeDial(a) = [a EXCEPT !.scheme = TRUE, !.host = a.host]
    BY <1>1 DEF NormalizeDial
  <2> QED BY <2>1, <2>2 DEF Meets, Addrs
<1>2. CASE ~a.scheme /\ a.port # ""
  <2>1. NormalizeListen(a) = a
    BY <1>2 DEF NormalizeListen
  <2>2. NormalizeDial(a) =
          [a EXCEPT !.scheme = TRUE, !.host = IF a.host = "" THEN "localhost" ELSE a.host]
    BY <1>2 DEF NormalizeDial
  <2> QED BY <1>2, <2>1, <2>2 DEF Meets, Addrs
<1>3. CASE ~a.scheme /\ a.port = ""
  <2>1. NormalizeDial(a).port = ""
    BY <1>3 DEF NormalizeDial, Addrs
  <2> QED BY <2>1 DEF Meets
<1> QED BY <1>1, <1>2, <1>3

(* The defaults of the two programs fit each other.                        *)
LEMMA DefaultsMeet ==
    /\ ParseAddr["http://localhost:8080"] # NotParsed =>
          Meets(NormalizeListen(ParseAddr[":8080"]), NormalizeDial(ParseAddr["http://localhost:8080"]))
       \/ ParseAddr[":8080"] = NotParsed
<1> DEFINE l == [scheme |-> FALSE, host |-> "", port |-> "8080"]
           d == [scheme |-> TRUE, host |-> "localhost", port |-> "8080"]
<1>1. ParseAddr[":8080"] = l /\ ParseAddr["http://localhost:8080"] = d
  BY ConfigAssumption
<1>2. ASSUME l # NotParsed PROVE NormalizeListen(l) = l
  BY <1>2 DEF NormalizeListen
<1>3. ASSUME d # NotParsed PROVE NormalizeDial(d) = d
  BY <1>3 DEF NormalizeDial
<1>4. Meets(l, d)
  BY DEF Meets
<1> HIDE DEF l, d
<1> QED BY <1>1, <1>2, <1>3, <1>4

(* The address of a configuration that is accepted.                        *)
LEMMA ServerAddress ==
    ASSUME NEW in \in Inputs, LoadServerConfig(in.server.env, in.server.flags).ok
    PROVE  LET a == ParseAddr[FromEnvOrFlag(in.server.env.address, in.server.flags.address, ":8080")]
           IN  a # NotParsed /\ LoadServerConfig(in.server.env, in.server.flags).address = NormalizeListen(a)
<1> DEFINE a == ParseAddr[FromEnvOrFlag(in.server.env.address, in.server.flags.address, ":8080")]
<1>1. NormalizeListen(a) # NotParsed
  BY DEF LoadServerConfig, Refused
<1>2. a # NotParsed
  BY <1>1 DEF NormalizeListen
<1> QED BY <1>2 DEF LoadServerConfig, Refused

(* The address an accepted agent dials.                                    *)
LEMMA AgentAddress ==
    ASSUME NEW in \in Inputs, LoadAgentConfig(in.agent.env, in.agent.flags).ok
    PROVE  LET a == ParseAddr[FromEnvOrFlag(in.agent.env.address, in.agent.flags.address, "http://localhost:8080")]
           IN  a # NotParsed /\ LoadAgentConfig(in.agent.env, in.agent.flags).address = NormalizeDial(a)
<1> DEFINE a == ParseAddr[FromEnvOrFlag(in.agent.env.address, in.agent.flags.address, "http://localhost:8080")]
<1>1. NormalizeDial(a) # NotParsed
  BY DEF LoadAgentConfig, Refused
<1>2. a # NotParsed
  BY <1>1 DEF NormalizeDial
<1> QED BY <1>2 DEF LoadAgentConfig, Refused

(* Both sides read their address at the start.                             *)
LEMMA InitMeets == Init => SharedAddressMeets
<1> SUFFICES ASSUME Init, shared, cfg.ok, agent.ok PROVE Meets(cfg.address, agent.address)
  BY DEF SharedAddressMeets, Meets
<1>1. PICK in \in Inputs :
         /\ cfg = LoadServerConfig(in.server.env, in.server.flags)
         /\ agent = LoadAgentConfig(in.agent.env, in.agent.flags)
         /\ AddressText(in.server) = AddressText(in.agent)
  BY DEF Init
<1> DEFINE s == FromEnvOrFlag(in.server.env.address, in.server.flags.address, ":8080")
           g == FromEnvOrFlag(in.agent.env.address, in.agent.flags.address, "http://localhost:8080")
<1>2. /\ ParseAddr[s] # NotParsed /\ cfg.address = NormalizeListen(ParseAddr[s])
      /\ ParseAddr[g] # NotParsed /\ agent.address = NormalizeDial(ParseAddr[g])
  BY <1>1, ServerAddress, AgentAddress
<1>3. /\ in.server.env.address \in Texts /\ in.server.flags.address \in Texts
      /\ in.agent.env.address \in Texts /\ in.agent.flags.address \in Texts
  BY InputTypes DEF ServerEnv, ServerFlags, AgentEnv, AgentFlags
<1>4. CASE AddressText(in.server) = Blank
  <2>1. s = ":8080" /\ g = "http://localhost:8080"
    BY <1>1, <1>3, <1>4, NoText DEF AddressText
  <2> QED BY <1>2, <2>1, DefaultsMeet
<1>5. CASE AddressText(in.server) # Blank
  <2>1. s = AddressText(in.server) /\ g = AddressText(in.agent)
    BY <1>1, <1>3, <1>5, SameText DEF AddressText
  <2>2. s \in Texts
    BY <1>3, ConfigAssumption DEF FromEnvOrFlag
  <2>3. ParseAddr[s] \in Addrs
    BY <1>2, <2>2, ConfigAssumption
  <2> QED BY <1>1, <1>2, <2>1, <2>3, SameTextMeets
<1> QED BY <1>4, <1>5

-----------------------------------------------------------------------------
(* How far a start has got, which repository it chose, and why.            *)
PhaseFits ==
    /\ repo # "none" <=> proc = "up"
    /\ proc \in {"connect", "restore", "up"} => cfg.ok
    /\ proc = "connect" => cfg.dsn # Blank /\ tries <= Delays
    /\ repo = "postgres" => cfg.dsn # Blank
    /\ proc = "restore" \/ repo = "memory" => cfg.dsn = Blank \/ "database" \in lapses

(* Where the goroutines may be: at work only while the server is up, at a  *)
(* snapshot or a Save only with a persister.                               *)
WorkFits ==
    /\ \A p \in Savers : pc[p] # "idle" => proc = "up"
    /\ \A p \in Savers : pc[p] \in {"snapshot", "save"} => repo = "memory"
    /\ pc[Ticker] \in {"idle", "save"}
    /\ \A h \in Handlers : pc[h] # "idle" => req[h] \in Writes

(* The histories of which AckedDurable speaks.                             *)
Sound == cfg.restore /\ lapses \subseteq {"database"}

(* With RESTORE on, memory never holds less than the file it will replace. *)
FileInMemory == repo = "memory" /\ Sound => file \subseteq mem

(* Nor does the snapshot that is being saved, and only one is.             *)
SavesGrow ==
    /\ \A p \in Savers : pc[p] = "save" => snap[p] \subseteq mem
    /\ Sound => \A p \in Savers : pc[p] = "save" =>
          file \subseteq snap[p] /\ \A q \in Savers : pc[q] = "save" => q = p

(* A batch on its way to its answer.                                       *)
BatchesHeld ==
    \A h \in Handlers :
       /\ pc[h] = "snapshot" => req[h] \in mem
       /\ pc[h] = "save" => req[h] \in snap[h]
       /\ pc[h] = "respond" /\ req[h] \in Batches /\ Sound => req[h] \in db \cup file

(* Without a database the file is the only place; with one, while no start *)
(* missed it, the database is.                                             *)
OnePlace ==
    /\ cfg.ok /\ cfg.dsn = Blank => db = {}
    /\ cfg.ok /\ cfg.dsn # Blank /\ lapses = {} =>
          acked \subseteq db /\ \A h \in Handlers : pc[h] = "respond" => req[h] \in db

(* The inductive invariant.                                                *)
StartupInv ==
    /\ TypeOK /\ PhaseFits /\ SharedAddressMeets /\ WorkFits
    /\ FileInMemory /\ SavesGrow /\ BatchesHeld /\ OnePlace /\ AckedDurable

(* The part of it that is about the writes.                                *)
WritesInv == WorkFits /\ FileInMemory /\ SavesGrow /\ BatchesHeld /\ OnePlace /\ AckedDurable

(* The initial state satisfies the invariant.                              *)
LEMMA InitStartup == Init => StartupInv
<1> SUFFICES ASSUME Init PROVE StartupInv
  OBVIOUS
<1>1. SharedAddressMeets
  BY InitMeets
<1>2. (agent.ok => agent.report > 0 /\ agent.poll > 0 /\ agent.limit >= 1)
      /\ (cfg.ok => cfg.interval >= 0)
  BY ServerIntervals, AgentIntervals DEF Init
<1>3. TypeOK
  BY <1>2, StartupAssumption DEF Init, TypeOK, AllIdle, NoRequests, NoSnapshots
<1>4. PhaseFits /\ WritesInv
  BY StartupAssumption
     DEF Init, AllIdle, Savers, PhaseFits, WritesInv, WorkFits, FileInMemory, SavesGrow,
         BatchesHeld, OnePlace, AckedDurable
<1> QED BY <1>1, <1>3, <1>4 DEF StartupInv, WritesInv

-----------------------------------------------------------------------------
(* The boot steps leave goroutines and disks alone.                        *)
LEMMA BootFrame ==
    ASSUME Boot
    PROVE  /\ UNCHANGED <<workVars, diskVars, acked, envVars>> /\ proc # "up"
           /\ lapses \subseteq lapses'
BY DEF Boot, Start, Connected, ConnectFails, Restore

(* No step changes the configurations.                                     *)
LEMMA ConfigStays ==
    ASSUME Next
    PROVE  UNCHANGED <<cfg, agent, shared>>
<1>1. CASE Boot
  BY <1>1, BootFrame DEF envVars
<1>2. CASE Serve
  BY <1>2 DEF Serve, Write, Respond, WriteAnswerLost, TakeSnapshot, Save, envVars
<1> QED BY <1>1, <1>2 DEF Next, Crash, Outage

(* Every step keeps types, phases and addresses.                           *)
LEMMA NextTypes ==
    ASSUME StartupInv, Next
    PROVE  TypeOK' /\ PhaseFits' /\ SharedAddressMeets'
<1> USE StartupAssumption DEF StartupInv
<1>1. UNCHANGED <<cfg, agent, shared>>
  BY ConfigStays
<1>2. SharedAddressMeets'
  BY <1>1 DEF SharedAddressMeets
<1>3. CASE Boot
  <2>1. UNCHANGED <<workVars, diskVars, acked, envVars>>
    BY <1>3, BootFrame
  <2>2. TypeOK'
    <3>1. /\ proc' \in {"down", "refused", "connect", "restore", "up"}
          /\ repo' \in {"none", "memory", "postgres"} /\ tries' \in 0 .. Delays + 1
      BY <1>3 DEF Boot, Start, Connected, ConnectFails, Restore, TypeOK, PhaseFits
    <3>2. /\ mem' \subseteq Writes
          /\ lapses' \subseteq {"database", "restore", "save", "overlap"}
      BY <1>3 DEF Boot, Start, Connected, ConnectFails, Restore, TypeOK
    <3>3. UNCHANGED <<cfg, agent, file, db, pc, req, snap, acked, events>>
      BY <2>1 DEF workVars, diskVars, envVars
    <3> QED BY <3>1, <3>2, <3>3 DEF TypeOK
  <2>3. PhaseFits'
    BY <1>1, <1>3, <2>1 DEF Boot, Start, Connected, ConnectFails, Restore, TypeOK, PhaseFits
  <2> QED BY <1>2, <2>2, <2>3
<1>4. CASE Serve
  <2>1. UNCHANGED <<proc, tries, repo>> /\ lapses \subseteq lapses'
    BY <1>4 DEF Serve, Write, Respond, WriteAnswerLost, TakeSnapshot, Save, procVars
  <2>2. {mem', file', db', acked'} \subseteq SUBSET Writes
    BY <1>4 DEF Serve, Write, Respond, WriteAnswerLost, TakeSnapshot, Save, procVars, diskVars,
                Apply, TypeOK, WorkFits, Savers
  <2>3. events' \in 0 .. MaxEvents /\ lapses' \subseteq {"database", "restore", "save", "overlap"}
    BY <1>4 DEF Serve, Write, Respond, WriteAnswerLost, TakeSnapshot, Save, envVars, TypeOK
  <2>4. /\ pc' \in [Savers -> {"idle", "snapshot", "save", "respond"}]
        /\ req' \in [Handlers -> Writes \cup {NoWrite}] /\ snap' \in [Savers -> SUBSET Writes]
    BY <1>4 DEF Serve, Write, Respond, WriteAnswerLost, TakeSnapshot, Save, workVars, TypeOK
  <2>5. TypeOK'
    BY <1>1, <2>1, <2>2, <2>3, <2>4 DEF TypeOK
  <2>6. PhaseFits'
    BY <1>1, <2>1 DEF PhaseFits
  <2> QED BY <1>2, <2>5, <2>6
<1>5. CASE Crash
  <2>1. TypeOK'
    BY <1>1, <1>5 DEF Crash, TypeOK, diskVars, AllIdle, NoRequests, NoSnapshots
  <2>2. PhaseFits'
    BY <1>1, <1>5 DEF Crash, PhaseFits, TypeOK
  <2> QED BY <1>2, <2>1, <2>2
<1>6. CASE Outage
  BY <1>1, <1>2, <1>6 DEF Outage, TypeOK, PhaseFits, procVars, diskVars, workVars
<1> QED BY <1>3, <1>4, <1>5, <1>6 DEF Next

-----------------------------------------------------------------------------
(* A start: what the memory repository begins with is the file.            *)
LEMMA BootWrites ==
    ASSUME StartupInv, Boot
    PROVE  WritesInv'
<1>1. /\ UNCHANGED <<cfg, file, db, pc, req, snap, acked>> /\ proc # "up"
      /\ lapses \subseteq lapses'
  BY BootFrame DEF workVars, diskVars, envVars
<1>2. \A p \in Savers : pc[p] = "idle"
  BY <1>1 DEF StartupInv, WorkFits
<1>3. WorkFits'
  BY <1>1, <1>2, StartupAssumption DEF StartupInv, WorkFits, Savers
<1>4. Sound' => Sound
  BY <1>1 DEF Sound
<1>5. FileInMemory'
  BY <1>1, <1>4 DEF Boot, Start, Connected, ConnectFails, Restore, StartupInv, FileInMemory,
                    PhaseFits, Sound
<1>6. SavesGrow' /\ BatchesHeld'
  BY <1>1, <1>2 DEF SavesGrow, BatchesHeld, Savers
<1>7. OnePlace' /\ AckedDurable'
  BY <1>1 DEF StartupInv, OnePlace, AckedDurable
<1> QED BY <1>3, <1>5, <1>6, <1>7 DEF WritesInv

(* A write is in memory or in the database before its handler goes on.     *)
LEMMA WriteWrites ==
    ASSUME StartupInv, NEW h \in Handlers, NEW w \in Writes, Write(h, w)
    PROVE  WritesInv'
<1> USE StartupAssumption DEF Savers, StartupInv
<1>1. /\ UNCHANGED <<cfg, proc, repo, file, snap, acked, lapses>> /\ proc = "up" /\ pc[h] = "idle"
      /\ req' = [req EXCEPT ![h] = w]
      /\ pc' = [pc EXCEPT ![h] = IF w \in Batches /\ repo = "memory" THEN "snapshot" ELSE "respond"]
      /\ pc \in [Savers -> {"idle", "snapshot", "save", "respond"}]
      /\ req \in [Handlers -> Writes \cup {NoWrite}]
      /\ mem \subseteq mem' /\ db \subseteq db'
      /\ (repo = "memory" => w \in mem' /\ db' = db)
      /\ (repo = "postgres" => w \in db')
      /\ repo \in {"memory", "postgres"}
  BY DEF Write, Apply, HasPersister, envVars, TypeOK, PhaseFits
<1>2. Sound' = Sound
  BY <1>1 DEF Sound
<1>3. WorkFits'
  BY <1>1 DEF WorkFits
<1>4. FileInMemory'
  BY <1>1, <1>2 DEF FileInMemory
<1>5. SavesGrow'
  BY <1>1, <1>2 DEF SavesGrow
<1>6. BatchesHeld'
  BY <1>1, <1>2 DEF BatchesHeld
<1>7. OnePlace'
  <2>1. cfg.dsn = Blank => repo = "memory"
    BY <1>1 DEF PhaseFits
  <2>2. cfg.dsn # Blank /\ lapses = {} => repo = "postgres"
    BY <1>1 DEF PhaseFits
  <2> QED BY <1>1, <2>1, <2>2 DEF OnePlace
<1>8. AckedDurable'
  BY <1>1 DEF AckedDurable
<1> QED BY <1>3, <1>4, <1>5, <1>6, <1>7, <1>8 DEF WritesInv

(* A commit whose answer is lost only adds to the database.                *)
LEMMA LostWrites ==
    ASSUME StartupInv, NEW w \in Writes, WriteAnswerLost(w)
    PROVE  WritesInv'
<1>1. /\ UNCHANGED <<cfg, proc, repo, mem, file, pc, req, snap, acked, lapses>>
      /\ db \subseteq db' /\ cfg.dsn # Blank
  BY DEF WriteAnswerLost, Apply, workVars, envVars, StartupInv, PhaseFits
<1> QED BY <1>1 DEF StartupInv, WritesInv, WorkFits, FileInMemory, SavesGrow, BatchesHeld,
                    OnePlace, AckedDurable, Sound

(* A snapshot holds what memory holds, and so what the file holds.         *)
LEMMA SnapshotWrites ==
    ASSUME StartupInv, NEW p \in Savers, TakeSnapshot(p)
    PROVE  WritesInv'
<1> USE StartupAssumption DEF Savers, StartupInv
<1>1. /\ UNCHANGED <<cfg, proc, repo, mem, file, db, req, acked>> /\ proc = "up" /\ repo = "memory"
      /\ pc' = [pc EXCEPT ![p] = "save"] /\ snap' = [snap EXCEPT ![p] = mem]
      /\ pc \in [Savers -> {"idle", "snapshot", "save", "respond"}]
      /\ snap \in [Savers -> SUBSET Writes]
      /\ pc[p] # "save" /\ (p \in Handlers => pc[p] = "snapshot")
      /\ lapses \subseteq lapses'
      /\ ((\E q \in Savers : pc[q] = "save") => "overlap" \in lapses')
  BY DEF TakeSnapshot, HasPersister, procVars, diskVars, envVars, TypeOK
<1>2. Sound' => Sound /\ \A q \in Savers : pc[q] # "save"
  BY <1>1 DEF Sound
<1>3. WorkFits'
  BY <1>1 DEF WorkFits
<1>4. FileInMemory'
  BY <1>1, <1>2 DEF FileInMemory
<1>5. SavesGrow'
  BY <1>1, <1>2 DEF SavesGrow, FileInMemory
<1>6. BatchesHeld'
  BY <1>1, <1>2 DEF BatchesHeld
<1>7. OnePlace' /\ AckedDurable'
  BY <1>1 DEF OnePlace, AckedDurable
<1> QED BY <1>3, <1>4, <1>5, <1>6, <1>7 DEF WritesInv

(* The file is replaced by a snapshot that holds it.                       *)
LEMMA SaveWrites ==
    ASSUME StartupInv, NEW p \in Savers, Save(p)
    PROVE  WritesInv'
<1> USE StartupAssumption DEF Savers, StartupInv
<1>1. /\ UNCHANGED <<cfg, proc, repo, mem, db, req, acked>> /\ pc[p] = "save"
      /\ pc' = [pc EXCEPT ![p] = IF p = Ticker THEN "idle" ELSE "respond"]
      /\ snap' = [snap EXCEPT ![p] = {}]
      /\ pc \in [Savers -> {"idle", "snapshot", "save", "respond"}]
      /\ snap \in [Savers -> SUBSET Writes]
      /\ lapses \subseteq lapses' /\ (file' = snap[p] \/ "save" \in lapses')
      /\ repo = "memory" /\ proc = "up" /\ cfg.ok
  BY DEF Save, procVars, TypeOK, WorkFits, PhaseFits
<1>2. Sound' => Sound /\ file' = snap[p] /\ file \subseteq file' /\ file' \subseteq mem
  BY <1>1 DEF Sound, SavesGrow
<1>3. Sound' => \A q \in Savers : pc[q] = "save" => q = p
  BY <1>1, <1>2 DEF SavesGrow
<1>4. WorkFits'
  BY <1>1 DEF WorkFits
<1>5. FileInMemory'
  BY <1>1, <1>2 DEF FileInMemory
<1>6. SavesGrow'
  BY <1>1, <1>3 DEF SavesGrow
<1>7. BatchesHeld'
  BY <1>1, <1>2 DEF BatchesHeld
<1>8. OnePlace'
  <2>1. cfg.dsn # Blank => lapses' # {}
    BY <1>1 DEF PhaseFits
  <2> QED BY <1>1, <2>1 DEF OnePlace
<1>9. AckedDurable'
  BY <1>1, <1>2 DEF AckedDurable, Sound
<1> QED BY <1>4, <1>5, <1>6, <1>7, <1>8, <1>9 DEF WritesInv

(* An answer: what is acknowledged is where BatchesHeld has it.            *)
LEMMA RespondWrites ==
    ASSUME StartupInv, NEW h \in Handlers, Respond(h)
    PROVE  WritesInv'
<1> USE StartupAssumption DEF Savers, StartupInv
<1>1. /\ UNCHANGED <<cfg, proc, repo, mem, file, db, snap, lapses>> /\ pc[h] = "respond"
      /\ acked' = acked \cup {req[h]}
      /\ pc' = [pc EXCEPT ![h] = "idle"] /\ req' = [req EXCEPT ![h] = NoWrite]
      /\ pc \in [Savers -> {"idle", "snapshot", "save", "respond"}]
      /\ req \in [Handlers -> Writes \cup {NoWrite}]
  BY DEF Respond, procVars, diskVars, envVars, TypeOK
<1>2. Sound' = Sound
  BY <1>1 DEF Sound
<1>3. WorkFits'
  BY <1>1 DEF WorkFits
<1>4. FileInMemory' /\ SavesGrow'
  BY <1>1, <1>2 DEF FileInMemory, SavesGrow
<1>5. BatchesHeld'
  BY <1>1, <1>2 DEF BatchesHeld
<1>6. OnePlace'
  BY <1>1 DEF OnePlace
<1>7. AckedDurable'
  BY <1>1 DEF AckedDurable, BatchesHeld, Sound
<1> QED BY <1>3, <1>4, <1>5, <1>6, <1>7 DEF WritesInv

(* A crash loses memory and the goroutines, and no disk.                   *)
LEMMA CrashWrites ==
    ASSUME StartupInv, Crash
    PROVE  WritesInv'
<1>1. /\ UNCHANGED <<cfg, file, db, acked, lapses>> /\ repo' = "none"
      /\ \A p \in Savers : pc'[p] = "idle"
  BY DEF Crash, diskVars, AllIdle
<1>2. Ticker \in Savers /\ Handlers \subseteq Savers
  BY DEF Savers
<1> QED BY <1>1, <1>2 DEF StartupInv, WritesInv, WorkFits, FileInMemory, SavesGrow, BatchesHeld,
                          OnePlace, AckedDurable

(* Every step keeps the invariant.                                         *)
LEMMA NextStartup == StartupInv /\ [Next]_vars => StartupInv'
<1> SUFFICES ASSUME StartupInv, [Next]_vars PROVE StartupInv'
  OBVIOUS
<1>1. CASE UNCHANGED vars
  <2>1. TypeOK' /\ PhaseFits' /\ SharedAddressMeets'
    BY <1>1 DEF vars, StartupInv, TypeOK, PhaseFits, SharedAddressMeets
  <2>2. WritesInv'
    BY <1>1 DEF vars, StartupInv, WritesInv, WorkFits, FileInMemory, SavesGrow, BatchesHeld,
                OnePlace, AckedDurable, Sound
  <2> QED BY <2>1, <2>2 DEF StartupInv, WritesInv
<1>2. CASE Next
  <2>1. TypeOK' /\ PhaseFits' /\ SharedAddressMeets'
    BY <1>2, NextTypes
  <2>2. ASSUME Outage PROVE WritesInv'
    BY <2>2 DEF Outage, procVars, diskVars, workVars, StartupInv, WritesInv, WorkFits,
                FileInMemory, SavesGrow, BatchesHeld, OnePlace, AckedDurable, Sound
  <2>3. ASSUME Serve PROVE WritesInv'
    BY <2>3, WriteWrites, LostWrites, SnapshotWrites, SaveWrites, RespondWrites DEF Serve
  <2>4. WritesInv'
    BY <1>2, <2>2, <2>3, BootWrites, CrashWrites DEF Next
  <2> QED BY <2>1, <2>4 DEF StartupInv, WritesInv
<1> QED BY <1>1, <1>2

(* With or without a database, a batch is where the running server looks.  *)
LEMMA PlaceIsVisible == StartupInv => AckedVisible
<1> SUFFICES ASSUME StartupInv, proc = "up", lapses = {}, cfg.dsn # Blank \/ cfg.restore
             PROVE  acked \cap Batches \subseteq Visible
  BY DEF AckedVisible
<1>1. repo \in {"memory", "postgres"} /\ cfg.ok
  BY DEF StartupInv, PhaseFits, TypeOK
<1>2. CASE cfg.dsn # Blank
  <2>1. repo = "postgres"
    BY <1>1, <1>2 DEF StartupInv, PhaseFits
  <2> QED BY <1>1, <1>2, <2>1 DEF StartupInv, OnePlace, Visible
<1>3. CASE cfg.dsn = Blank
  <2>1. repo = "memory" /\ Sound
    BY <1>1, <1>3 DEF StartupInv, PhaseFits, Sound
  <2>2. acked \cap Batches \subseteq db \cup file /\ db = {} /\ file \subseteq mem
    BY <1>1, <1>3, <2>1 DEF StartupInv, AckedDurable, OnePlace, FileInMemory, Sound
  <2> QED BY <2>1, <2>2 DEF Visible
<1> QED BY <1>2, <1>3

(* The invariant holds in every reachable state.                           *)
LEMMA StartupHolds == Spec => []StartupInv
BY InitStartup, NextStartup, PTL DEF Spec

(* Every accepted configuration gives the tickers of both programs a       *)
(* positive period and the agent a worker, also where the conversion of    *)
(* seconds overflows int64; a start makes at most Delays + 1 attempts.     *)
THEOREM StartupTypes == Spec => []TypeOK
BY StartupHolds, PTL DEF StartupInv

(* Whatever text both programs are given for ADDRESS, the agent dials the  *)
(* host and port that the server listens on.                               *)
THEOREM AddressesMeet == Spec => []SharedAddressMeets
BY StartupHolds, PTL DEF StartupInv

(* For any number of handlers, crashes and outages no acknowledged batch   *)
(* disappears, as long as no start missed the database or failed to        *)
(* restore, no Save failed and no two Saves overlapped.                    *)
THEOREM BatchesVisible == Spec => []AckedVisible
BY StartupHolds, PlaceIsVisible, PTL

(* With RESTORE on, fallbacks to memory and returns to the database hide   *)
(* batches but destroy none, unless a Restore or a Save failed or two      *)
(* Saves overlapped.                                                       *)
THEOREM BatchesDurable == Spec => []AckedDurable
BY StartupHolds, PTL DEF StartupInv
=============================================================================
