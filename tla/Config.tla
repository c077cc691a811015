------------------------------- MODULE Config --------------------------------
(***************************************************************************)
(* How internal/config resolves settings from the environment, the flags   *)
(* and the defaults.  Texts are what a user may write; what strconv, time  *)
(* and net/url read in them are constants.  Durations are int64 numbers of *)
(* nanoseconds and wrap: here int64 has 2 * HalfRange values and a second  *)
(* is Second of them.                                                      *)
(***************************************************************************)
EXTENDS Integers

CONSTANTS Texts,      \* what a variable or a flag may be set to
          Blank,      \* the empty text
          TrimSpace,  \* strings.TrimSpace on Texts
          ParseInt,   \* the number a text spells, or NotParsed
          ParseDur,   \* the duration it spells in Go syntax, or NotParsed
          ParseBool,  \* the truth value it spells, or NotParsed
          ParseAddr,  \* whether it has a scheme, its host and port, or NotParsed
          NotParsed,
          Second, HalfRange,
          DefStore, DefReport, DefPoll  \* the defaults, in seconds, at this scale

Addrs == [scheme : BOOLEAN, host : STRING, port : STRING]

ASSUME ConfigAssumption ==
    /\ Blank \in Texts /\ TrimSpace \in [Texts -> Texts] /\ TrimSpace[Blank] = Blank
    /\ \A t \in Texts : TrimSpace[TrimSpace[t]] = TrimSpace[t]
    /\ {":8080", "http://localhost:8080"} \subseteq Texts
    /\ ParseInt \in [Texts -> Int \cup {NotParsed}] /\ ParseInt[Blank] = NotParsed
    /\ ParseDur \in [Texts -> Int \cup {NotParsed}]
    /\ ParseBool \in [Texts -> BOOLEAN \cup {NotParsed}]
    /\ ParseAddr \in [Texts -> Addrs \cup {NotParsed}]
    /\ ParseAddr[":8080"] = [scheme |-> FALSE, host |-> "", port |-> "8080"]
    /\ ParseAddr["http://localhost:8080"] = [scheme |-> TRUE, host |-> "localhost", port |-> "8080"]

ASSUME ScaleAssumption ==
    /\ Second \in Nat \ {0} /\ HalfRange \in Nat \ {0}
    /\ {DefStore, DefReport, DefPoll} \subseteq Nat \ {0}
    /\ \A d \in {DefStore, DefReport, DefPoll} : d * Second < HalfRange

(* time.Duration(n) * time.Second                                          *)
Seconds(n) == ((n * Second + HalfRange) % (2 * HalfRange)) - HalfRange

-----------------------------------------------------------------------------
FromEnvOrFlag(ev, fl, def) ==
    IF TrimSpace[ev] # Blank THEN TrimSpace[ev]
    ELSE IF TrimSpace[fl] # Blank THEN TrimSpace[fl] ELSE def

(* A variable that is set but spells no truth value hides the flag.        *)
FromEnvOrFlagBool(ev, fl, def) ==
    LET t == TrimSpace[ev]
    IN  IF t = Blank THEN fl \/ def
        ELSE IF ParseBool[t] # NotParsed THEN ParseBool[t] ELSE def

(* A variable that is set but spells no number in range does not.          *)
FromEnvOrFlagInt(ev, fl, def, min) ==
    LET n == ParseInt[TrimSpace[ev]]
    IN  IF n # NotParsed /\ n >= min THEN n
        ELSE IF fl # 0 /\ fl >= min THEN fl ELSE def

FromEnvOrFlagDuration(ev, fl, sentinel, def) ==
    LET t == TrimSpace[ev]
    IN  IF t = Blank THEN Seconds(IF fl # sentinel THEN fl ELSE def)
        ELSE IF ParseInt[t] # NotParsed THEN Seconds(ParseInt[t])
        ELSE IF ParseDur[t] # NotParsed THEN ParseDur[t]
        ELSE Seconds(def)

-----------------------------------------------------------------------------
(* Faulty variant of NormalizeListen: a URL is taken for host and port.    *)
NormalizeListenKeepingScheme(a) ==
    IF a # NotParsed /\ a.port = "" THEN [a EXCEPT !.host = "", !.port = a.host] ELSE a

(* normalizeListenAndServeURL: the host of a URL; a text without a colon   *)
(* is a port.                                                              *)
NormalizeListen(a) ==
    CASE a = NotParsed -> a
      [] a # NotParsed /\ a.scheme -> [a EXCEPT !.scheme = FALSE]
      [] a # NotParsed /\ ~a.scheme /\ a.port = "" -> [a EXCEPT !.host = "", !.port = a.host]
      [] OTHER -> a

(* normalizeAddressURL: a text that is only a port without its colon       *)
(* becomes a host.                                                         *)
NormalizeDial(a) ==
    IF a = NotParsed THEN a
    ELSE [a EXCEPT !.scheme = TRUE,
                   !.host = IF ~a.scheme /\ a.host = "" THEN "localhost" ELSE a.host]

Refused == [ok |-> FALSE]

(* Faulty variant of LoadServerConfig: a negative number of seconds is     *)
(* looked for before it is turned into a duration.                         *)
LoadServerConfigEarlyCheck(env, fl) ==
    LET addr == NormalizeListen(ParseAddr[FromEnvOrFlag(env.address, fl.address, ":8080")])
        secs == ParseInt[TrimSpace[env.interval]]
    IN  IF addr = NotParsed \/ addr.port = "" \/ (secs # NotParsed /\ secs < 0) THEN Refused
        ELSE [ok |-> TRUE, address |-> addr,
              dsn |-> FromEnvOrFlag(env.dsn, fl.dsn, Blank),
              interval |-> FromEnvOrFlagDuration(env.interval, fl.interval, -1, DefStore),
              restore |-> FromEnvOrFlagBool(env.restore, fl.restore, FALSE)]

(* File, key and audit sinks are texts resolved like the DSN.              *)
LoadServerConfig(env, fl) ==
    LET addr == NormalizeListen(ParseAddr[FromEnvOrFlag(env.address, fl.address, ":8080")])
        interval == FromEnvOrFlagDuration(env.interval, fl.interval, -1, DefStore)
    IN  IF addr = NotParsed \/ addr.port = "" \/ interval < 0 THEN Refused
        ELSE [ok |-> TRUE, address |-> addr, interval |-> interval,
              dsn |-> FromEnvOrFlag(env.dsn, fl.dsn, Blank),
              restore |-> FromEnvOrFlagBool(env.restore, fl.restore, FALSE)]

LoadAgentConfig(env, fl) ==
    LET addr == NormalizeDial(ParseAddr[FromEnvOrFlag(env.address, fl.address, "http://localhost:8080")])
        report == FromEnvOrFlagDuration(env.report, fl.report, 0, DefReport)
        poll == FromEnvOrFlagDuration(env.poll, fl.poll, 0, DefPoll)
    IN  IF addr = NotParsed \/ report <= 0 \/ poll <= 0 THEN Refused
        ELSE [ok |-> TRUE, address |-> addr, report |-> report, poll |-> poll,
              limit |-> FromEnvOrFlagInt(env.limit, fl.limit, 1, 1)]
=============================================================================
