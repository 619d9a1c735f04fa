--------------------------- MODULE SeverityProofs ---------------------------
(***************************************************************************)
(* The mappings of Severity, for every integer.                            *)
(***************************************************************************)
EXTENDS Severity, TLAPS

\* severity_to_level agrees with OpenTelemetry's data model: no bound is off by one.
THEOREM SeverityMatchesModel ==
    \A v \in Int : SeverityToLevel(v) = ModelLevel(v)
<1> TAKE v \in Int
<1> DEFINE range == (v + 3) \div 4
<1>1. CASE v <= 4
  <2>1. range <= 1
    BY <1>1
  <2> QED
    BY <1>1, <2>1 DEF SeverityToLevel, ModelLevel, TRACE, DEBUG, INFO, WARN, ERROR
<1>2. CASE v \in 5 .. 8
  <2>1. range = 2
    BY <1>2
  <2> QED
    BY <1>2, <2>1 DEF SeverityToLevel, ModelLevel, TRACE, DEBUG, INFO, WARN, ERROR
<1>3. CASE v \in 9 .. 12
  <2>1. range = 3
    BY <1>3
  <2> QED
    BY <1>3, <2>1 DEF SeverityToLevel, ModelLevel, TRACE, DEBUG, INFO, WARN, ERROR
<1>4. CASE v \in 13 .. 16
  <2>1. range = 4
    BY <1>4
  <2> QED
    BY <1>4, <2>1 DEF SeverityToLevel, ModelLevel, TRACE, DEBUG, INFO, WARN, ERROR
<1>5. CASE v > 16
  <2>1. range >= 5
    BY <1>5
  <2> QED
    BY <1>5, <2>1 DEF SeverityToLevel, ModelLevel, TRACE, DEBUG, INFO, WARN, ERROR
<1> QED
  BY <1>1, <1>2, <1>3, <1>4, <1>5

\* The bridge's level, in one step.
LEMMA BridgeLevels ==
    ASSUME NEW a \in Int
    PROVE  /\ a < 10 => BridgeLevel(a) = TRACE
           /\ a \in 10 .. 19 => BridgeLevel(a) = DEBUG
           /\ a \in 20 .. 29 => BridgeLevel(a) = INFO
           /\ a \in 30 .. 39 => BridgeLevel(a) = WARN
           /\ a >= 40 => BridgeLevel(a) = ERROR
<1>1. SeverityFor(a)[1] = IF a >= 50 THEN 21 ELSE IF a >= 40 THEN 17 ELSE
                          IF a >= 30 THEN 13 ELSE IF a >= 20 THEN 9 ELSE
                          IF a >= 10 THEN 5 ELSE 1
  BY DEF SeverityFor, CRITICAL
<1> QED
  BY <1>1 DEF BridgeLevel, SeverityToLevel

\* A record of logging that is more severe never becomes a less severe event.
THEOREM BridgeMonotone ==
    \A a, b \in Int : a <= b => BridgeLevel(a) <= BridgeLevel(b)
<1> TAKE a, b \in Int
<1> QED
  BY BridgeLevels DEF TRACE, DEBUG, INFO, WARN, ERROR

\* A record of logging comes out as it does from the Logger's method of its name.
THEOREM BridgeAgreesWithLogger ==
    \A m \in DOMAIN Std : LoggerMethod[m] = <<BridgeLevel(Std[m]), SeverityFor(Std[m])[2]>>
<1>1. DOMAIN Std = {"debug", "info", "warn", "error", "fatal"}
  BY DEF Std
<1>2. /\ BridgeLevel(10) = DEBUG /\ BridgeLevel(20) = INFO /\ BridgeLevel(30) = WARN
      /\ BridgeLevel(40) = ERROR /\ BridgeLevel(50) = ERROR
  BY BridgeLevels
<1>3. /\ SeverityFor(10)[2] = "DEBUG" /\ SeverityFor(20)[2] = "INFO"
      /\ SeverityFor(30)[2] = "WARN" /\ SeverityFor(40)[2] = "ERROR"
      /\ SeverityFor(50)[2] = "FATAL"
  BY DEF SeverityFor, CRITICAL
<1> QED
  BY <1>1, <1>2, <1>3 DEF Std, LoggerMethod, CRITICAL

\* The bridge never makes emit_log_record leak a severity_text.
THEOREM BridgeNeverLeaks ==
    \A a \in Int : SeverityFor(a)[2] \in StaticText
BY DEF SeverityFor, StaticText, CRITICAL

\* install(level) makes the logger let through what the new handler wants, and takes
\* nothing away from the handlers that were installed before, in whatever order.
THEOREM InstallServesAll ==
    ASSUME NEW handlers \in SUBSET Int, NEW target \in Nat, NEW level \in Nat \ {NOTSET},
           target # NOTSET => LoggerServes(target, handlers),
           target = NOTSET => handlers = {}
    PROVE  /\ InstallLevel(level, target) # NOTSET
           /\ LoggerServes(InstallLevel(level, target), handlers \cup {level})
BY DEF InstallLevel, LoggerServes, Handled, NOTSET

\* With install's default of INFO, all that the handler gets reaches the SLS sinks.
THEOREM DefaultInstallReachesSls ==
    \A a \in Int, target \in Nat :
        Handled(a, InstallLevel(Std.info, target), Std.info) => SlsForwards(BridgeLevel(a))
BY BridgeLevels DEF Handled, InstallLevel, SlsForwards, Std, INFO, WARN, ERROR
=============================================================================
