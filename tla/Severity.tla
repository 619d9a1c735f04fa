------------------------------ MODULE Severity ------------------------------
(***************************************************************************)
(* How severe a log record is on its way into the slots: the level of      *)
(* Python's logging module, the severity number of OpenTelemetry           *)
(* (python/pytracingx/logging.py), the level of the tracing event          *)
(* (rust/src/logs.rs), the slot's filter (rust/src/runtime.rs) and the SLS *)
(* layer's own (rust/src/sls_log.rs).                                      *)
(***************************************************************************)
EXTENDS Integers

\* tracing's levels, the most verbose one first.
TRACE == 1
DEBUG == 2
INFO  == 3
WARN  == 4
ERROR == 5

Level == TRACE .. ERROR

\* logging's levels.
NOTSET   == 0
CRITICAL == 50
Std == [debug |-> 10, info |-> 20, warn |-> 30, error |-> 40, fatal |-> CRITICAL]

----------------------------------------------------------------------------
(* severity_to_level *)

\* Mutated form: a bound too far.
LevelAboveBound(v) ==
    CASE v <= 5 -> TRACE
      [] v \in 6 .. 9 -> DEBUG
      [] v \in 10 .. 13 -> INFO
      [] v \in 14 .. 17 -> WARN
      [] v > 17 -> ERROR

\* The arms of the match, whose guards are tried in this order.
SeverityToLevel(v) ==
    CASE v <= 4 -> TRACE
      [] v \in 5 .. 8 -> DEBUG
      [] v \in 9 .. 12 -> INFO
      [] v \in 13 .. 16 -> WARN
      [] v > 16 -> ERROR

\* The methods of Logger: the level and the severity_text each emits with.
LoggerMethod ==
    [trace |-> <<TRACE, "TRACE">>, debug |-> <<DEBUG, "DEBUG">>, info |-> <<INFO, "INFO">>,
     warn |-> <<WARN, "WARN">>, error |-> <<ERROR, "ERROR">>, fatal |-> <<ERROR, "FATAL">>]

\* leak_static's match: any other text is leaked, once for every record.
StaticText == {"TRACE", "DEBUG", "INFO", "WARN", "ERROR", "FATAL"}

----------------------------------------------------------------------------
(* The bridge from logging. *)

\* _severity_for: the number and the text for a level.
SeverityFor(levelno) ==
    CASE levelno >= CRITICAL -> <<21, "FATAL">>
      [] levelno \in 40 .. 49 -> <<17, "ERROR">>
      [] levelno \in 30 .. 39 -> <<13, "WARN">>
      [] levelno \in 20 .. 29 -> <<9, "INFO">>
      [] levelno \in 10 .. 19 -> <<5, "DEBUG">>
      [] levelno < 10 -> <<1, "TRACE">>

\* SLSLoggingHandler.emit
BridgeLevel(levelno) == SeverityToLevel(SeverityFor(levelno)[1])

\* install: the level that the logger has afterwards.
InstallLevel(level, target) ==
    IF target = NOTSET \/ target > level THEN level ELSE target

\* Logger.isEnabledFor and Handler's level, for a logger with a level of its own.
Handled(levelno, target, level) == levelno >= target /\ levelno >= level

----------------------------------------------------------------------------
(* The filters. *)

\* SwappableLayers.filter, for a filter that is one level (the default is INFO).
Enabled(level, filter) == level >= filter

\* SlsLogLayer: "Only forward INFO/WARN/ERROR to SLS".
SlsForwards(level) == level >= INFO

----------------------------------------------------------------------------
(* What the mappings have to agree with; SeverityProofs has the theorems. *)

\* OpenTelemetry's data model, to which logging.py refers, gives each level four
\* severity numbers, from 1 on; what is outside goes to the nearest level.
ModelLevel(v) ==
    LET range == (v + 3) \div 4
    IN  IF range < TRACE THEN TRACE ELSE IF range > ERROR THEN ERROR ELSE range

\* The logger lets through what each of its handlers wants.
LoggerServes(level, handlers) ==
    \A h \in handlers : \A a \in Int : a >= h => Handled(a, level, h)
============================================================================
