----------------------------- MODULE MCRuntime -----------------------------
(* Instances of Runtime for TLC. *)
EXTENDS Runtime

\* All kinds of sinks, and a configuration without any.
Full == [traces |-> 2, metrics |-> 1, otlp |-> 1, sls |-> 2, console |-> FALSE]
ConsoleOnly == [traces |-> 0, metrics |-> 0, otlp |-> 0, sls |-> 0, console |-> TRUE]

FullOrConsole == {Full, ConsoleOnly}
============================================================================
