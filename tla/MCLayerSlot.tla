----------------------------- MODULE MCLayerSlot -----------------------------
(***************************************************************************)
(* LayerSlot with two threads, one of them inside of a span, and a         *)
(* configuration with an OtlpLogSink, an SlsLogSink, a MetricSink and a    *)
(* TraceSink.                                                              *)
(***************************************************************************)
EXTENDS LayerSlot

MCConfigured == [logs |-> <<"otlp", "sls">>, metrics |-> <<"metric">>, traces |-> <<"trace">>]

\* Both sides of INFO, where the filter and the SLS layer cut, and the ends.
MCLevelnos == {NOTSET, 19, 20, 50}
==============================================================================
