--------------------------- MODULE RuntimeProofs ---------------------------
(***************************************************************************)
(* Proofs about Runtime, for every set of threads and of configurations    *)
(* and every bound.                                                        *)
(***************************************************************************)
EXTENDS Runtime, SequenceTheorems, TLAPS

----------------------------------------------------------------------------
(* Type correctness and mutual exclusion. *)

\* The sinks of an install that has a configuration are sinks.
LEMMA SinkTypes ==
    ASSUME NEW g \in 1 .. gen, conf \in Seq(Configs)
    PROVE  /\ \A kind \in Kind : conf[g][kind] \in Nat
           /\ \A kind \in Kind : Sinks(g, kind) \subseteq Sink
           /\ \A kind \in Kind : First(g, kind) \subseteq Sink
           /\ \A kind \in Kind : SinkSeq(g, kind) \in Seq(Sink)
           /\ SinksOf(g) \subseteq Sink
           /\ LogLayers(g) \subseteq Sink \cup {Console}
<1>1. \A kind \in Kind : conf[g][kind] \in Nat
  <2>1. conf[g] \in Configs
    BY ElementOfSeq DEF gen
  <2> QED  BY <2>1, RuntimeAssumption DEF Kind
<1>2. \A kind \in Kind, i \in Nat : <<g, kind, i>> \in Sink
  BY LenProperties DEF Sink, gen
<1>3. \A kind \in Kind : Sinks(g, kind) \subseteq Sink
  BY <1>1, <1>2 DEF Sinks
<1>4. \A kind \in Kind : First(g, kind) \subseteq Sink
  BY <1>1, <1>2 DEF First
<1>5. ASSUME NEW kind \in Kind PROVE SinkSeq(g, kind) \in Seq(Sink)
  <2>1. \A i \in 1 .. conf[g][kind] : <<g, kind, i>> \in Sink
    BY <1>1, <1>2
  <2> QED  BY <1>1, <2>1 DEF SinkSeq
<1>6. SinksOf(g) \subseteq Sink
  BY <1>3 DEF SinksOf
<1>7. LogLayers(g) \subseteq Sink \cup {Console}
  BY <1>3 DEF LogLayers, Kind
<1> QED  BY <1>1, <1>3, <1>4, <1>5, <1>6, <1>7

LEMMA OrderTypes ==
    ASSUME NEW g \in 1 .. gen, conf \in Seq(Configs)
    PROVE  ShutdownOrder(g) \in Seq(Sink) /\ FlushOrder(g) \in Seq(Sink)
<1>1. /\ SinkSeq(g, "sls") \in Seq(Sink) /\ SinkSeq(g, "traces") \in Seq(Sink)
      /\ SinkSeq(g, "metrics") \in Seq(Sink) /\ SinkSeq(g, "otlp") \in Seq(Sink)
  BY SinkTypes DEF Kind
<1> QED  BY <1>1, ConcatProperties DEF ShutdownOrder, FlushOrder

\* Control: the lock excludes, and what a holder may count on.
ControlInv ==
    /\ mutex \subseteq Threads
    /\ pc \in [Threads -> Holding \cup {"idle", "lock", "returned"}]
    /\ op \in [Threads -> Op \cup {"none"}]
    /\ res \in [Threads -> {"none", "ok", "error"}]
    /\ \A t \in Threads : (t \in mutex) <=> (pc[t] \in Holding)
    /\ \A t, u \in mutex : t = u
    /\ \A t \in Threads : pc[t] \in Installing => gen # 0 /\ state = 0
    /\ \A t \in Threads : pc[t] \in Uninstalling => state = 0
    /\ \A t \in Threads : pc[t] = "flush" => state # 0

\* Data: the types of what the threads share and record.
DataInv ==
    /\ state \in 0 .. gen
    /\ conf \in Seq(Configs)
    /\ inits \in 0 .. MaxInits
    /\ items \in 0 .. MaxItems
    /\ slots \in [traces : SUBSET Sink, metrics : SUBSET Sink,
                  logs : SUBSET (Sink \cup {Console})]
    /\ readers \subseteq DOMAIN DefaultSlots
    /\ globals \in [tracer : SUBSET Sink, meter : SUBSET Sink]
    /\ meter \subseteq Sink /\ instrument \subseteq Sink /\ down \subseteq Sink
    /\ work \in Seq(Sink)
    /\ pending \subseteq (1 .. items) \X Sink
    /\ due \in [Threads -> SUBSET ((1 .. items) \X Sink)]

LEMMA TypeParts == ControlInv /\ DataInv => TypeOK
BY DEF ControlInv, DataInv, TypeOK

LEMMA ControlStep == ControlInv /\ DataInv /\ [Next]_vars => ControlInv'
<1> SUFFICES ASSUME ControlInv, DataInv, [Next]_vars
             PROVE  ControlInv'
  OBVIOUS
<1> USE DEF ControlInv, Holding, Installing, Uninstalling, Op, Quiet, Goto, Leave, Free,
            handles, shared, threads, recorded, gen
<1>1. ASSUME NEW t \in Threads, NEW f \in Op, Call(t, f) PROVE ControlInv'
  BY <1>1 DEF Call
<1>2. ASSUME NEW t \in Threads, Back(t) PROVE ControlInv'
  BY <1>2 DEF Back
<1>3. ASSUME NEW t \in Threads, InstallLock(t) PROVE ControlInv'
  <2>1. CASE NotInstalled
    <3>1. Len(conf') # 0 /\ state' = 0
      <4>1. PICK config \in Configs : conf' = Append(conf, config)
        BY <1>3, <2>1 DEF InstallLock
      <4>2. Len(conf') = Len(conf) + 1 /\ Len(conf) \in Nat
        BY <4>1, AppendProperties, LenProperties DEF DataInv
      <4> QED  BY <1>3, <2>1, <4>2 DEF InstallLock, NotInstalled
    <3> QED  BY <1>3, <2>1, <3>1 DEF InstallLock
  <2>2. CASE ~NotInstalled
    BY <1>3, <2>2 DEF InstallLock
  <2> QED  BY <2>1, <2>2
<1>4. ASSUME NEW t \in Threads, NEW label \in Installing, NEW kind, BuildFails(t, label, kind)
      PROVE  ControlInv'
  BY <1>4 DEF BuildFails, Fail
<1>5. ASSUME NEW t \in Threads, BuildTracers(t) \/ BuildMeters(t) \/ BuildLoggers(t)
      PROVE  ControlInv'
  BY <1>5 DEF BuildTracers, BuildMeters, BuildLoggers
<1>6. ASSUME NEW t \in Threads,
             \/ InstallMetricLayers(t) \/ InstallTraceLayers(t) \/ InstallLogLayers(t)
      PROVE  ControlInv'
  BY <1>6 DEF InstallMetricLayers, InstallTraceLayers, InstallLogLayers, Replace
<1>7. ASSUME NEW t \in Threads, InstallCommit(t) PROVE ControlInv'
  BY <1>7 DEF InstallCommit
<1>8. ASSUME NEW t \in Threads, NothingToDo(t) PROVE ControlInv'
  BY <1>8 DEF NothingToDo
<1>9. ASSUME NEW t \in Threads, UninstallLock(t) PROVE ControlInv'
  BY <1>9 DEF UninstallLock, StateTaken
<1>10. ASSUME NEW t \in Threads, ShutdownSink(t) \/ FlushSink(t) PROVE ControlInv'
  BY <1>10 DEF ShutdownSink, FlushSink
<1>11. ASSUME NEW t \in Threads,
              \/ UninstallLogLayers(t) \/ UninstallMetricLayers(t) \/ UninstallTraceLayers(t)
       PROVE  ControlInv'
  BY <1>11 DEF UninstallLogLayers, UninstallMetricLayers, UninstallTraceLayers, Replace
<1>12. ASSUME NEW t \in Threads, FlushLock(t) PROVE ControlInv'
  BY <1>12 DEF FlushLock
<1>13. ASSUME NEW t \in Threads, Unlock(t) PROVE ControlInv'
  BY <1>13 DEF Unlock
<1>14. CASE Application
  BY <1>14 DEF Application, RecordSpan, RecordLog, RecordMeasurement, Record, GetMeter, GetInstrument,
      Export, ReadersIn, ReadersOut
<1>15. CASE UNCHANGED vars
  BY <1>15 DEF vars
<1> QED
  BY <1>1, <1>2, <1>3, <1>4, <1>5, <1>6, <1>7, <1>8, <1>9, <1>10, <1>11, <1>12,
     <1>13, <1>14, <1>15 DEF Next, Step, Install, Uninstall, ForceFlush

LEMMA DataStep == ControlInv /\ DataInv /\ [Next]_vars => DataInv'
<1> SUFFICES ASSUME ControlInv, DataInv, [Next]_vars
             PROVE  DataInv'
  OBVIOUS
<1> USE DEF DataInv, Quiet, Leave, handles, shared, threads, recorded
<1>0. /\ gen \in Nat
      /\ \A sinks : Due(sinks) \subseteq (1 .. items) \X Sink
      /\ 1 .. items \subseteq 1 .. (items + 1)
  BY LenProperties DEF gen, Due
<1>h. ASSUME NEW t \in Threads, pc[t] \in Installing
      PROVE  gen \in 1 .. gen /\ conf \in Seq(Configs)
  BY <1>0, <1>h DEF ControlInv
<1>s. ASSUME state # 0
      PROVE  SinksOf(state) \subseteq Sink
             /\ ShutdownOrder(state) \in Seq(Sink) /\ FlushOrder(state) \in Seq(Sink)
  BY <1>0, <1>s, SinkTypes, OrderTypes
<1>g. ASSUME conf' = conf PROVE gen' = gen
  BY <1>g DEF gen
<1>1. ASSUME NEW t \in Threads, NEW f \in Op, Call(t, f) PROVE DataInv'
  BY <1>1, <1>g, RuntimeAssumption DEF Call
<1>2. ASSUME NEW t \in Threads, Back(t) PROVE DataInv'
  BY <1>2, <1>g DEF Back
<1>3. ASSUME NEW t \in Threads, InstallLock(t) PROVE DataInv'
  <2>1. CASE NotInstalled
    <3>1. PICK config \in Configs : conf' = Append(conf, config)
      BY <1>3, <2>1 DEF InstallLock
    <3>2. conf' \in Seq(Configs) /\ gen' = gen + 1
      BY <3>1, AppendProperties DEF gen
    <3> QED  BY <1>0, <1>3, <2>1, <3>2 DEF InstallLock
  <2>2. CASE ~NotInstalled
    BY <1>3, <1>g, <2>2 DEF InstallLock
  <2> QED  BY <2>1, <2>2
<1>4. ASSUME NEW t \in Threads, NEW label \in Installing, NEW kind, BuildFails(t, label, kind)
      PROVE  DataInv'
  BY <1>4, <1>g DEF BuildFails, Fail
<1>5. ASSUME NEW t \in Threads, BuildTracers(t) \/ BuildMeters(t) \/ BuildLoggers(t)
      PROVE  DataInv'
  <2>1. First(gen, "traces") \subseteq Sink /\ First(gen, "metrics") \subseteq Sink
    <3>1. pc[t] \in Installing
      BY <1>5 DEF BuildTracers, BuildMeters, BuildLoggers, Installing
    <3> QED  BY <1>h, <3>1, SinkTypes DEF Kind
  <2>2. globals' \in [tracer : SUBSET Sink, meter : SUBSET Sink]
    BY <1>5, <2>1 DEF BuildTracers, BuildMeters, BuildLoggers, SetGlobal
  <2> QED  BY <1>5, <1>g, <2>2 DEF BuildTracers, BuildMeters, BuildLoggers
<1>6. ASSUME NEW t \in Threads,
             \/ InstallMetricLayers(t) \/ InstallTraceLayers(t) \/ InstallLogLayers(t)
      PROVE  DataInv'
  <2>1. /\ Sinks(gen, "metrics") \subseteq Sink /\ Sinks(gen, "traces") \subseteq Sink
        /\ LogLayers(gen) \subseteq Sink \cup {Console}
    <3>1. pc[t] \in Installing
      BY <1>6 DEF InstallMetricLayers, InstallTraceLayers, InstallLogLayers, Replace, Installing
    <3> QED  BY <1>h, <3>1, SinkTypes DEF Kind
  <2> QED
    BY <1>6, <1>g, <2>1
    DEF InstallMetricLayers, InstallTraceLayers, InstallLogLayers, Replace
<1>7. ASSUME NEW t \in Threads, InstallCommit(t) PROVE DataInv'
  BY <1>0, <1>7, <1>g DEF InstallCommit
<1>8. ASSUME NEW t \in Threads, NothingToDo(t) \/ Unlock(t) PROVE DataInv'
  BY <1>8, <1>g DEF NothingToDo, Unlock
<1>9. ASSUME NEW t \in Threads, UninstallLock(t) PROVE DataInv'
  BY <1>0, <1>9, <1>g, <1>s DEF UninstallLock, StateTaken
<1>10. ASSUME NEW t \in Threads, ShutdownSink(t) \/ FlushSink(t) PROVE DataInv'
  <2>1. Head(work) \in Sink /\ Tail(work) \in Seq(Sink)
    BY <1>10, HeadTailProperties DEF ShutdownSink, FlushSink
  <2> QED  BY <1>10, <1>g, <2>1 DEF ShutdownSink, FlushSink
<1>11. ASSUME NEW t \in Threads,
              \/ UninstallLogLayers(t) \/ UninstallMetricLayers(t) \/ UninstallTraceLayers(t)
       PROVE  DataInv'
  BY <1>11, <1>g
  DEF UninstallLogLayers, UninstallMetricLayers, UninstallTraceLayers, Replace
<1>12. ASSUME NEW t \in Threads, FlushLock(t) PROVE DataInv'
  BY <1>0, <1>12, <1>g, <1>s DEF FlushLock
<1>13. ASSUME NEW sinks, sinks \subseteq Sink \cup {Console}, Record(sinks) PROVE DataInv'
  <2>1. \A s \in sinks \ (down \cup {Console}) : s \in Sink
    BY <1>13
  <2>2. items' = items + 1 /\ items' \in 0 .. MaxItems
    BY <1>13, RuntimeAssumption DEF Record
  <2>3. pending' \subseteq (1 .. items') \X Sink
    BY <1>0, <1>13, <2>1, <2>2 DEF Record
  <2>4. due' \in [Threads -> SUBSET ((1 .. items') \X Sink)]
    BY <1>0, <1>13, <2>2 DEF Record
  <2> QED  BY <1>13, <1>g, <2>2, <2>3, <2>4 DEF Record
<1>14. CASE Application
  <2>1. /\ slots.traces \subseteq Sink \cup {Console}
        /\ slots.logs \subseteq Sink \cup {Console}
        /\ instrument \subseteq Sink \cup {Console}
    OBVIOUS
  <2>2. CASE RecordSpan \/ RecordLog \/ RecordMeasurement
    BY <1>13, <2>1, <2>2 DEF RecordSpan, RecordLog, RecordMeasurement
  <2>3. CASE GetMeter \/ GetInstrument
    BY <1>g, <2>3 DEF GetMeter, GetInstrument
  <2>4. CASE Export
    BY <1>g, <2>4 DEF Export
  <2>5. ASSUME NEW slot \in DOMAIN DefaultSlots, ReadersIn(slot) \/ ReadersOut(slot)
        PROVE  DataInv'
    BY <1>g, <2>5 DEF ReadersIn, ReadersOut
  <2> QED  BY <1>14, <2>2, <2>3, <2>4, <2>5 DEF Application
<1>15. CASE UNCHANGED vars
  BY <1>15, <1>g DEF vars
<1> QED
  BY <1>1, <1>2, <1>3, <1>4, <1>5, <1>6, <1>7, <1>8, <1>9, <1>10, <1>11, <1>12,
     <1>14, <1>15 DEF Next, Step, Install, Uninstall, ForceFlush, Installing

LEMMA Basics == Spec => [](ControlInv /\ DataInv)
<1>1. Init => ControlInv /\ DataInv
  BY RuntimeAssumption, EmptySeq
  DEF Init, ControlInv, DataInv, gen, DefaultSlots, Holding, Installing, Uninstalling
<1> QED  BY <1>1, ControlStep, DataStep, PTL DEF Spec

\* The lock excludes, and every reachable state is well typed.
THEOREM TypeCorrect == Spec => []TypeOK
BY Basics, TypeParts, PTL

----------------------------------------------------------------------------
(* The slots follow the state. *)

\* While install runs, the slots it has passed hold its layers; it commits only
\* when they all do, and nobody touches them while something is installed.
LayersInv ==
    /\ state # 0 => slots = LayersOf(state)
    /\ \A t \in Threads :
          /\ pc[t] \in {"trace_layers", "log_layers", "commit"} =>
                slots.metrics = Sinks(gen, "metrics")
          /\ pc[t] \in {"log_layers", "commit"} => slots.traces = Sinks(gen, "traces")
          /\ pc[t] = "commit" => slots.logs = LogLayers(gen)

LEMMA LayersStep == ControlInv /\ DataInv /\ LayersInv /\ [Next]_vars => LayersInv'
<1> SUFFICES ASSUME ControlInv, DataInv, LayersInv, [Next]_vars
             PROVE  LayersInv'
  OBVIOUS
<1> USE DEF LayersInv, Quiet, Leave, Goto, handles, shared, threads, recorded
<1>c. /\ pc \in [Threads -> Holding \cup {"idle", "lock", "returned"}]
      /\ \A t \in Threads : (t \in mutex) <=> (pc[t] \in Holding)
      /\ \A t, u \in mutex : t = u
      /\ \A t \in Threads : pc[t] \in Installing => state = 0
      /\ \A t \in Threads : pc[t] \in Uninstalling => state = 0
  BY DEF ControlInv
<1>k. ASSUME conf' = conf
      PROVE  /\ gen' = gen
             /\ \A g, kind : Sinks(g, kind)' = Sinks(g, kind)
             /\ \A g : LogLayers(g)' = LogLayers(g) /\ LayersOf(g)' = LayersOf(g)
  BY <1>k DEF gen, Sinks, LogLayers, LayersOf
<1>1. ASSUME NEW t \in Threads, NEW f \in Op, Call(t, f) PROVE LayersInv'
  BY <1>1, <1>c, <1>k DEF Call
<1>2. ASSUME NEW t \in Threads, Back(t) PROVE LayersInv'
  BY <1>2, <1>c, <1>k DEF Back
<1>3. ASSUME NEW t \in Threads, InstallLock(t) PROVE LayersInv'
  <2>1. CASE NotInstalled
    <3>1. \A u \in Threads : pc'[u] \notin {"trace_layers", "log_layers", "commit"}
      BY <1>3, <1>c, <2>1 DEF InstallLock, Free, Holding, Installing
    <3> QED  BY <1>3, <2>1, <3>1 DEF InstallLock, NotInstalled
  <2>2. CASE ~NotInstalled
    BY <1>3, <1>c, <1>k, <2>2 DEF InstallLock
  <2> QED  BY <2>1, <2>2
<1>4. ASSUME NEW t \in Threads, NEW label \in Installing, NEW kind, BuildFails(t, label, kind)
      PROVE  LayersInv'
  BY <1>4, <1>c, <1>k DEF BuildFails, Fail
<1>5. ASSUME NEW t \in Threads, BuildTracers(t) \/ BuildMeters(t) \/ BuildLoggers(t)
      PROVE  LayersInv'
  BY <1>5, <1>c, <1>k DEF BuildTracers, BuildMeters, BuildLoggers
<1>6. ASSUME NEW t \in Threads, NEW label \in Installing \cup Uninstalling, NEW slot,
             NEW layers, NEW next, Replace(t, label, slot, layers, next)
      PROVE  /\ \A u \in Threads \ {t} : pc[u] \notin Holding /\ pc'[u] = pc[u]
             /\ pc'[t] = next /\ state' = 0 /\ conf' = conf
             /\ slots' = [slots EXCEPT ![slot] = layers]
  BY <1>6, <1>c DEF Replace, Holding
<1>7. ASSUME NEW t \in Threads, InstallMetricLayers(t) PROVE LayersInv'
  BY <1>7, <1>6, <1>k DEF InstallMetricLayers, DataInv, Holding, Installing
<1>8. ASSUME NEW t \in Threads, InstallTraceLayers(t) PROVE LayersInv'
  <2>1. pc[t] = "trace_layers"
    BY <1>8 DEF InstallTraceLayers, Replace
  <2> QED
    BY <1>8, <1>6, <1>k, <2>1 DEF InstallTraceLayers, DataInv, Holding, Installing
<1>9. ASSUME NEW t \in Threads, InstallLogLayers(t) PROVE LayersInv'
  <2>1. pc[t] = "log_layers"
    BY <1>9 DEF InstallLogLayers, Replace
  <2> QED
    BY <1>9, <1>6, <1>k, <2>1 DEF InstallLogLayers, DataInv, Holding, Installing
<1>10. ASSUME NEW t \in Threads, InstallCommit(t) PROVE LayersInv'
  <2>1. slots = LayersOf(gen)
    BY <1>10 DEF InstallCommit, LayersOf, DataInv
  <2>2. \A u \in Threads : pc'[u] \notin {"trace_layers", "log_layers", "commit"}
    BY <1>10, <1>c DEF InstallCommit, Holding, Installing
  <2> QED  BY <1>10, <1>k, <2>1, <2>2 DEF InstallCommit
<1>11. ASSUME NEW t \in Threads, NothingToDo(t) \/ Unlock(t) PROVE LayersInv'
  BY <1>11, <1>c, <1>k DEF NothingToDo, Unlock
<1>12. ASSUME NEW t \in Threads, UninstallLock(t) \/ FlushLock(t) PROVE LayersInv'
  BY <1>12, <1>c, <1>k DEF UninstallLock, StateTaken, FlushLock
<1>13. ASSUME NEW t \in Threads, ShutdownSink(t) \/ FlushSink(t) PROVE LayersInv'
  BY <1>13, <1>k DEF ShutdownSink, FlushSink
<1>14. ASSUME NEW t \in Threads,
              \/ UninstallLogLayers(t) \/ UninstallMetricLayers(t) \/ UninstallTraceLayers(t)
       PROVE  LayersInv'
  BY <1>14, <1>6
  DEF UninstallLogLayers, UninstallMetricLayers, UninstallTraceLayers, Holding, Installing,
      Uninstalling
<1>15. CASE Application
  BY <1>15, <1>k
  DEF Application, RecordSpan, RecordLog, RecordMeasurement, Record, GetMeter, GetInstrument,
      Export, ReadersIn, ReadersOut
<1>16. CASE UNCHANGED vars
  BY <1>16, <1>k DEF vars
<1> QED
  BY <1>1, <1>2, <1>3, <1>4, <1>5, <1>7, <1>8, <1>9, <1>10, <1>11, <1>12, <1>13,
     <1>14, <1>15, <1>16 DEF Next, Step, Install, Uninstall, ForceFlush, Installing

LEMMA LayersInvariant == Spec => []LayersInv
<1>1. Init => LayersInv
  BY DEF Init, LayersInv
<1> QED  BY <1>1, LayersStep, Basics, PTL DEF Spec

\* An installed configuration has exactly its own layers in the slots.
THEOREM LayersCorrect == Spec => []LayersMatchState
<1>1. LayersInv => LayersMatchState
  BY DEF LayersInv, LayersMatchState
<1> QED  BY <1>1, LayersInvariant, PTL

----------------------------------------------------------------------------
(* The OpenTelemetry globals. *)

\* While install runs, the globals it has passed are the first of its providers, if
\* it has one; nobody else sets them.
GlobalsInv ==
    /\ GlobalsMatchState
    /\ \A t \in Threads :
          /\ pc[t] \in Installing \ {"tracers"} /\ conf[gen].traces > 0 =>
                globals.tracer = First(gen, "traces")
          /\ pc[t] \in Installing \ {"tracers", "meters"} /\ conf[gen].metrics > 0 =>
                globals.meter = First(gen, "metrics")

LEMMA GlobalsStep == ControlInv /\ DataInv /\ GlobalsInv /\ [Next]_vars => GlobalsInv'
<1> SUFFICES ASSUME ControlInv, DataInv, GlobalsInv, [Next]_vars
             PROVE  GlobalsInv'
  OBVIOUS
<1> USE DEF GlobalsInv, GlobalsMatchState, Quiet, Leave, Goto, handles, shared, threads, recorded
<1>c. /\ pc \in [Threads -> Holding \cup {"idle", "lock", "returned"}]
      /\ \A t \in Threads : (t \in mutex) <=> (pc[t] \in Holding)
      /\ \A t, u \in mutex : t = u
      /\ \A t \in Threads : pc[t] \in Installing => gen # 0 /\ state = 0
  BY DEF ControlInv
<1>k. ASSUME conf' = conf
      PROVE  gen' = gen /\ \A g, kind : First(g, kind)' = First(g, kind)
  BY <1>k DEF gen, First
<1>s. ASSUME state # 0 PROVE \A t \in Threads : pc[t] \notin Installing
  BY <1>c, <1>s
<1>1. ASSUME NEW t \in Threads, NEW f \in Op, Call(t, f) PROVE GlobalsInv'
  BY <1>1, <1>c, <1>k DEF Call, Installing
<1>2. ASSUME NEW t \in Threads, Back(t) PROVE GlobalsInv'
  BY <1>2, <1>c, <1>k DEF Back, Installing
<1>3. ASSUME NEW t \in Threads, InstallLock(t) PROVE GlobalsInv'
  <2>1. CASE NotInstalled
    <3>1. \A u \in Threads : pc'[u] \notin Installing \ {"tracers"}
      BY <1>3, <1>c, <2>1 DEF InstallLock, Free, Holding, Installing
    <3> QED  BY <1>3, <2>1, <3>1 DEF InstallLock, NotInstalled
  <2>2. CASE ~NotInstalled
    BY <1>3, <1>c, <1>k, <2>2 DEF InstallLock, Installing
  <2> QED  BY <2>1, <2>2
<1>4. ASSUME NEW t \in Threads, NEW label \in Installing, NEW kind, BuildFails(t, label, kind)
      PROVE  GlobalsInv'
  BY <1>4, <1>c, <1>k DEF BuildFails, Fail, Installing
\* A provider that is built becomes the global one.
<1>5. ASSUME NEW kind \in Kind, NEW field, NEW t \in Threads, pc[t] \in Installing,
             field \in {"tracer", "meter"}, conf[gen][kind] > 0,
             SetGlobal(field, First(gen, kind))
      PROVE  globals' = [globals EXCEPT ![field] = First(gen, kind)]
  <2>1. conf[gen][kind] \in Nat
    <3>1. gen \in 1 .. gen /\ conf \in Seq(Configs)
      BY <1>5, <1>c, LenProperties DEF DataInv, gen
    <3> QED  BY <3>1, SinkTypes
  <2>2. <<gen, kind, 1>> \in First(gen, kind)
    BY <1>5, <2>1 DEF First
  <2> QED  BY <1>5, <2>2 DEF SetGlobal
<1>6. ASSUME NEW t \in Threads, BuildTracers(t) PROVE GlobalsInv'
  <2>1. /\ pc[t] = "tracers" /\ pc' = [pc EXCEPT ![t] = "meters"] /\ conf' = conf /\ state = 0
        /\ state' = state
    BY <1>6, <1>c DEF BuildTracers, Installing
  <2>2. \A u \in Threads \ {t} : pc'[u] \notin Installing
    BY <2>1, <1>c DEF Holding, Installing
  <2>3. conf[gen].traces > 0 => globals' = [globals EXCEPT !.tracer = First(gen, "traces")]
    BY <1>5, <1>6, <2>1 DEF BuildTracers, Kind, Installing
  <2> QED  BY <1>c, <1>k, <2>1, <2>2, <2>3 DEF DataInv
<1>7. ASSUME NEW t \in Threads, BuildMeters(t) PROVE GlobalsInv'
  <2>1. /\ pc[t] = "meters" /\ pc' = [pc EXCEPT ![t] = "loggers"] /\ conf' = conf /\ state = 0
        /\ state' = state
    BY <1>7, <1>c DEF BuildMeters, Installing
  <2>2. \A u \in Threads \ {t} : pc'[u] \notin Installing
    BY <2>1, <1>c DEF Holding, Installing
  <2>3. conf[gen].metrics > 0 => globals' = [globals EXCEPT !.meter = First(gen, "metrics")]
    BY <1>5, <1>7, <2>1 DEF BuildMeters, Kind, Installing
  <2>4. globals'.tracer = globals.tracer
    BY <1>7 DEF BuildMeters, SetGlobal, DataInv
  <2>5. conf[gen].traces > 0 => globals.tracer = First(gen, "traces")
    BY <2>1 DEF Installing
  <2> QED  BY <1>c, <1>k, <2>1, <2>2, <2>3, <2>4, <2>5 DEF DataInv
<1>8. ASSUME NEW t \in Threads,
             \/ BuildLoggers(t)
             \/ InstallMetricLayers(t) \/ InstallTraceLayers(t) \/ InstallLogLayers(t)
      PROVE  GlobalsInv'
  BY <1>8, <1>c, <1>k
  DEF BuildLoggers, InstallMetricLayers, InstallTraceLayers, InstallLogLayers, Replace, Installing
<1>9. ASSUME NEW t \in Threads, InstallCommit(t) PROVE GlobalsInv'
  <2>1. /\ pc[t] = "commit" /\ pc' = [pc EXCEPT ![t] = "returned"] /\ state' = gen
        /\ UNCHANGED <<conf, globals>>
    BY <1>9 DEF InstallCommit
  <2>2. /\ conf[gen].traces > 0 => globals.tracer = First(gen, "traces")
        /\ conf[gen].metrics > 0 => globals.meter = First(gen, "metrics")
    BY <2>1 DEF Installing
  <2>3. \A u \in Threads : pc'[u] \notin Installing
    BY <1>c, <2>1 DEF Holding, Installing
  <2> QED  BY <1>k, <2>1, <2>2, <2>3
<1>10. ASSUME NEW t \in Threads,
              \/ NothingToDo(t) \/ Unlock(t) \/ UninstallLock(t) \/ FlushLock(t)
       PROVE  GlobalsInv'
  BY <1>10, <1>c, <1>k DEF NothingToDo, Unlock, UninstallLock, StateTaken, FlushLock, Installing
<1>11. ASSUME NEW t \in Threads, ShutdownSink(t) \/ FlushSink(t) PROVE GlobalsInv'
  BY <1>11, <1>k DEF ShutdownSink, FlushSink
<1>12. ASSUME NEW t \in Threads,
              \/ UninstallLogLayers(t) \/ UninstallMetricLayers(t) \/ UninstallTraceLayers(t)
       PROVE  GlobalsInv'
  BY <1>12, <1>c, <1>k
  DEF UninstallLogLayers, UninstallMetricLayers, UninstallTraceLayers, Replace, Installing
<1>13. CASE Application
  BY <1>13, <1>k
  DEF Application, RecordSpan, RecordLog, RecordMeasurement, Record, GetMeter, GetInstrument,
      Export, ReadersIn, ReadersOut
<1>14. CASE UNCHANGED vars
  BY <1>14, <1>k DEF vars
<1> QED
  BY <1>1, <1>2, <1>3, <1>4, <1>6, <1>7, <1>8, <1>9, <1>10, <1>11, <1>12, <1>13,
     <1>14 DEF Next, Step, Install, Uninstall, ForceFlush, Installing

\* The global providers are the first of the installed ones, however many installs
\* failed or were shut down before.
THEOREM GlobalsCorrect == Spec => []GlobalsMatchState
<1>1. Init => GlobalsInv
  BY DEF Init, GlobalsInv, GlobalsMatchState, Installing
<1>2. GlobalsInv => GlobalsMatchState
  BY DEF GlobalsInv
<1> QED  BY <1>1, <1>2, GlobalsStep, Basics, PTL DEF Spec

----------------------------------------------------------------------------
(* Sinks that were shut down. *)

\* Only sinks of earlier installs are down: not the installed one, nor the one
\* being installed; and uninstall works on the sinks of one that is past.
DownInv ==
    /\ \A s \in down : s[1] \in 1 .. gen /\ s[1] # state
    /\ \A t \in Threads : pc[t] \in Installing => \A s \in down : s[1] < gen
    /\ \A t \in Threads :
          pc[t] \in Uninstalling => work \in Seq((1 .. gen) \X Kind \X Nat)

\* The sinks of an install carry its number.
LEMMA OrderOfInstall ==
    ASSUME NEW g \in 1 .. gen, conf \in Seq(Configs)
    PROVE  /\ ShutdownOrder(g) \in Seq((1 .. gen) \X Kind \X Nat)
           /\ \A s \in SinksOf(g) : s[1] = g
<1> DEFINE S == (1 .. gen) \X Kind \X Nat
<1>1. ASSUME NEW kind \in Kind PROVE SinkSeq(g, kind) \in Seq(S)
  <2>1. conf[g][kind] \in Nat
    BY SinkTypes
  <2>2. \A i \in 1 .. conf[g][kind] : <<g, kind, i>> \in S
    BY <2>1
  <2> HIDE DEF S
  <2> QED  BY <2>1, <2>2 DEF SinkSeq
<1>2. /\ SinkSeq(g, "sls") \in Seq(S) /\ SinkSeq(g, "traces") \in Seq(S)
      /\ SinkSeq(g, "metrics") \in Seq(S) /\ SinkSeq(g, "otlp") \in Seq(S)
  BY <1>1 DEF Kind
<1>3. ShutdownOrder(g) \in Seq(S)
  <2> HIDE DEF S
  <2> QED  BY <1>2, ConcatProperties DEF ShutdownOrder
<1> QED  BY <1>3 DEF SinksOf, Sinks

LEMMA DownStep == ControlInv /\ DataInv /\ DownInv /\ [Next]_vars => DownInv'
<1> SUFFICES ASSUME ControlInv, DataInv, DownInv, [Next]_vars
             PROVE  DownInv'
  OBVIOUS
<1> USE DEF DownInv, Quiet, Leave, Goto, handles, shared, threads, recorded
<1>c. /\ pc \in [Threads -> Holding \cup {"idle", "lock", "returned"}]
      /\ \A t \in Threads : (t \in mutex) <=> (pc[t] \in Holding)
      /\ \A t, u \in mutex : t = u
      /\ \A t \in Threads : pc[t] \in Installing => gen # 0 /\ state = 0
      /\ \A t \in Threads : pc[t] \in Uninstalling => state = 0
  BY DEF ControlInv
<1>d. gen \in Nat /\ state \in 0 .. gen
  BY LenProperties DEF DataInv, gen
<1>k. ASSUME conf' = conf PROVE gen' = gen
  BY <1>k DEF gen
<1>1. ASSUME NEW t \in Threads, NEW f \in Op, Call(t, f) PROVE DownInv'
  BY <1>1, <1>c, <1>k DEF Call, Installing, Uninstalling
<1>2. ASSUME NEW t \in Threads, Back(t) PROVE DownInv'
  BY <1>2, <1>c, <1>k DEF Back, Installing, Uninstalling
<1>3. ASSUME NEW t \in Threads, InstallLock(t) PROVE DownInv'
  <2>1. CASE NotInstalled
    <3>1. gen' = gen + 1
      <4>1. PICK config \in Configs : conf' = Append(conf, config)
        BY <1>3, <2>1 DEF InstallLock
      <4> QED  BY <4>1, AppendProperties DEF gen, DataInv
    <3>2. \A u \in Threads : pc'[u] \notin Uninstalling
      BY <1>3, <1>c, <2>1 DEF InstallLock, Free, Holding, Uninstalling
    <3>3. \A s \in down : s[1] \in 1 .. (gen + 1) /\ s[1] # state /\ s[1] < gen + 1
      BY <1>d
    <3> QED  BY <1>3, <2>1, <3>1, <3>2, <3>3 DEF InstallLock
  <2>2. CASE ~NotInstalled
    BY <1>3, <1>c, <1>k, <2>2 DEF InstallLock, Installing, Uninstalling
  <2> QED  BY <2>1, <2>2
<1>4. ASSUME NEW t \in Threads, NEW label \in Installing, NEW kind, BuildFails(t, label, kind)
      PROVE  DownInv'
  BY <1>4, <1>c, <1>k DEF BuildFails, Fail, Installing, Uninstalling
<1>5. ASSUME NEW t \in Threads, BuildTracers(t) \/ BuildMeters(t) \/ BuildLoggers(t)
      PROVE  DownInv'
  BY <1>5, <1>c, <1>k DEF BuildTracers, BuildMeters, BuildLoggers, Installing, Uninstalling
<1>6. ASSUME NEW t \in Threads,
             \/ InstallMetricLayers(t) \/ InstallTraceLayers(t) \/ InstallLogLayers(t)
      PROVE  DownInv'
  BY <1>6, <1>c, <1>k
  DEF InstallMetricLayers, InstallTraceLayers, InstallLogLayers, Replace, Installing,
      Uninstalling
<1>7. ASSUME NEW t \in Threads, InstallCommit(t) PROVE DownInv'
  <2>1. pc[t] \in Installing
    BY <1>7 DEF InstallCommit, Installing
  <2>2. \A s \in down : s[1] # gen
    BY <1>d, <2>1
  <2> QED  BY <1>7, <1>c, <1>k, <2>2 DEF InstallCommit, Installing, Uninstalling
<1>8. ASSUME NEW t \in Threads, NothingToDo(t) \/ Unlock(t) PROVE DownInv'
  BY <1>8, <1>c, <1>k DEF NothingToDo, Unlock, Installing, Uninstalling
<1>9. ASSUME NEW t \in Threads, UninstallLock(t) PROVE DownInv'
  <2>1. work' \in Seq((1 .. gen) \X Kind \X Nat)
    BY <1>9, <1>d, OrderOfInstall DEF UninstallLock, DataInv
  <2> QED
    BY <1>9, <1>c, <1>d, <1>k, <2>1 DEF UninstallLock, StateTaken, Installing, Uninstalling
<1>10. ASSUME NEW t \in Threads, ShutdownSink(t) PROVE DownInv'
  <2>1. pc[t] \in Uninstalling /\ work # <<>> /\ state = 0
    BY <1>10, <1>c DEF ShutdownSink, Uninstalling
  <2>2. /\ Head(work) \in (1 .. gen) \X Kind \X Nat
        /\ Tail(work) \in Seq((1 .. gen) \X Kind \X Nat)
    BY <2>1, HeadTailProperties
  <2>3. \A u \in Threads : pc[u] \notin Installing
    BY <1>c, <2>1 DEF Holding, Installing, Uninstalling
  <2>4. Head(work)[1] \in 1 .. gen /\ Head(work)[1] # state
    BY <2>1, <2>2
  <2>5. gen' = gen
    BY <1>10, <1>k DEF ShutdownSink
  <2>6. \A s \in down' : s[1] \in 1 .. gen /\ s[1] # state
    BY <1>10, <2>4 DEF ShutdownSink
  <2> QED  BY <1>10, <2>2, <2>3, <2>5, <2>6 DEF ShutdownSink
<1>11. ASSUME NEW t \in Threads,
              \/ UninstallLogLayers(t) \/ UninstallMetricLayers(t) \/ UninstallTraceLayers(t)
       PROVE  DownInv'
  BY <1>11, <1>c, <1>k
  DEF UninstallLogLayers, UninstallMetricLayers, UninstallTraceLayers, Replace, Installing,
      Uninstalling
<1>12. ASSUME NEW t \in Threads, FlushLock(t) PROVE DownInv'
  BY <1>12, <1>c, <1>k DEF FlushLock, Free, Holding, Installing, Uninstalling
<1>13. ASSUME NEW t \in Threads, FlushSink(t) PROVE DownInv'
  <2>1. \A u \in Threads : pc[u] \notin Uninstalling
    BY <1>13, <1>c DEF FlushSink, Holding, Uninstalling
  <2> QED  BY <1>13, <1>c, <1>k, <2>1 DEF FlushSink
<1>14. CASE Application
  BY <1>14, <1>k
  DEF Application, RecordSpan, RecordLog, RecordMeasurement, Record, GetMeter, GetInstrument,
      Export, ReadersIn, ReadersOut
<1>15. CASE UNCHANGED vars
  BY <1>15, <1>k DEF vars
<1> QED
  BY <1>1, <1>2, <1>3, <1>4, <1>5, <1>6, <1>7, <1>8, <1>9, <1>10, <1>11, <1>12, <1>13,
     <1>14, <1>15 DEF Next, Step, Install, Uninstall, ForceFlush, Installing

LEMMA DownInvariant == Spec => []DownInv
<1>1. Init => DownInv
  BY DEF Init, DownInv, Installing, Uninstalling
<1> QED  BY <1>1, DownStep, Basics, PTL DEF Spec

\* No installed sink is ever shut down.
THEOREM InstalledUp == Spec => []InstalledIsUp
<1>1. ControlInv /\ DataInv /\ DownInv => InstalledIsUp
  <2> SUFFICES ASSUME DataInv, DownInv, state # 0 PROVE SinksOf(state) \cap down = {}
    BY DEF InstalledIsUp
  <2>1. \A s \in SinksOf(state) : s[1] = state
    BY OrderOfInstall DEF DataInv
  <2> QED  BY <2>1 DEF DownInv
<1> QED  BY <1>1, Basics, DownInvariant, PTL

----------------------------------------------------------------------------
(* No dead layers. *)

\* What an uninstall that is under way has already put in the slots; unless there is
\* one, no slot has a sink that was shut down.
DeadInv ==
    /\ (\A t \in Threads : pc[t] \notin Uninstalling) =>
          slots.traces \cap down = {} /\ slots.metrics \cap down = {} /\ slots.logs \cap down = {}
    /\ \A t \in Threads :
          /\ pc[t] \in {"drop_metrics", "drop_traces", "leave"} => slots.logs = {Console}
          /\ pc[t] \in {"drop_traces", "leave"} => slots.metrics = {}
          /\ pc[t] = "leave" => slots.traces = {}

LEMMA DeadStep == ControlInv /\ DataInv /\ DownInv /\ DeadInv /\ [Next]_vars => DeadInv'
<1> SUFFICES ASSUME ControlInv, DataInv, DownInv, DeadInv, [Next]_vars
             PROVE  DeadInv'
  OBVIOUS
<1> USE DEF DeadInv, Quiet, Leave, Goto, handles, shared, threads, recorded
<1>c. /\ pc \in [Threads -> Holding \cup {"idle", "lock", "returned"}]
      /\ \A t \in Threads : (t \in mutex) <=> (pc[t] \in Holding)
      /\ \A t, u \in mutex : t = u
  BY DEF ControlInv
<1>d. Console \notin down
  BY DEF DownInv, Console
\* The thread that is inside of install or uninstall is alone there.
<1>a. ASSUME NEW t \in Threads, pc[t] \in Holding
      PROVE  \A u \in Threads \ {t} : pc[u] \notin Holding
  BY <1>a, <1>c
\* A step that leaves the slots and the dead alone, and begins or ends no uninstall.
<1>s. ASSUME slots' = slots, down' = down, NEW t \in Threads, NEW l,
             pc' = [pc EXCEPT ![t] = l], pc[t] \notin Uninstalling, l \notin Uninstalling
      PROVE  DeadInv'
  BY <1>s, <1>c DEF Uninstalling
<1>1. ASSUME NEW t \in Threads, NEW f \in Op, Call(t, f) PROVE DeadInv'
  BY <1>1, <1>s DEF Call, Uninstalling
<1>2. ASSUME NEW t \in Threads, Back(t) PROVE DeadInv'
  BY <1>2, <1>s DEF Back, Uninstalling
<1>3. ASSUME NEW t \in Threads, InstallLock(t) PROVE DeadInv'
  BY <1>3, <1>s DEF InstallLock, Uninstalling
<1>4. ASSUME NEW t \in Threads, NEW label \in Installing, NEW kind, BuildFails(t, label, kind)
      PROVE  DeadInv'
  BY <1>4, <1>s DEF BuildFails, Fail, Installing, Uninstalling
<1>5. ASSUME NEW t \in Threads, BuildTracers(t) \/ BuildMeters(t) \/ BuildLoggers(t)
      PROVE  DeadInv'
  BY <1>5, <1>s DEF BuildTracers, BuildMeters, BuildLoggers, Uninstalling
<1>6. ASSUME NEW t \in Threads,
             \/ InstallMetricLayers(t) \/ InstallTraceLayers(t) \/ InstallLogLayers(t)
      PROVE  DeadInv'
  <2>1. pc[t] \in Installing /\ pc'[t] \in Installing /\ down' = down
    BY <1>6, <1>c
    DEF InstallMetricLayers, InstallTraceLayers, InstallLogLayers, Replace, Installing
  <2>2. \A u \in Threads : pc[u] \notin Uninstalling /\ pc'[u] \notin Uninstalling
    BY <1>6, <1>a, <1>c, <2>1
    DEF InstallMetricLayers, InstallTraceLayers, InstallLogLayers, Replace, Holding,
        Installing, Uninstalling
  <2>3. \A s \in down : s[1] # gen
    BY <2>1, LenProperties DEF DownInv, DataInv, gen
  <2>4. /\ Sinks(gen, "metrics") \cap down = {} /\ Sinks(gen, "traces") \cap down = {}
        /\ LogLayers(gen) \cap down = {}
    BY <1>d, <2>3 DEF Sinks, LogLayers
  <2>5. \/ slots' = [slots EXCEPT !["metrics"] = Sinks(gen, "metrics")]
        \/ slots' = [slots EXCEPT !["traces"] = Sinks(gen, "traces")]
        \/ slots' = [slots EXCEPT !["logs"] = LogLayers(gen)]
    BY <1>6 DEF InstallMetricLayers, InstallTraceLayers, InstallLogLayers, Replace
  <2>6. /\ slots'.traces \cap down = {} /\ slots'.metrics \cap down = {}
        /\ slots'.logs \cap down = {}
    BY <2>2, <2>4, <2>5 DEF DataInv
  <2> QED  BY <2>1, <2>2, <2>6 DEF Uninstalling
<1>7. ASSUME NEW t \in Threads, InstallCommit(t) PROVE DeadInv'
  BY <1>7, <1>s DEF InstallCommit, Uninstalling
<1>8. ASSUME NEW t \in Threads, NothingToDo(t) PROVE DeadInv'
  BY <1>8, <1>s DEF NothingToDo, Uninstalling
<1>9. ASSUME NEW t \in Threads, UninstallLock(t) PROVE DeadInv'
  BY <1>9, <1>c DEF UninstallLock, Uninstalling
<1>10. ASSUME NEW t \in Threads, ShutdownSink(t) PROVE DeadInv'
  BY <1>10 DEF ShutdownSink, Uninstalling
<1>11. ASSUME NEW t \in Threads, UninstallLogLayers(t) PROVE DeadInv'
  BY <1>11, <1>a, <1>c DEF UninstallLogLayers, Replace, DataInv, Holding, Uninstalling
<1>12. ASSUME NEW t \in Threads, UninstallMetricLayers(t) PROVE DeadInv'
  BY <1>12, <1>a, <1>c DEF UninstallMetricLayers, Replace, DataInv, Holding, Uninstalling
<1>13. ASSUME NEW t \in Threads, UninstallTraceLayers(t) PROVE DeadInv'
  BY <1>13, <1>a, <1>c DEF UninstallTraceLayers, Replace, DataInv, Holding, Uninstalling
<1>14. ASSUME NEW t \in Threads, FlushLock(t) PROVE DeadInv'
  BY <1>14, <1>s DEF FlushLock, Uninstalling
<1>15. ASSUME NEW t \in Threads, FlushSink(t) PROVE DeadInv'
  BY <1>15 DEF FlushSink, Uninstalling
<1>16. ASSUME NEW t \in Threads, Unlock(t) PROVE DeadInv'
  <2>1. CASE pc[t] = "leave"
    <3>1. slots.traces = {} /\ slots.metrics = {} /\ slots.logs = {Console}
      BY <2>1
    <3>2. \A u \in Threads : pc'[u] \notin Uninstalling
      BY <1>16, <1>a, <1>c, <2>1 DEF Unlock, Holding, Uninstalling
    <3> QED  BY <1>16, <1>d, <3>1, <3>2 DEF Unlock, Uninstalling
  <2>2. CASE pc[t] = "flush"
    BY <1>16, <1>s, <2>2 DEF Unlock, Uninstalling
  <2> QED  BY <1>16, <2>1, <2>2 DEF Unlock
<1>17. CASE Application
  BY <1>17
  DEF Application, RecordSpan, RecordLog, RecordMeasurement, Record, GetMeter, GetInstrument,
      Export, ReadersIn, ReadersOut
<1>18. CASE UNCHANGED vars
  BY <1>18 DEF vars
<1> QED
  BY <1>1, <1>2, <1>3, <1>4, <1>5, <1>6, <1>7, <1>8, <1>9, <1>10, <1>11, <1>12, <1>13,
     <1>14, <1>15, <1>16, <1>17, <1>18
  DEF Next, Step, Install, Uninstall, ForceFlush, Installing

\* A slot feeds a sink that was shut down only while the shutdown is running.
THEOREM NoLayerDead == Spec => []NoDeadLayer
<1>1. Init => DeadInv
  BY DEF Init, DeadInv, DefaultSlots
<1>2. Spec => []DeadInv
  BY <1>1, DeadStep, Basics, DownInvariant, PTL DEF Spec
<1>3. ControlInv /\ DataInv /\ DeadInv => NoDeadLayer
  <2> SUFFICES ASSUME ControlInv, DataInv, DeadInv,
                      \A t \in mutex : pc[t] \notin Uninstalling
               PROVE  \A slot \in DOMAIN slots : slots[slot] \cap down = {}
    BY DEF NoDeadLayer
  <2>1. \A t \in Threads : pc[t] \notin Uninstalling
    BY DEF ControlInv, Holding
  <2>2. DOMAIN slots = {"traces", "metrics", "logs"}
    BY DEF DataInv
  <2> QED  BY <2>1, <2>2 DEF DeadInv
<1> QED  BY <1>2, <1>3, Basics, PTL

----------------------------------------------------------------------------
(* Linearizability. *)

\* What the refinement mapping reads of the program counter: which function a
\* thread is in, and that it has no result before it has taken effect.
CallInv ==
    /\ \A t \in Threads : (op[t] = "none") <=> (pc[t] = "idle")
    /\ \A t \in Threads : pc[t] \in Installing => op[t] = "init"
    /\ \A t \in Threads : pc[t] \in Uninstalling => op[t] = "shutdown" /\ res[t] = "ok"
    /\ \A t \in Threads : pc[t] = "flush" => op[t] = "force_flush"
    /\ \A t \in Threads : pc[t] = "returned" => res[t] # "none"

LEMMA CallStep == ControlInv /\ CallInv /\ [Next]_vars => CallInv'
<1> SUFFICES ASSUME ControlInv, CallInv, [Next]_vars
             PROVE  CallInv'
  OBVIOUS
<1> USE DEF CallInv, Quiet, Leave, Goto, Holding, Installing, Uninstalling, Op,
            handles, shared, threads, recorded
<1>c. /\ pc \in [Threads -> Holding \cup {"idle", "lock", "returned"}]
      /\ op \in [Threads -> Op \cup {"none"}]
      /\ res \in [Threads -> {"none", "ok", "error"}]
  BY DEF ControlInv
<1>1. ASSUME NEW t \in Threads, NEW f \in Op, Call(t, f) PROVE CallInv'
  BY <1>1, <1>c DEF Call
<1>2. ASSUME NEW t \in Threads, Back(t) PROVE CallInv'
  BY <1>2, <1>c DEF Back
<1>3. ASSUME NEW t \in Threads, InstallLock(t) PROVE CallInv'
  BY <1>3, <1>c DEF InstallLock
<1>4. ASSUME NEW t \in Threads, NEW label \in Installing, NEW kind, BuildFails(t, label, kind)
      PROVE  CallInv'
  BY <1>4, <1>c DEF BuildFails, Fail
<1>5. ASSUME NEW t \in Threads, BuildTracers(t) \/ BuildMeters(t) \/ BuildLoggers(t)
      PROVE  CallInv'
  BY <1>5, <1>c DEF BuildTracers, BuildMeters, BuildLoggers
<1>6. ASSUME NEW t \in Threads,
             \/ InstallMetricLayers(t) \/ InstallTraceLayers(t) \/ InstallLogLayers(t)
             \/ UninstallLogLayers(t) \/ UninstallMetricLayers(t) \/ UninstallTraceLayers(t)
      PROVE  CallInv'
  BY <1>6, <1>c
  DEF InstallMetricLayers, InstallTraceLayers, InstallLogLayers, UninstallLogLayers,
      UninstallMetricLayers, UninstallTraceLayers, Replace
<1>7. ASSUME NEW t \in Threads, InstallCommit(t) PROVE CallInv'
  BY <1>7, <1>c DEF InstallCommit
<1>8. ASSUME NEW t \in Threads, NothingToDo(t) \/ Unlock(t) PROVE CallInv'
  BY <1>8, <1>c DEF NothingToDo, Unlock
<1>9. ASSUME NEW t \in Threads, UninstallLock(t) \/ FlushLock(t) PROVE CallInv'
  BY <1>9, <1>c DEF UninstallLock, FlushLock
<1>10. ASSUME NEW t \in Threads, ShutdownSink(t) \/ FlushSink(t) PROVE CallInv'
  BY <1>10 DEF ShutdownSink, FlushSink
<1>11. CASE Application
  BY <1>11
  DEF Application, RecordSpan, RecordLog, RecordMeasurement, Record, GetMeter, GetInstrument,
      Export, ReadersIn, ReadersOut
<1>12. CASE UNCHANGED vars
  BY <1>12 DEF vars
<1> QED
  BY <1>1, <1>2, <1>3, <1>4, <1>5, <1>6, <1>7, <1>8, <1>9, <1>10, <1>11, <1>12
  DEF Next, Step, Install, Uninstall, ForceFlush

LEMMA CallInvariant == Spec => []CallInv
<1>1. Init => CallInv
  BY DEF Init, CallInv, Installing, Uninstalling
<1> QED  BY <1>1, CallStep, Basics, PTL DEF Spec

LEMMA ServiceStep ==
    ControlInv /\ DataInv /\ CallInv /\ [Next]_vars => [Service!Next]_(Service!vars)
<1> SUFFICES ASSUME ControlInv, DataInv, CallInv, [Next]_vars
             PROVE  [Service!Next]_(Service!vars)
  OBVIOUS
<1> USE DEF Service!vars, CallOf, OutcomeOf, CallInv, Quiet, Leave, Goto, Holding,
            Installing, Uninstalling, handles, shared, threads, recorded
<1>c. /\ pc \in [Threads -> Holding \cup {"idle", "lock", "returned"}]
      /\ op \in [Threads -> Op \cup {"none"}]
      /\ res \in [Threads -> {"none", "ok", "error"}]
      /\ \A t \in Threads : pc[t] \in Installing => gen # 0 /\ state = 0
  BY DEF ControlInv
<1> DEFINE call == [t \in Threads |-> CallOf(t)]
           outcome == [t \in Threads |-> OutcomeOf(t)]
           running == state # 0
\* A step that changes neither the function a thread is in, nor its outcome.
<1>s. ASSUME op' = op, running' = running, \A t \in Threads : OutcomeOf(t)' = OutcomeOf(t)
      PROVE  UNCHANGED Service!vars
  BY <1>s
\* A step of t that gives its call the outcome r.
<1>e. ASSUME NEW t \in Threads, NEW r, op' = op,
             \A u \in Threads \ {t} : OutcomeOf(u)' = OutcomeOf(u), OutcomeOf(t)' = r
      PROVE  call' = call /\ outcome' = [outcome EXCEPT ![t] = r]
  BY <1>e
<1>1. ASSUME NEW t \in Threads, NEW f \in Op, Call(t, f) PROVE [Service!Next]_(Service!vars)
  <2>1. call[t] = "none" /\ call' = [call EXCEPT ![t] = f]
    BY <1>1, <1>c DEF Call
  <2>2. outcome' = outcome /\ running' = running
    BY <1>1, <1>c DEF Call
  <2>3. Service!Start(t, f)
    BY <2>1, <2>2 DEF Service!Start
  <2> QED  BY <2>3 DEF Service!Next, Service!Op, Op
<1>2. ASSUME NEW t \in Threads, Back(t) PROVE [Service!Next]_(Service!vars)
  <2>1. outcome[t] # "none" /\ running' = running
    BY <1>2, <1>c DEF Back
  <2>2. call' = [call EXCEPT ![t] = "none"] /\ outcome' = [outcome EXCEPT ![t] = "none"]
    BY <1>2, <1>c DEF Back
  <2>3. Service!Finish(t)
    BY <2>1, <2>2 DEF Service!Finish
  <2> QED  BY <2>3 DEF Service!Next
\* An init that fails, in the check or later.
<1>f. ASSUME NEW t \in Threads, pc[t] = "lock" \/ pc[t] \in Installing, op[t] = "init",
             pc' = [pc EXCEPT ![t] = "returned"], res' = [res EXCEPT ![t] = "error"],
             op' = op, state' = state
      PROVE  [Service!Next]_(Service!vars)
  <2>1. call' = call /\ outcome' = [outcome EXCEPT ![t] = "error"]
    BY <1>c, <1>f, <1>e
  <2>2. call[t] = "init" /\ outcome[t] = "none" /\ running' = running
    BY <1>c, <1>f
  <2>3. Service!Effect(t)
    BY <2>1, <2>2 DEF Service!Effect
  <2> QED  BY <2>3 DEF Service!Next
<1>3. ASSUME NEW t \in Threads, InstallLock(t) PROVE [Service!Next]_(Service!vars)
  <2>1. CASE NotInstalled
    BY <1>3, <1>c, <1>s, <2>1 DEF InstallLock
  <2>2. CASE ~NotInstalled
    BY <1>3, <1>f, <2>2 DEF InstallLock
  <2> QED  BY <2>1, <2>2
<1>4. ASSUME NEW t \in Threads, NEW label \in Installing, NEW kind, BuildFails(t, label, kind)
      PROVE  [Service!Next]_(Service!vars)
  BY <1>4, <1>f DEF BuildFails, Fail
<1>5. ASSUME NEW t \in Threads, BuildTracers(t) \/ BuildMeters(t) \/ BuildLoggers(t)
      PROVE  [Service!Next]_(Service!vars)
  BY <1>5, <1>c, <1>s DEF BuildTracers, BuildMeters, BuildLoggers
<1>6. ASSUME NEW t \in Threads,
             \/ InstallMetricLayers(t) \/ InstallTraceLayers(t) \/ InstallLogLayers(t)
             \/ UninstallLogLayers(t) \/ UninstallMetricLayers(t) \/ UninstallTraceLayers(t)
      PROVE  [Service!Next]_(Service!vars)
  BY <1>6, <1>c, <1>s
  DEF InstallMetricLayers, InstallTraceLayers, InstallLogLayers, UninstallLogLayers,
      UninstallMetricLayers, UninstallTraceLayers, Replace
<1>7. ASSUME NEW t \in Threads, InstallCommit(t) PROVE [Service!Next]_(Service!vars)
  <2>1. call' = call /\ outcome' = [outcome EXCEPT ![t] = "ok"]
    BY <1>7, <1>c, <1>e DEF InstallCommit
  <2>2. call[t] = "init" /\ outcome[t] = "none" /\ ~running /\ running'
    BY <1>7, <1>c DEF InstallCommit
  <2>3. Service!Effect(t)
    BY <2>1, <2>2 DEF Service!Effect
  <2> QED  BY <2>3 DEF Service!Next
<1>8. ASSUME NEW t \in Threads, NothingToDo(t) PROVE [Service!Next]_(Service!vars)
  <2>1. call' = call /\ outcome' = [outcome EXCEPT ![t] = "ok"]
    BY <1>8, <1>c, <1>e DEF NothingToDo
  <2>2. /\ call[t] \in {"shutdown", "force_flush"} /\ outcome[t] = "none"
        /\ ~running /\ ~running'
    BY <1>8, <1>c DEF NothingToDo
  <2>3. Service!Effect(t)
    BY <2>1, <2>2 DEF Service!Effect
  <2> QED  BY <2>3 DEF Service!Next
<1>9. ASSUME NEW t \in Threads, Unlock(t) PROVE [Service!Next]_(Service!vars)
  <2>1. CASE pc[t] = "leave"
    BY <1>9, <1>c, <1>s, <2>1 DEF Unlock
  <2>2. CASE pc[t] = "flush"
    <3>1. call' = call /\ outcome' = [outcome EXCEPT ![t] = "ok"]
      BY <1>9, <1>c, <1>e, <2>2 DEF Unlock
    <3>2. call[t] = "force_flush" /\ outcome[t] = "none" /\ running' = running
      BY <1>9, <1>c, <2>2 DEF Unlock
    <3>3. Service!Effect(t)
      BY <3>1, <3>2 DEF Service!Effect
    <3> QED  BY <3>3 DEF Service!Next
  <2> QED  BY <1>9, <2>1, <2>2 DEF Unlock
<1>10. ASSUME NEW t \in Threads, UninstallLock(t) PROVE [Service!Next]_(Service!vars)
  <2>1. call' = call /\ outcome' = [outcome EXCEPT ![t] = "ok"]
    BY <1>10, <1>c, <1>e DEF UninstallLock
  <2>2. call[t] = "shutdown" /\ outcome[t] = "none" /\ ~running'
    BY <1>10, <1>c DEF UninstallLock, StateTaken
  <2>3. Service!Effect(t)
    BY <2>1, <2>2 DEF Service!Effect
  <2> QED  BY <2>3 DEF Service!Next
<1>11. ASSUME NEW t \in Threads, FlushLock(t) PROVE [Service!Next]_(Service!vars)
  BY <1>11, <1>c, <1>s DEF FlushLock
<1>12. ASSUME NEW t \in Threads, ShutdownSink(t) \/ FlushSink(t)
       PROVE  [Service!Next]_(Service!vars)
  BY <1>12, <1>s DEF ShutdownSink, FlushSink
<1>13. CASE Application
  BY <1>13, <1>s
  DEF Application, RecordSpan, RecordLog, RecordMeasurement, Record, GetMeter, GetInstrument,
      Export, ReadersIn, ReadersOut
<1>14. CASE UNCHANGED vars
  BY <1>14, <1>s DEF vars
<1> QED
  BY <1>1, <1>2, <1>3, <1>4, <1>5, <1>6, <1>7, <1>8, <1>9, <1>10, <1>11, <1>12, <1>13,
     <1>14 DEF Next, Step, Install, Uninstall, ForceFlush

\* init, shutdown and force_flush are linearizable.
THEOREM Linearizable == Spec => ServiceSpec
<1>1. Init => Service!Init
  BY DEF Init, Service!Init, CallOf, OutcomeOf, Uninstalling
<1> QED
  BY <1>1, ServiceStep, Basics, CallInvariant, PTL DEF Spec, ServiceSpec, Service!Spec

----------------------------------------------------------------------------
(* What shutdown and force_flush have handled when they return. *)

SinksIn(seq) == {seq[i] : i \in 1 .. Len(seq)}

LEMMA SinksInTail ==
    ASSUME NEW seq \in Seq(Sink), seq # <<>>
    PROVE  \A s \in SinksIn(seq) : s = Head(seq) \/ s \in SinksIn(Tail(seq))
<1> SUFFICES ASSUME NEW i \in 1 .. Len(seq), i # 1
             PROVE  seq[i] \in SinksIn(Tail(seq))
  BY HeadTailProperties DEF SinksIn
<1>1. i - 1 \in 1 .. Len(Tail(seq)) /\ Tail(seq)[i - 1] = seq[i]
  BY HeadTailProperties, LenProperties
<1> QED  BY <1>1 DEF SinksIn

LEMMA SinksInConcat ==
    ASSUME NEW a \in Seq(Sink), NEW b \in Seq(Sink)
    PROVE  a \o b \in Seq(Sink) /\ SinksIn(a) \cup SinksIn(b) \subseteq SinksIn(a \o b)
<1>1. a \o b \in Seq(Sink) /\ Len(a \o b) = Len(a) + Len(b) /\ Len(a) \in Nat /\ Len(b) \in Nat
  BY ConcatProperties, LenProperties
<1>2. ASSUME NEW i \in 1 .. Len(a) PROVE a[i] \in SinksIn(a \o b)
  <2>1. i \in 1 .. Len(a \o b) /\ (a \o b)[i] = a[i]
    BY <1>1, ConcatProperties
  <2> QED  BY <2>1 DEF SinksIn
<1>3. ASSUME NEW i \in 1 .. Len(b) PROVE b[i] \in SinksIn(a \o b)
  <2>1. Len(a) + i \in 1 .. Len(a \o b) /\ (a \o b)[Len(a) + i] = b[i]
    BY <1>1, ConcatProperties
  <2> QED  BY <2>1 DEF SinksIn
<1> QED  BY <1>1, <1>2, <1>3 DEF SinksIn

\* uninstall goes through all the sinks, force_flush through all but the SLS ones.
LEMMA OrdersCover ==
    ASSUME NEW g \in 1 .. gen, conf \in Seq(Configs)
    PROVE  /\ SinksOf(g) \subseteq SinksIn(ShutdownOrder(g))
           /\ \A s \in SinksOf(g) : s[2] = "sls" \/ s \in SinksIn(FlushOrder(g))
<1>1. ASSUME NEW kind \in Kind
      PROVE  SinkSeq(g, kind) \in Seq(Sink) /\ Sinks(g, kind) = SinksIn(SinkSeq(g, kind))
  <2>1. conf[g][kind] \in Nat /\ SinkSeq(g, kind) \in Seq(Sink)
    BY SinkTypes
  <2>2. Len(SinkSeq(g, kind)) = conf[g][kind]
    BY <2>1 DEF SinkSeq
  <2> QED  BY <2>1, <2>2 DEF SinkSeq, Sinks, SinksIn
<1> DEFINE sls == SinkSeq(g, "sls")
           traces == SinkSeq(g, "traces")
           metrics == SinkSeq(g, "metrics")
           otlp == SinkSeq(g, "otlp")
<1>2. /\ sls \in Seq(Sink) /\ traces \in Seq(Sink) /\ metrics \in Seq(Sink) /\ otlp \in Seq(Sink)
      /\ Sinks(g, "sls") = SinksIn(sls) /\ Sinks(g, "traces") = SinksIn(traces)
      /\ Sinks(g, "metrics") = SinksIn(metrics) /\ Sinks(g, "otlp") = SinksIn(otlp)
  BY <1>1 DEF Kind
<1>3. SinksOf(g) = SinksIn(sls) \cup SinksIn(traces) \cup SinksIn(metrics) \cup SinksIn(otlp)
  BY <1>2 DEF SinksOf, Kind
<1>4. SinksOf(g) \subseteq SinksIn(ShutdownOrder(g))
  <2> HIDE DEF sls, traces, metrics, otlp
  <2>1. /\ sls \o traces \in Seq(Sink)
        /\ SinksIn(sls) \cup SinksIn(traces) \subseteq SinksIn(sls \o traces)
    BY <1>2, SinksInConcat
  <2>2. /\ (sls \o traces) \o metrics \in Seq(Sink)
        /\ SinksIn(sls \o traces) \cup SinksIn(metrics)
              \subseteq SinksIn((sls \o traces) \o metrics)
    BY <1>2, <2>1, SinksInConcat
  <2>3. SinksIn((sls \o traces) \o metrics) \cup SinksIn(otlp)
              \subseteq SinksIn(((sls \o traces) \o metrics) \o otlp)
    BY <1>2, <2>2, SinksInConcat
  <2> QED  BY <1>3, <2>1, <2>2, <2>3 DEF ShutdownOrder, sls, traces, metrics, otlp
<1>5. \A s \in SinksIn(traces) \cup SinksIn(metrics) \cup SinksIn(otlp) : s \in SinksIn(FlushOrder(g))
  <2> HIDE DEF sls, traces, metrics, otlp
  <2>1. /\ traces \o metrics \in Seq(Sink)
        /\ SinksIn(traces) \cup SinksIn(metrics) \subseteq SinksIn(traces \o metrics)
    BY <1>2, SinksInConcat
  <2>2. SinksIn(traces \o metrics) \cup SinksIn(otlp)
              \subseteq SinksIn((traces \o metrics) \o otlp)
    BY <1>2, <2>1, SinksInConcat
  <2> QED  BY <2>1, <2>2 DEF FlushOrder, traces, metrics, otlp
<1>6. \A s \in Sinks(g, "sls") : s[2] = "sls"
  BY DEF Sinks
<1> QED  BY <1>2, <1>3, <1>4, <1>5, <1>6

\* What a call owes is, as long as it runs, with the sinks it has not come to yet.
CoverInv ==
    \A t \in Threads :
        /\ pc[t] \in {"idle", "lock"} => due[t] = {}
        /\ pc[t] = "shutdown" => \A p \in due[t] \cap pending : p[2] \in SinksIn(work)
        /\ op[t] = "shutdown" /\ pc[t] \in {"drop_metrics", "drop_traces", "leave", "returned"}
              => due[t] \cap pending = {}
        /\ pc[t] = "flush" =>
              \A p \in due[t] \cap pending : p[2][2] = "sls" \/ p[2] \in SinksIn(work)
        /\ op[t] = "force_flush" /\ pc[t] = "returned" =>
              \A p \in due[t] \cap pending : p[2][2] = "sls"

LEMMA CoverStep ==
    ControlInv /\ DataInv /\ CallInv /\ CoverInv /\ [Next]_vars => CoverInv'
<1> SUFFICES ASSUME ControlInv, DataInv, CallInv, CoverInv, [Next]_vars
             PROVE  CoverInv'
  OBVIOUS
<1> USE DEF CoverInv, Quiet, Leave, Goto, handles, shared, threads, recorded
<1>c. /\ pc \in [Threads -> Holding \cup {"idle", "lock", "returned"}]
      /\ op \in [Threads -> Op \cup {"none"}]
      /\ \A t \in Threads : (t \in mutex) <=> (pc[t] \in Holding)
      /\ \A t, u \in mutex : t = u
  BY DEF ControlInv
<1>o. /\ \A t \in Threads : pc[t] \in Installing => op[t] = "init"
      /\ \A t \in Threads : pc[t] \in Uninstalling => op[t] = "shutdown"
      /\ \A t \in Threads : pc[t] = "flush" => op[t] = "force_flush"
  BY DEF CallInv
<1>a. ASSUME NEW t \in Threads, pc[t] \in Holding
      PROVE  \A u \in Threads \ {t} : pc[u] \notin Holding
  BY <1>a, <1>c
\* No thread is inside while the lock is free.
<1>f. ASSUME Free PROVE \A u \in Threads : pc[u] \notin Holding
  BY <1>f, <1>c DEF Free
\* Steps of install.
<1>i. ASSUME NEW t \in Threads, op[t] = "init", op' = op, due' = due, pending' = pending,
             work' = work, NEW l \in Installing \cup {"returned"}, pc' = [pc EXCEPT ![t] = l]
      PROVE  CoverInv'
  BY <1>c, <1>i DEF Installing
<1>1. ASSUME NEW t \in Threads, NEW f \in Op, Call(t, f) PROVE CoverInv'
  BY <1>1, <1>c DEF Call
<1>2. ASSUME NEW t \in Threads, Back(t) PROVE CoverInv'
  BY <1>2, <1>c DEF Back, DataInv
<1>3. ASSUME NEW t \in Threads, InstallLock(t) PROVE CoverInv'
  BY <1>3, <1>i DEF InstallLock, Installing
<1>4. ASSUME NEW t \in Threads, NEW label \in Installing, NEW kind, BuildFails(t, label, kind)
      PROVE  CoverInv'
  BY <1>4, <1>i, <1>o DEF BuildFails, Fail
<1>5. ASSUME NEW t \in Threads, BuildTracers(t) \/ BuildMeters(t) \/ BuildLoggers(t)
      PROVE  CoverInv'
  BY <1>5, <1>i, <1>o DEF BuildTracers, BuildMeters, BuildLoggers, Installing
<1>6. ASSUME NEW t \in Threads,
             \/ InstallMetricLayers(t) \/ InstallTraceLayers(t) \/ InstallLogLayers(t)
      PROVE  CoverInv'
  BY <1>6, <1>i, <1>o
  DEF InstallMetricLayers, InstallTraceLayers, InstallLogLayers, Replace, Installing
<1>7. ASSUME NEW t \in Threads, InstallCommit(t) PROVE CoverInv'
  BY <1>7, <1>i, <1>o DEF InstallCommit, Installing
<1>8. ASSUME NEW t \in Threads, NothingToDo(t) PROVE CoverInv'
  BY <1>8, <1>c DEF NothingToDo
<1>9. ASSUME NEW t \in Threads, UninstallLock(t) PROVE CoverInv'
  <2>1. state \in 1 .. gen
    BY <1>9, LenProperties DEF UninstallLock, DataInv, gen
  <2>2. \A p \in Due(SinksOf(state)) : p[2] \in SinksIn(work')
    BY <1>9, <2>1, OrdersCover DEF UninstallLock, Due, DataInv
  <2>3. due' = [due EXCEPT ![t] = Due(SinksOf(state))] /\ pc' = [pc EXCEPT ![t] = "shutdown"]
    BY <1>9 DEF UninstallLock
  <2>4. \A u \in Threads : pc[u] \notin Holding
    BY <1>9, <1>f DEF UninstallLock
  <2>5. op' = op /\ pending' = pending
    BY <1>9 DEF UninstallLock
  <2> QED  BY <1>c, <2>2, <2>3, <2>4, <2>5 DEF DataInv, Holding, Uninstalling
<1>10. ASSUME NEW t \in Threads, ShutdownSink(t) PROVE CoverInv'
  <2>1. \A u \in Threads \ {t} : pc[u] \notin Holding
    BY <1>10, <1>a DEF ShutdownSink, Holding, Uninstalling
  <2>2. /\ pending' = pending \ Due({Head(work)}) /\ work' = Tail(work)
        /\ pc' = pc /\ op' = op /\ due' = due /\ pc[t] = "shutdown"
    BY <1>10 DEF ShutdownSink
  <2>3. \A p \in due[t] \cap pending' : p[2] \in SinksIn(work')
    <3>1. \A p \in due[t] \cap pending : p[2] = Head(work) \/ p[2] \in SinksIn(Tail(work))
      BY <1>10, <2>2, SinksInTail DEF ShutdownSink, DataInv
    <3> QED  BY <2>2, <3>1 DEF Due
  <2> QED  BY <2>1, <2>2, <2>3 DEF Due, Holding, Uninstalling
<1>11. ASSUME NEW t \in Threads, UninstallLogLayers(t) PROVE CoverInv'
  <2>1. SinksIn(work) = {}
    BY <1>11, EmptySeq DEF UninstallLogLayers, SinksIn
  <2> QED  BY <1>11, <1>c, <2>1 DEF UninstallLogLayers, Replace
<1>12. ASSUME NEW t \in Threads, UninstallMetricLayers(t) \/ UninstallTraceLayers(t)
       PROVE  CoverInv'
  BY <1>12, <1>c, <1>o DEF UninstallMetricLayers, UninstallTraceLayers, Replace, Uninstalling
<1>13. ASSUME NEW t \in Threads, FlushLock(t) PROVE CoverInv'
  <2>1. state \in 1 .. gen
    BY <1>13, LenProperties DEF FlushLock, DataInv, gen
  <2>2. \A p \in Due(SinksOf(state)) : p[2][2] = "sls" \/ p[2] \in SinksIn(work')
    BY <1>13, <2>1, OrdersCover DEF FlushLock, Due, DataInv
  <2>3. due' = [due EXCEPT ![t] = Due(SinksOf(state))] /\ pc' = [pc EXCEPT ![t] = "flush"]
    BY <1>13 DEF FlushLock
  <2>4. \A u \in Threads : pc[u] \notin Holding
    BY <1>13, <1>f DEF FlushLock
  <2>5. op' = op /\ pending' = pending
    BY <1>13 DEF FlushLock
  <2> QED  BY <1>c, <2>2, <2>3, <2>4, <2>5 DEF DataInv, Holding, Uninstalling
<1>14. ASSUME NEW t \in Threads, FlushSink(t) PROVE CoverInv'
  <2>1. \A u \in Threads \ {t} : pc[u] \notin Holding
    BY <1>14, <1>a DEF FlushSink, Holding
  <2>2. /\ pending' = pending \ Due({Head(work)}) /\ work' = Tail(work)
        /\ pc' = pc /\ op' = op /\ due' = due /\ pc[t] = "flush"
    BY <1>14 DEF FlushSink
  <2>3. \A p \in due[t] \cap pending' : p[2][2] = "sls" \/ p[2] \in SinksIn(work')
    <3>1. \A p \in due[t] \cap pending :
              p[2][2] = "sls" \/ p[2] = Head(work) \/ p[2] \in SinksIn(Tail(work))
      BY <1>14, <2>2, SinksInTail DEF FlushSink, DataInv
    <3> QED  BY <2>2, <3>1 DEF Due
  <2> QED  BY <2>1, <2>2, <2>3 DEF Due, Holding, Uninstalling
<1>15. ASSUME NEW t \in Threads, Unlock(t) PROVE CoverInv'
  <2>1. CASE pc[t] = "leave"
    BY <1>15, <1>c, <1>o, <2>1 DEF Unlock, Uninstalling
  <2>2. CASE pc[t] = "flush" /\ work = <<>>
    <3>1. SinksIn(work) = {}
      BY <2>2, EmptySeq DEF SinksIn
    <3> QED  BY <1>15, <1>c, <1>o, <2>2, <3>1 DEF Unlock
  <2> QED  BY <1>15, <2>1, <2>2 DEF Unlock
\* What is recorded from now on is not owed.
<1>16. ASSUME NEW sinks, Record(sinks) PROVE CoverInv'
  <2>1. \A t \in Threads : due[t] \cap pending' = due[t] \cap pending
    <3>1. items' = items + 1 /\ items \in Nat
      BY <1>16, RuntimeAssumption DEF Record, DataInv
    <3>2. \A t \in Threads : \A p \in due[t] : p[1] # items'
      BY <3>1 DEF DataInv
    <3> QED  BY <1>16, <3>2 DEF Record
  <2> QED  BY <1>16, <2>1 DEF Record
<1>17. CASE Application
  <2>1. CASE RecordSpan \/ RecordLog \/ RecordMeasurement
    BY <1>16, <2>1 DEF RecordSpan, RecordLog, RecordMeasurement
  <2>2. CASE GetMeter \/ GetInstrument
    BY <2>2 DEF GetMeter, GetInstrument
  <2>3. CASE Export
    BY <2>3 DEF Export
  <2>4. CASE \E slot \in DOMAIN DefaultSlots : ReadersIn(slot) \/ ReadersOut(slot)
    BY <2>4 DEF ReadersIn, ReadersOut
  <2> QED  BY <1>17, <2>1, <2>2, <2>3, <2>4 DEF Application
<1>18. CASE UNCHANGED vars
  BY <1>18 DEF vars
<1> QED
  BY <1>1, <1>2, <1>3, <1>4, <1>5, <1>6, <1>7, <1>8, <1>9, <1>10, <1>11, <1>12, <1>13,
     <1>14, <1>15, <1>17, <1>18 DEF Next, Step, Install, Uninstall, ForceFlush, Installing

LEMMA CoverInvariant == Spec => []CoverInv
<1>1. Init => CoverInv
  BY DEF Init, CoverInv
<1> QED  BY <1>1, CoverStep, Basics, CallInvariant, PTL DEF Spec

\* When shutdown returns, all that had been recorded for the sinks it took has been
\* handled, for any number of sinks of each kind.
THEOREM ShutdownCovered == Spec => []ShutdownCovers
<1>1. CoverInv => ShutdownCovers
  BY DEF CoverInv, ShutdownCovers
<1> QED  BY <1>1, CoverInvariant, PTL

\* When force_flush returns, the same is true of all but the SLS sinks.
THEOREM FlushCovered == Spec => []FlushCovers
<1>1. CoverInv => FlushCovers
  BY DEF CoverInv, FlushCovers
<1> QED  BY <1>1, CoverInvariant, PTL

----------------------------------------------------------------------------
(* What is left when nothing is installed, as long as every provider can be built.     *)

\* The steps at which install can fail half way.
BuildFailure(t) ==
    \/ BuildFails(t, "tracers", "traces") \/ BuildFails(t, "meters", "metrics")
    \/ BuildFails(t, "loggers", "otlp")   \/ BuildFails(t, "log_layers", "sls")

NextBuilds == Next /\ ~(\E t \in Threads : BuildFailure(t))

BuildsSpec == Init /\ [][NextBuilds]_vars

\* What lib.rs says of shutdown, at any time that nothing is installed and nobody is
\* inside of a call: the slots are as at the start, and no global provider is running.
NothingLeft ==
    state = 0 /\ mutex = {} =>
        slots = DefaultSlots /\ globals.tracer \cup globals.meter \subseteq down

\* The global providers that are running.
Live == (globals.tracer \cup globals.meter) \ down

\* They are among the sinks that are installed, being installed, or still to be shut down.
TearInv ==
    /\ NothingLeft
    /\ state # 0 => Live \subseteq SinksOf(state)
    /\ \A t \in Threads :
          /\ pc[t] \in Installing => Live \subseteq SinksOf(gen)
          /\ pc[t] = "shutdown" => Live \subseteq SinksIn(work)
          /\ pc[t] \in {"drop_metrics", "drop_traces", "leave"} =>
                Live = {} /\ slots.logs = {Console}
          /\ pc[t] \in {"drop_traces", "leave"} => slots.metrics = {}
          /\ pc[t] = "leave" => slots.traces = {}

LEMMA TearStep == ControlInv /\ DataInv /\ TearInv /\ [NextBuilds]_vars => TearInv'
<1> SUFFICES ASSUME ControlInv, DataInv, TearInv, [NextBuilds]_vars
             PROVE  TearInv'
  OBVIOUS
<1> USE DEF TearInv, NothingLeft, Quiet, Leave, Goto, handles, shared, threads, recorded
<1>c. /\ pc \in [Threads -> Holding \cup {"idle", "lock", "returned"}]
      /\ mutex \subseteq Threads
      /\ \A t \in Threads : (t \in mutex) <=> (pc[t] \in Holding)
      /\ \A t, u \in mutex : t = u
      /\ \A t \in Threads : pc[t] \in Installing => gen # 0 /\ state = 0
      /\ \A t \in Threads : pc[t] \in Uninstalling => state = 0
  BY DEF ControlInv
<1>k. ASSUME conf' = conf
      PROVE  gen' = gen /\ \A g : SinksOf(g)' = SinksOf(g)
  BY <1>k DEF gen, SinksOf, Sinks
<1>l. ASSUME UNCHANGED <<globals, down>> PROVE Live' = Live
  BY <1>l DEF Live
<1>1. ASSUME NEW t \in Threads, NEW f \in Op, Call(t, f) PROVE TearInv'
  BY <1>1, <1>c, <1>k, <1>l DEF Call, Installing
<1>2. ASSUME NEW t \in Threads, Back(t) PROVE TearInv'
  BY <1>2, <1>c, <1>k, <1>l DEF Back, Installing
<1>3. ASSUME NEW t \in Threads, InstallLock(t) PROVE TearInv'
  <2>1. CASE NotInstalled
    <3>1. Live = {} /\ Live' = Live /\ state' = 0 /\ mutex' = {t} /\ state = 0
      BY <1>3, <1>l, <2>1 DEF InstallLock, NotInstalled, Free, Live
    <3>2. \A u \in Threads : pc'[u] \notin Uninstalling
      BY <1>3, <1>c, <2>1 DEF InstallLock, Free, Holding, Uninstalling
    <3> QED  BY <3>1, <3>2 DEF Uninstalling
  <2>2. CASE ~NotInstalled
    BY <1>3, <1>c, <1>k, <1>l, <2>2 DEF InstallLock, Installing, NotInstalled
  <2> QED  BY <2>1, <2>2
\* The holder's steps: the others are outside.
<1>o. ASSUME NEW t \in Threads, pc[t] \in Holding, NEW l, pc' = [pc EXCEPT ![t] = l]
      PROVE  /\ pc'[t] = l /\ mutex # {}
             /\ \A u \in Threads \ {t} : pc'[u] \notin Holding
  BY <1>c, <1>o
<1>4. ASSUME NEW t \in Threads, NEW kind \in Kind, NEW l \in Installing, pc[t] \in Installing,
             NEW field \in {"tracer", "meter"}, SetGlobal(field, First(gen, kind)),
             pc' = [pc EXCEPT ![t] = l], UNCHANGED <<mutex, state, conf, down>>
      PROVE  TearInv'
  <2>1. Live' \subseteq SinksOf(gen)
    <3>1. First(gen, kind) \subseteq SinksOf(gen)
      BY DEF First, SinksOf, Sinks
    <3>2. Live \subseteq SinksOf(gen)
      BY <1>4
    <3>3. \/ globals' = globals
          \/ globals' = [globals EXCEPT ![field] = First(gen, kind)]
      BY <1>4 DEF SetGlobal
    <3> QED  BY <1>4, <3>1, <3>2, <3>3 DEF Live, DataInv
  <2>2. /\ pc'[t] \in Installing /\ mutex' # {} /\ state' = 0
        /\ \A u \in Threads \ {t} : pc'[u] \notin Holding
    BY <1>4, <1>o, <1>c DEF Holding
  <2> QED  BY <1>4, <1>k, <2>1, <2>2 DEF Holding, Installing, Uninstalling
<1>5. ASSUME NEW t \in Threads, BuildTracers(t) \/ BuildMeters(t) PROVE TearInv'
  BY <1>4, <1>5 DEF BuildTracers, BuildMeters, Kind, Installing
<1>6. ASSUME NEW t \in Threads,
             \/ BuildLoggers(t)
             \/ InstallMetricLayers(t) \/ InstallTraceLayers(t) \/ InstallLogLayers(t)
      PROVE  TearInv'
  <2>1. /\ pc[t] \in Installing /\ (\E l \in Installing : pc' = [pc EXCEPT ![t] = l])
        /\ UNCHANGED <<mutex, state, conf, globals, down>>
    BY <1>6 DEF BuildLoggers, InstallMetricLayers, InstallTraceLayers, InstallLogLayers,
                Replace, Installing
  <2>2. /\ pc'[t] \in Installing /\ mutex' # {} /\ state' = 0
        /\ \A u \in Threads \ {t} : pc'[u] \notin Holding
    BY <2>1, <1>o, <1>c DEF Holding
  <2> QED  BY <1>k, <1>l, <2>1, <2>2 DEF Holding, Installing, Uninstalling
<1>7. ASSUME NEW t \in Threads, InstallCommit(t) PROVE TearInv'
  <2>1. /\ pc[t] = "commit" /\ pc' = [pc EXCEPT ![t] = "returned"] /\ state' = gen
        /\ UNCHANGED <<conf, globals, down>> /\ gen # 0
    BY <1>7, <1>c DEF InstallCommit, Installing
  <2>2. \A u \in Threads : pc'[u] \notin Holding
    BY <2>1, <1>o DEF Holding, Installing, Uninstalling
  <2>3. Live' \subseteq SinksOf(gen)
    BY <1>l, <2>1 DEF Installing
  <2> QED  BY <1>k, <2>1, <2>2, <2>3 DEF Holding, Uninstalling
<1>8. ASSUME NEW t \in Threads, NothingToDo(t) PROVE TearInv'
  BY <1>8, <1>c, <1>k, <1>l DEF NothingToDo, Free, Installing
<1>9. ASSUME NEW t \in Threads, UninstallLock(t) PROVE TearInv'
  <2>1. /\ state \in 1 .. gen /\ state' = 0 /\ mutex' = {t} /\ work' = ShutdownOrder(state)
        /\ pc' = [pc EXCEPT ![t] = "shutdown"] /\ UNCHANGED <<globals, down>>
    BY <1>9, LenProperties DEF UninstallLock, StateTaken, DataInv, gen
  <2>2. Live' \subseteq SinksIn(work')
    BY <1>l, <2>1, OrdersCover DEF DataInv, SinksIn
  <2>3. \A u \in Threads : pc[u] \notin Holding
    BY <1>9, <1>c DEF UninstallLock, Free
  <2> QED  BY <1>c, <2>1, <2>2, <2>3 DEF Holding, Installing, Uninstalling
<1>10. ASSUME NEW t \in Threads, ShutdownSink(t) PROVE TearInv'
  <2>1. /\ pc[t] = "shutdown" /\ work # <<>> /\ work' = Tail(work)
        /\ down' = down \cup {Head(work)}
        /\ UNCHANGED <<mutex, state, conf, slots, globals, pc>>
    BY <1>10 DEF ShutdownSink
  <2>2. Live \subseteq SinksIn(work)
    BY <2>1
  <2>3. Live' \subseteq SinksIn(work')
    BY <2>1, <2>2, SinksInTail DEF Live, DataInv
  <2>4. mutex # {} /\ state = 0 /\ \A u \in Threads \ {t} : pc[u] \notin Holding
    BY <1>c, <2>1 DEF Holding, Uninstalling
  <2> QED  BY <2>1, <2>3, <2>4 DEF Holding, Installing, Uninstalling
<1>11. ASSUME NEW t \in Threads,
              \/ UninstallLogLayers(t) \/ UninstallMetricLayers(t) \/ UninstallTraceLayers(t)
       PROVE  TearInv'
  <2>1. /\ pc[t] \in Uninstalling /\ mutex # {} /\ state = 0 /\ Live' = Live
        /\ \A u \in Threads \ {t} : pc'[u] \notin Holding
        /\ UNCHANGED <<mutex, state>>
    <3>1. /\ pc[t] \in Uninstalling /\ (\E l : pc' = [pc EXCEPT ![t] = l])
          /\ UNCHANGED <<mutex, state, globals, down>>
      BY <1>11 DEF UninstallLogLayers, UninstallMetricLayers, UninstallTraceLayers, Replace,
                   Uninstalling
    <3> QED  BY <1>c, <1>l, <1>o, <3>1 DEF Holding
  <2>2. CASE UninstallLogLayers(t)
    <3>1. Live = {}
      BY <2>2, EmptySeq DEF UninstallLogLayers, Replace, SinksIn
    <3>2. pc'[t] = "drop_metrics" /\ slots'.logs = {Console}
      BY <1>c, <2>2 DEF UninstallLogLayers, Replace, DataInv
    <3> QED  BY <2>1, <3>1, <3>2 DEF Holding, Installing, Uninstalling
  <2>3. CASE UninstallMetricLayers(t)
    <3>1. Live = {} /\ slots.logs = {Console}
      BY <2>3 DEF UninstallMetricLayers, Replace
    <3>2. pc'[t] = "drop_traces" /\ slots' = [slots EXCEPT !.metrics = {}]
      BY <1>c, <2>3 DEF UninstallMetricLayers, Replace
    <3> QED  BY <2>1, <3>1, <3>2 DEF Holding, Installing, Uninstalling, DataInv
  <2>4. CASE UninstallTraceLayers(t)
    <3>1. Live = {} /\ slots.logs = {Console} /\ slots.metrics = {}
      BY <2>4 DEF UninstallTraceLayers, Replace
    <3>2. pc'[t] = "leave" /\ slots' = [slots EXCEPT !.traces = {}]
      BY <1>c, <2>4 DEF UninstallTraceLayers, Replace
    <3> QED  BY <2>1, <3>1, <3>2 DEF Holding, Installing, Uninstalling, DataInv
  <2> QED  BY <1>11, <2>2, <2>3, <2>4
<1>12. ASSUME NEW t \in Threads, FlushLock(t) PROVE TearInv'
  BY <1>12, <1>c, <1>k, <1>l DEF FlushLock, Free, Holding, Installing, Uninstalling
<1>13. ASSUME NEW t \in Threads, FlushSink(t) PROVE TearInv'
  <2>1. /\ pc[t] = "flush" /\ UNCHANGED <<mutex, state, conf, slots, globals, down, pc>>
    BY <1>13 DEF FlushSink
  <2>2. \A u \in Threads : pc[u] # "shutdown"
    BY <1>c, <2>1 DEF Holding, Uninstalling
  <2> QED  BY <1>k, <1>l, <2>1, <2>2
<1>14. ASSUME NEW t \in Threads, Unlock(t) PROVE TearInv'
  <2>1. /\ pc[t] \in {"leave", "flush"} /\ pc' = [pc EXCEPT ![t] = "returned"]
        /\ UNCHANGED <<state, conf, slots, globals, down>>
    BY <1>14 DEF Unlock
  <2>2. \A u \in Threads : pc'[u] \notin Holding
    BY <1>o, <2>1 DEF Holding, Installing, Uninstalling
  <2>3. CASE pc[t] = "leave"
    <3>1. slots = DefaultSlots /\ Live = {}
      BY <2>3 DEF DefaultSlots, DataInv
    <3>2. state = 0
      BY <1>c, <2>3 DEF Uninstalling
    <3> QED  BY <2>1, <2>2, <3>1, <3>2 DEF Live, DefaultSlots, Holding, Uninstalling
  <2>4. CASE pc[t] = "flush"
    <3>1. state # 0
      BY <2>4 DEF ControlInv
    <3> QED  BY <1>k, <1>l, <2>1, <2>2, <3>1 DEF Holding, Uninstalling
  <2> QED  BY <2>1, <2>3, <2>4
<1>15. CASE Application
  BY <1>15, <1>k, <1>l
  DEF Application, RecordSpan, RecordLog, RecordMeasurement, Record, GetMeter, GetInstrument,
      Export, ReadersIn, ReadersOut
<1>16. CASE UNCHANGED vars
  BY <1>16, <1>k, <1>l DEF vars
<1> QED
  BY <1>1, <1>2, <1>3, <1>5, <1>6, <1>7, <1>8, <1>9, <1>10, <1>11, <1>12, <1>13, <1>14,
     <1>15, <1>16 DEF NextBuilds, BuildFailure, Next, Step, Install, Uninstall, ForceFlush

\* shutdown tears everything down, for any number of threads, sinks and installs, as
\* long as no init fails half way: what RuntimeTearDown finds takes such an init.
THEOREM TornDownIfBuilt == BuildsSpec => []NothingLeft
<1>1. Init => TearInv
  BY DEF Init, TearInv, NothingLeft, Live, Installing
<1>2. BuildsSpec => Spec
  <2>1. [NextBuilds]_vars => [Next]_vars
    BY DEF NextBuilds
  <2> QED  BY <2>1, PTL DEF BuildsSpec, Spec
<1>3. TearInv => NothingLeft
  BY DEF TearInv
<1> QED  BY <1>1, <1>2, <1>3, TearStep, Basics, PTL DEF BuildsSpec

----------------------------------------------------------------------------
(* A call comes to its end.                                                  *)

\* How far a call is from its return.
Phase == [lock |-> 8, tracers |-> 7, meters |-> 6, loggers |-> 5, metric_layers |-> 4,
          trace_layers |-> 3, log_layers |-> 2, commit |-> 1,
          shutdown |-> 4, drop_metrics |-> 3, drop_traces |-> 2, leave |-> 1,
          flush |-> 1, returned |-> 0]

\* Every step of a call comes nearer to the return, or leaves one sink less to flush or
\* to shut down; and nothing that others do takes it back: no loop and no early return
\* of install, uninstall and force_flush goes round for ever. (That it can take the
\* next step, as the lock is handed over and the readers of a slot leave it, and so that
\* every call returns, is CallsReturn.)
CallsWindDown ==
    [][\A t \in Threads :
          /\ Step(t) =>
                \/ Phase[pc'[t]] < Phase[pc[t]]
                \/ pc'[t] = pc[t] /\ Len(work') < Len(work)
          /\ t \in mutex /\ ~Step(t) => pc'[t] = pc[t] /\ work' = work]_vars

LEMMA WindStep ==
    ASSUME ControlInv, DataInv, Next, NEW t \in Threads
    PROVE  /\ Step(t) =>
                 \/ Phase[pc'[t]] < Phase[pc[t]]
                 \/ pc'[t] = pc[t] /\ Len(work') < Len(work)
           /\ t \in mutex /\ ~Step(t) => pc'[t] = pc[t] /\ work' = work
<1> USE DEF Goto, Leave, Quiet, handles, shared, threads, recorded
<1>c. /\ pc \in [Threads -> Holding \cup {"idle", "lock", "returned"}]
      /\ \A u \in Threads : (u \in mutex) <=> (pc[u] \in Holding)
      /\ \A u, v \in mutex : u = v
  BY DEF ControlInv
<1>1. ASSUME NEW u \in Threads, Install(u) PROVE Phase[pc'[u]] < Phase[pc[u]]
  BY <1>1, <1>c
  DEF Install, InstallLock, BuildFails, Fail, BuildTracers, BuildMeters, BuildLoggers,
      InstallMetricLayers, InstallTraceLayers, InstallLogLayers, Replace, InstallCommit, Phase
<1>2. ASSUME NEW u \in Threads, ShutdownSink(u) \/ FlushSink(u)
      PROVE  pc'[u] = pc[u] /\ Len(work') < Len(work)
  <2>1. work \in Seq(Sink) /\ work # <<>> /\ work' = Tail(work) /\ pc' = pc
    BY <1>2 DEF ShutdownSink, FlushSink, DataInv
  <2>2. Len(Tail(work)) = Len(work) - 1 /\ Len(work) \in Nat
    BY <2>1, HeadTailProperties, LenProperties
  <2> QED  BY <2>1, <2>2
<1>3. ASSUME NEW u \in Threads,
             \/ UninstallLock(u) \/ FlushLock(u) \/ NothingToDo(u) \/ Unlock(u)
             \/ UninstallLogLayers(u) \/ UninstallMetricLayers(u) \/ UninstallTraceLayers(u)
      PROVE  Phase[pc'[u]] < Phase[pc[u]]
  BY <1>3, <1>c
  DEF UninstallLock, FlushLock, NothingToDo, Unlock, UninstallLogLayers, UninstallMetricLayers,
      UninstallTraceLayers, Replace, Phase
<1>4. Step(t) => \/ Phase[pc'[t]] < Phase[pc[t]]
                 \/ pc'[t] = pc[t] /\ Len(work') < Len(work)
  BY <1>1, <1>2, <1>3 DEF Step, Uninstall, ForceFlush
\* While t is inside, the others only wait for the lock, call, or return.
<1>5. ASSUME t \in mutex, ~Step(t) PROVE pc'[t] = pc[t] /\ work' = work
  <2>1. pc[t] \in Holding /\ \A u \in Threads \ {t} : pc[u] \notin Holding
    BY <1>c, <1>5
  <2>2. ~Free
    BY <1>5 DEF Free
  <2>3. ASSUME NEW u \in Threads, Step(u) PROVE FALSE
    <3>1. u # t
      BY <1>5, <2>3
    <3>2. pc[u] \in Holding \/ Free
      BY <2>3
      DEF Step, Install, InstallLock, BuildFails, BuildTracers, BuildMeters, BuildLoggers,
          InstallMetricLayers, InstallTraceLayers, InstallLogLayers, Replace, InstallCommit,
          Uninstall, UninstallLock, ShutdownSink, UninstallLogLayers, UninstallMetricLayers,
          UninstallTraceLayers, ForceFlush, FlushLock, FlushSink, NothingToDo, Unlock,
          Holding, Installing, Uninstalling
    <3> QED  BY <2>1, <2>2, <3>1, <3>2
  <2>4. ASSUME NEW u \in Threads, NEW f \in Op, Call(u, f) PROVE pc'[t] = pc[t] /\ work' = work
    BY <1>c, <2>1, <2>4 DEF Call, Holding, Installing, Uninstalling
  <2>5. ASSUME NEW u \in Threads, Back(u) PROVE pc'[t] = pc[t] /\ work' = work
    BY <1>c, <2>1, <2>5 DEF Back, Holding, Installing, Uninstalling
  <2>6. ASSUME Application PROVE pc'[t] = pc[t] /\ work' = work
    BY <2>6
    DEF Application, RecordSpan, RecordLog, RecordMeasurement, Record, GetMeter, GetInstrument,
        Export, ReadersIn, ReadersOut
  <2> QED  BY <2>3, <2>4, <2>5, <2>6 DEF Next
<1> QED  BY <1>4, <1>5

\* Each of the three functions comes nearer to its return with every step it takes, for
\* any number of sinks.
THEOREM CallsTerminate == Spec => CallsWindDown
<1>1. ASSUME ControlInv, DataInv, [Next]_vars
      PROVE  [\A t \in Threads :
                /\ Step(t) =>
                      \/ Phase[pc'[t]] < Phase[pc[t]]
                      \/ pc'[t] = pc[t] /\ Len(work') < Len(work)
                /\ t \in mutex /\ ~Step(t) => pc'[t] = pc[t] /\ work' = work]_vars
  BY <1>1, WindStep
<1> QED  BY <1>1, Basics, PTL DEF Spec, CallsWindDown
============================================================================
