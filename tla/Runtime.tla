------------------------------ MODULE Runtime ------------------------------
(***************************************************************************)
(* The process-wide runtime (rust/src/runtime.rs): install, uninstall and  *)
(* force_flush, called by Python threads that have released the GIL, over  *)
(* the state mutex, the three layer slots and the OpenTelemetry globals;   *)
(* and, beside them, the threads that record and the exporters.            *)
(*                                                                         *)
(* A sink <<g, kind, i>> is the i-th of its kind in the g-th install: its  *)
(* exporter, provider and layer, or its SLS writer and layer.  What one    *)
(* SLS writer does is in SlsWriter; here it is what LogChannel promises.   *)
(***************************************************************************)
EXTENDS Integers, Sequences, FiniteSets

CONSTANTS Threads,    \* threads that call init, shutdown and force_flush
          Configs,    \* the resolved configurations
          MaxInits,   \* bound: calls of init
          MaxItems    \* bound: spans, measurements and log records

Kind == {"traces", "metrics", "otlp", "sls"}

ASSUME RuntimeAssumption ==
    /\ Configs \subseteq [traces : Nat, metrics : Nat, otlp : Nat, sls : Nat,
                          console : BOOLEAN]
    /\ MaxInits \in Nat
    /\ MaxItems \in Nat

VARIABLES mutex,     \* the holder of Global.state's lock, a set of at most one
          state,     \* Global.state: 0, or the install it holds the handles of
          conf,      \* the configuration of each install that got past the check
          slots,     \* the layers in Global.traces, .metrics and .logs
          readers,   \* the slots whose lock is read-locked, as far as it is waited for
          globals,   \* the global tracer and meter provider, sets of at most one
          down,      \* the sinks that have been shut down
          pc,        \* where each thread is
          op,        \* the function it is in
          res,       \* what that function will return
          work,      \* the sinks the holder still has to flush or shut down
          meter,     \* the provider behind the application's Meter
          instrument,\* the one behind its Counter, UpDownCounter, Histogram or Gauge
          items,     \* bound: what has been recorded so far
          inits,     \* bound: calls of init so far
          pending,   \* pairs (item, sink) recorded and not yet exported
          due        \* history: what the thread's call has to see exported

shared   == <<slots, globals, down>>
handles  == <<state, conf>>
threads  == <<pc, op, res>>
recorded == <<readers, meter, instrument, items, pending>>
vars     == <<mutex, handles, shared, threads, work, recorded, inits, due>>

----------------------------------------------------------------------------
(* Sinks and layers. *)

Sink == Nat \X Kind \X Nat

\* The latest install.
gen == Len(conf)

\* The terminal: a layer without a sink behind it.
Console == <<0, "console", 1>>

SinkSeq(g, kind) == [i \in 1 .. conf[g][kind] |-> <<g, kind, i>>]

Sinks(g, kind) == {<<g, kind, i>> : i \in 1 .. conf[g][kind]}

SinksOf(g) == UNION {Sinks(g, kind) : kind \in Kind}

First(g, kind) == {<<g, kind, i>> : i \in (1 .. conf[g][kind]) \cap {1}}

\* What init_default and uninstall leave in the slots.
DefaultSlots == [traces |-> {}, metrics |-> {}, logs |-> {Console}]

LogLayers(g) ==
    (IF conf[g].console THEN {Console} ELSE {}) \cup Sinks(g, "otlp") \cup Sinks(g, "sls")

LayersOf(g) ==
    [traces |-> Sinks(g, "traces"), metrics |-> Sinks(g, "metrics"), logs |-> LogLayers(g)]

----------------------------------------------------------------------------
Init ==
    /\ mutex = {}
    /\ state = 0
    /\ conf = <<>>
    /\ slots = DefaultSlots
    /\ globals = [tracer |-> {}, meter |-> {}]
    /\ down = {}
    /\ pc = [t \in Threads |-> "idle"]
    /\ op = [t \in Threads |-> "none"]
    /\ res = [t \in Threads |-> "none"]
    /\ work = <<>>
    /\ readers = {}
    /\ meter = {}
    /\ instrument = {}
    /\ items = 0
    /\ inits = 0
    /\ pending = {}
    /\ due = [t \in Threads |-> {}]

Goto(t, label) == pc' = [pc EXCEPT ![t] = label]

\* What a function leaves alone that neither locks nor records.
Quiet == UNCHANGED <<mutex, op, recorded, inits, due>>

Call(t, f) ==
    /\ pc[t] = "idle"
    /\ f = "init" => inits < MaxInits
    /\ inits' = IF f = "init" THEN inits + 1 ELSE inits
    /\ op' = [op EXCEPT ![t] = f]
    /\ Goto(t, "lock")
    /\ UNCHANGED <<mutex, handles, shared, res, work, recorded, due>>

\* The guard is dropped, and the function returns r.
Leave(t, r) ==
    /\ mutex' = {}
    /\ res' = [res EXCEPT ![t] = r]
    /\ Goto(t, "returned")

Back(t) ==
    /\ pc[t] = "returned"
    /\ Goto(t, "idle")
    /\ op' = [op EXCEPT ![t] = "none"]
    /\ res' = [res EXCEPT ![t] = "none"]
    /\ due' = [due EXCEPT ![t] = {}]
    /\ UNCHANGED <<mutex, handles, shared, work, recorded, inits>>

\* Mutated form: the lock does not exclude.
NoLock == TRUE

\* The state mutex can be taken.
Free == mutex = {}

Due(sinks) == {p \in pending : p[2] \in sinks}

----------------------------------------------------------------------------
(* install *)

\* Mutated form: the second init replaces the first.
NeverInstalled == TRUE

NotInstalled == state = 0

\* g.state.lock(), and the check that nothing is installed.
InstallLock(t) ==
    /\ pc[t] = "lock" /\ op[t] = "init"
    /\ Free
    /\ IF NotInstalled
       THEN /\ mutex' = {t}
            /\ \E config \in Configs : conf' = Append(conf, config)
            /\ Goto(t, "tracers")
            /\ UNCHANGED res
       ELSE /\ Leave(t, "error")
            /\ UNCHANGED conf
    /\ UNCHANGED <<state, shared, op, work, recorded, inits, due>>

\* `?`: the function returns early and what it already did stays.
Fail(t) ==
    /\ Leave(t, "error")
    /\ UNCHANGED <<handles, shared, op, work, recorded, inits, due>>

\* One exporter of the kind cannot be built.
BuildFails(t, label, kind) ==
    /\ pc[t] = label
    /\ conf[gen][kind] > 0
    /\ Fail(t)

\* Mutated form: a global that has been set is kept.
SetGlobalOnce(field, sinks) ==
    IF sinks = {} \/ globals[field] # {} THEN UNCHANGED globals
                                        ELSE globals' = [globals EXCEPT ![field] = sinks]

SetGlobal(field, sinks) ==
    IF sinks = {} THEN UNCHANGED globals
                  ELSE globals' = [globals EXCEPT ![field] = sinks]

BuildTracers(t) ==
    /\ pc[t] = "tracers"
    /\ SetGlobal("tracer", First(gen, "traces"))
    /\ Goto(t, "meters")
    /\ Quiet /\ UNCHANGED <<handles, slots, down, res, work>>

BuildMeters(t) ==
    /\ pc[t] = "meters"
    /\ SetGlobal("meter", First(gen, "metrics"))
    /\ Goto(t, "loggers")
    /\ Quiet /\ UNCHANGED <<handles, slots, down, res, work>>

BuildLoggers(t) ==
    /\ pc[t] = "loggers"
    /\ Goto(t, "metric_layers")
    /\ Quiet /\ UNCHANGED <<handles, shared, res, work>>

\* slot.replace(layers), then on to the next statement. It write-locks the slot: as
\* long as some thread is in a callback of the slot's layers, the call waits here, and
\* the state mutex with it.
Replace(t, label, slot, layers, next) ==
    /\ pc[t] = label
    /\ slot \notin readers
    /\ slots' = [slots EXCEPT ![slot] = layers]
    /\ Goto(t, next)
    /\ Quiet /\ UNCHANGED <<handles, globals, down, res, work>>

InstallMetricLayers(t) ==
    Replace(t, "metric_layers", "metrics", Sinks(gen, "metrics"), "trace_layers")

InstallTraceLayers(t) ==
    Replace(t, "trace_layers", "traces", Sinks(gen, "traces"), "log_layers")

\* The SLS clients and writers are created, and the log layers go in.
InstallLogLayers(t) ==
    Replace(t, "log_layers", "logs", LogLayers(gen), "commit")

\* *guard = Some(..)
InstallCommit(t) ==
    /\ pc[t] = "commit"
    /\ state' = gen
    /\ Leave(t, "ok")
    /\ UNCHANGED <<conf, shared, op, work, recorded, inits, due>>

Install(t) ==
    \/ InstallLock(t)
    \/ BuildFails(t, "tracers", "traces") \/ BuildTracers(t)
    \/ BuildFails(t, "meters", "metrics") \/ BuildMeters(t)
    \/ BuildFails(t, "loggers", "otlp")   \/ BuildLoggers(t)
    \/ InstallMetricLayers(t)
    \/ InstallTraceLayers(t)
    \/ BuildFails(t, "log_layers", "sls") \/ InstallLogLayers(t)
    \/ InstallCommit(t)

----------------------------------------------------------------------------
(* uninstall and force_flush *)

\* Mutated form: the SLS handles are forgotten.
ProvidersOnly(g) == SinkSeq(g, "traces") \o SinkSeq(g, "metrics") \o SinkSeq(g, "otlp")

\* uninstall's order: the SLS handles, then the providers.
ShutdownOrder(g) ==
    SinkSeq(g, "sls") \o SinkSeq(g, "traces") \o SinkSeq(g, "metrics") \o SinkSeq(g, "otlp")

\* Mutated form: the logger providers are forgotten.
NoLoggers(g) == SinkSeq(g, "traces") \o SinkSeq(g, "metrics")

FlushOrder(g) == SinkSeq(g, "traces") \o SinkSeq(g, "metrics") \o SinkSeq(g, "otlp")

\* Lock; with no state there is nothing to do, and the call succeeds.
NothingToDo(t) ==
    /\ pc[t] = "lock" /\ op[t] \in {"shutdown", "force_flush"}
    /\ Free /\ state = 0
    /\ Leave(t, "ok")
    /\ UNCHANGED <<handles, shared, op, work, recorded, inits, due>>

\* Mutated form: uninstall only looks at the state (guard.as_ref()).
StateLookedAt == state

\* What guard.take() leaves.
StateTaken == 0

\* Mutated form: shutdown calls force_flush first, which locks the mutex once more.
FlushesUnderLock(t) ==
    /\ pc[t] = "lock" /\ op[t] = "shutdown"
    /\ Free /\ state # 0
    /\ mutex' = {t}
    /\ op' = [op EXCEPT ![t] = "force_flush"]
    /\ UNCHANGED <<handles, shared, pc, res, work, recorded, inits, due>>

\* uninstall: guard.take(). The lock is kept until the end.
UninstallLock(t) ==
    /\ pc[t] = "lock" /\ op[t] = "shutdown"
    /\ Free /\ state # 0
    /\ mutex' = {t}
    /\ state' = StateTaken
    /\ work' = ShutdownOrder(state)
    /\ res' = [res EXCEPT ![t] = "ok"]
    /\ due' = [due EXCEPT ![t] = Due(SinksOf(state))]
    /\ Goto(t, "shutdown")
    /\ UNCHANGED <<conf, shared, op, recorded, inits>>

\* handle.flush_and_shutdown() or provider.shutdown() for the next sink: what is
\* pending is exported or given up, and the sink takes nothing any more.
ShutdownSink(t) ==
    /\ pc[t] = "shutdown" /\ work # <<>>
    /\ pending' = pending \ Due({Head(work)})
    /\ down' = down \cup {Head(work)}
    /\ work' = Tail(work)
    /\ UNCHANGED <<mutex, handles, slots, globals, threads, readers, meter, instrument, items,
                   inits, due>>

UninstallLogLayers(t) ==
    /\ work = <<>>
    /\ Replace(t, "shutdown", "logs", {Console}, "drop_metrics")

\* Mutated form: uninstall leaves the trace layers in.
UninstallMetricsOnly(t) == Replace(t, "drop_metrics", "metrics", {}, "leave")

UninstallMetricLayers(t) == Replace(t, "drop_metrics", "metrics", {}, "drop_traces")

UninstallTraceLayers(t) == Replace(t, "drop_traces", "traces", {}, "leave")

\* force_flush keeps the lock too, and turns the errors into warnings.
FlushLock(t) ==
    /\ pc[t] = "lock" /\ op[t] = "force_flush"
    /\ Free /\ state # 0
    /\ mutex' = {t}
    /\ work' = FlushOrder(state)
    /\ due' = [due EXCEPT ![t] = Due(SinksOf(state))]
    /\ Goto(t, "flush")
    /\ UNCHANGED <<handles, shared, op, res, recorded, inits>>

FlushSink(t) ==
    /\ pc[t] = "flush" /\ work # <<>>
    /\ pending' = pending \ Due({Head(work)})
    /\ work' = Tail(work)
    /\ UNCHANGED <<mutex, handles, shared, threads, readers, meter, instrument, items, inits,
                   due>>

Unlock(t) ==
    /\ pc[t] = "leave" \/ (pc[t] = "flush" /\ work = <<>>)
    /\ Leave(t, "ok")
    /\ UNCHANGED <<handles, shared, op, work, recorded, inits, due>>

Uninstall(t) ==
    \/ UninstallLock(t) \/ ShutdownSink(t)
    \/ UninstallLogLayers(t) \/ UninstallMetricLayers(t) \/ UninstallTraceLayers(t)

ForceFlush(t) == FlushLock(t) \/ FlushSink(t)

----------------------------------------------------------------------------
(* The threads that record, and the exporters: they do not take the state mutex. *)

\* Thread t is about to replace the layers of the slot.
Replacing(t, slot) ==
    \/ slot = "metrics" /\ pc[t] \in {"metric_layers", "drop_metrics"}
    \/ slot = "traces"  /\ pc[t] \in {"trace_layers", "drop_traces"}
    \/ slot = "logs"    /\ (pc[t] = "log_layers" \/ (pc[t] = "shutdown" /\ work = <<>>))

\* Bound: readers are only shown where they keep a replacement waiting. A callback
\* that begins and ends while nobody replaces its slot is one step, a Record.
ReadersIn(slot) ==
    /\ \E t \in mutex : Replacing(t, slot)
    /\ readers' = readers \cup {slot}
    /\ UNCHANGED <<mutex, handles, shared, threads, work, meter, instrument, items, pending,
                   inits, due>>

ReadersOut(slot) ==
    /\ slot \in readers
    /\ readers' = readers \ {slot}
    /\ UNCHANGED <<mutex, handles, shared, threads, work, meter, instrument, items, pending,
                   inits, due>>

Record(sinks) ==
    /\ items < MaxItems
    /\ items' = items + 1
    /\ pending' = pending \cup {<<items', s>> : s \in sinks \ (down \cup {Console})}
    /\ UNCHANGED <<mutex, handles, shared, threads, work, readers, meter, instrument, inits, due>>

\* A span closes, or an event is logged: on_close and on_event reach every layer.
RecordSpan == Record(slots.traces)
RecordLog  == Record(slots.logs)

\* A measurement goes to the provider that its instrument was built with.
RecordMeasurement == Record(instrument)

\* PyMeter::new binds to the global meter provider of the moment.
GetMeter ==
    /\ meter' = globals.meter
    /\ UNCHANGED <<mutex, handles, shared, threads, work, readers, instrument, items,
                   pending, inits, due>>

\* counter, up_down_counter, histogram and gauge: built with the Meter's provider,
\* whatever the global one is by now.
GetInstrument ==
    /\ instrument' = meter
    /\ UNCHANGED <<mutex, handles, shared, threads, work, readers, meter, items, pending,
                   inits, due>>

\* A processor exports, or drops, an item on its own schedule.
Export ==
    /\ \E p \in pending : pending' = pending \ {p}
    /\ UNCHANGED <<mutex, handles, shared, threads, work, readers, meter, instrument, items, inits,
                   due>>

Application ==
    \/ \E slot \in DOMAIN DefaultSlots : ReadersIn(slot) \/ ReadersOut(slot)
    \/ RecordSpan \/ RecordLog \/ RecordMeasurement \/ GetMeter \/ GetInstrument \/ Export

Op == {"init", "shutdown", "force_flush"}

Step(t) ==
    \/ Install(t) \/ Uninstall(t) \/ ForceFlush(t)
    \/ NothingToDo(t) \/ Unlock(t)

Next ==
    \/ \E t \in Threads : (\E f \in Op : Call(t, f)) \/ Step(t) \/ Back(t)
    \/ Application

Spec == Init /\ [][Next]_vars

(***************************************************************************)
(* A running thread makes progress, and the mutex (parking_lot) is handed  *)
(* over eventually: strong fairness of a thread's steps.  Nothing obliges  *)
(* the application to call or to record.                                   *)
(***************************************************************************)
Fairness == \A t \in Threads : SF_vars(Step(t))

FairSpec == Spec /\ Fairness

----------------------------------------------------------------------------
(* Properties. *)

Installing == {"tracers", "meters", "loggers", "metric_layers", "trace_layers",
               "log_layers", "commit"}

Uninstalling == {"shutdown", "drop_metrics", "drop_traces", "leave"}

Holding == Installing \cup Uninstalling \cup {"flush"}

\* The lock excludes: a thread is inside a function exactly when it is the holder.
TypeOK ==
    /\ mutex \subseteq Threads
    /\ conf \in Seq(Configs)
    /\ state \in 0 .. gen
    /\ inits \in 0 .. MaxInits
    /\ items \in 0 .. MaxItems
    /\ slots \in [traces : SUBSET Sink, metrics : SUBSET Sink,
                  logs : SUBSET (Sink \cup {Console})]
    /\ globals \in [tracer : SUBSET Sink, meter : SUBSET Sink]
    /\ readers \subseteq DOMAIN DefaultSlots
    /\ meter \subseteq Sink /\ instrument \subseteq Sink /\ down \subseteq Sink
    /\ work \in Seq(Sink)
    /\ pending \subseteq (1 .. items) \X Sink
    /\ due \in [Threads -> SUBSET ((1 .. items) \X Sink)]
    /\ pc \in [Threads -> Holding \cup {"idle", "lock", "returned"}]
    /\ op \in [Threads -> Op \cup {"none"}]
    /\ res \in [Threads -> {"none", "ok", "error"}]
    /\ \A t \in Threads : (t \in mutex) <=> (pc[t] \in Holding)
    /\ \A t, u \in mutex : t = u

\* While nobody is inside init or shutdown, an installed configuration has
\* exactly its own layers in the slots, whatever calls ran and failed before.
LayersMatchState ==
    state # 0 /\ mutex = {} => slots = LayersOf(state)

\* The global providers, which a new Meter binds to (runtime.rs, install), are
\* the first of the installed ones, not of an install that failed or was shut down.
GlobalsMatchState ==
    state # 0 =>
        /\ conf[state].traces > 0 => globals.tracer = First(state, "traces")
        /\ conf[state].metrics > 0 => globals.meter = First(state, "metrics")

\* No installed sink is ever shut down: only what uninstall took out of the state.
InstalledIsUp == state # 0 => SinksOf(state) \cap down = {}

\* A slot feeds a sink that was shut down only while the shutdown is running.
NoDeadLayer ==
    (\E slot \in DOMAIN slots : slots[slot] \cap down # {})
        => \E t \in mutex : pc[t] \in Uninstalling

\* "Gracefully flush pending data": what had been recorded for the installed
\* sinks when shutdown took them has been handled when it returns.
ShutdownCovers ==
    \A t \in Threads : op[t] = "shutdown" /\ pc[t] = "returned" => due[t] \cap pending = {}

\* The same for force_flush and the sinks that are OpenTelemetry providers.
FlushCovers ==
    \A t \in Threads : op[t] = "force_flush" /\ pc[t] = "returned" =>
        \A p \in due[t] \cap pending : p[2][2] = "sls"

\* lib.rs: "Force-flush traces, metrics and logs synchronously".
ForceFlushFlushesLogs ==
    \A t \in Threads : op[t] = "force_flush" /\ pc[t] = "returned" => due[t] \cap pending = {}

\* lib.rs: shutdown "tears down all providers". When it returns and nobody else is in
\* a call, no layer feeds a provider and none that is up is the global one.
ShutdownTearsDownAll ==
    \A t \in Threads :
        op[t] = "shutdown" /\ pc[t] = "returned" /\ (\A u \in Threads \ {t} : pc[u] = "idle")
            => slots = DefaultSlots /\ globals.tracer \cup globals.meter \subseteq down

\* Nobody stays in the callbacks of a slot's layers for ever: what LayerSlot shows
\* (SwapsEnd) of callbacks that do not read-lock their slot again behind a writer.
SlotsAreLeft == \A slot \in DOMAIN DefaultSlots : []<>(slot \notin readers)

\* The state mutex is held across replacements, which wait for the readers of a slot
\* (runtime.rs, replace): where these leave, every call returns, whoever else calls.
CallsReturn ==
    SlotsAreLeft => \A t \in Threads : (pc[t] = "lock") ~> (pc[t] = "returned")

\* The three functions are linearizable.
CallOf(t) == op[t]
OutcomeOf(t) == IF pc[t] \in Uninstalling \cup {"returned"} THEN res[t] ELSE "none"

Service == INSTANCE Lifecycle
    WITH running <- state # 0,
         call    <- [t \in Threads |-> CallOf(t)],
         outcome <- [t \in Threads |-> OutcomeOf(t)]

ServiceSpec == Service!Spec
============================================================================
