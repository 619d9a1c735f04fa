# pytracingx: specifications, checks and proofs

TLA+ specifications of pytracingx (a Python extension in Rust that sends traces, metrics and
logs to OpenTelemetry collectors and to Aliyun SLS), with the TLC runs that check them on small
instances and the TLAPS proofs that hold for all instances. Paths are relative to the repository;
unqualified `.rs` files are in `rust/src/`.

## 1. The system

| Component | State | Operations | Interacts with |
|---|---|---|---|
| Runtime lifecycle (`runtime.rs`, `lib.rs`) | `Global`: the state mutex and in it the handles of the installed sinks; the global tracer and meter provider | `init` (resolve, `install`), `shutdown` (`uninstall`), `force_flush`, each called from any Python thread with the GIL released | builds exporters and providers, swaps the layers of the slots, starts and stops SLS writers |
| Layer slots (`runtime.rs`: `SwappableLayers`) | three `RwLock<Vec<Layer>>`: logs, metrics, traces; a filter each | `replace`; the callbacks of `tracing` and `downcast_raw`, which read | every span and event of the process passes through; layers come back into the slots for a span's context |
| SLS log writer (`sls_log.rs`) | an unbounded queue, a batch, a one-slot shutdown channel, a done channel | layer: `on_event`; task: `background_writer`, `flush_batch`; handle: `flush_and_shutdown` | fed by the log slot, uploads through the SLS client, stopped by `uninstall` or by the drop of its ends |
| Trace context (`traces.rs`, `context.rs`) | one `contextvars` variable per asyncio task; a span and a token in every `Span`, a token in every `ExtractedContext` | `start_span`, `end`/`__exit__`, `extract_headers`, `restore`, `restore_context`, garbage collection | the trace slot gives spans their context; asyncio copies contexts |
| Configuration (`config.rs`) | immutable sinks and `Config` | constructors validate, `resolve` parses | its result is what `install` builds from |
| Exporters (`exporters.rs`, `sls.rs`) | none | build an exporter, TLS, metadata, resource | called by `install` |
| Metrics API (`metrics.rs`) | a `Meter` bound to the global provider of the moment, instruments bound to their `Meter`'s | `get_meter`, four kinds of instruments, `add`/`record` | OpenTelemetry SDK |
| Logger API (`logs.rs`) | none | a method per level, `emit_log_record`; one event per call | the log slot |
| Logging bridge (`python/pytracingx/logging.py`) | the level of a `logging.Logger` | `emit`, `install` | `emit_log_record` |

What is hard in it:

* **Concurrency.** Calls of the three lifecycle functions race with each other (they release the
  GIL) and with threads that record; the writer's `select!` races its arms, and all the rest runs
  while an upload is awaited.
* **Partial failure.** `install` returns early with `?` after it has changed global state; a
  failed upload loses its entries and logs a warning into the queue it came from.
* **Ordering.** Shutdown has to drain what was queued before it; layers are swapped after their
  providers are shut down; tokens restore what was current when they were made.
* **Waiting.** `uninstall` blocks on the writer while holding the state mutex; `replace` waits for
  the readers of a slot, and new readers wait for it, those included that come back into a slot
  they are reading.
* **Lifetime.** Layers are dropped by `replace` while other threads run through them or hold a
  pointer into them.
* **Boundaries.** A record's severity is mapped twice, and compared by each filter and by the SLS layer.

`hazards` in `PROJECT.json` lists each at its line, with the properties about it.

## 2. Modules

| Module | What it is |
|---|---|
| `SlsWriter` | one SLS sink: layer, writer, handle. `MCSlsWriter` adds the one legitimate end state so that TLC can check deadlock |
| `LogChannel` | what such a sink promises: accept in order, settle from the front, close only when all that was accepted before the request is settled |
| `Runtime` | `install`, `uninstall`, `force_flush` with the mutex, the slots and the globals, beside threads that record and processors that export. `MCRuntime` has the configurations for TLC |
| `Lifecycle` | the three functions as atomic operations on one Boolean: a call starts, takes effect once, and finishes |
| `SpanContext` | the context variable of several tasks, spans and extracted contexts; for any program (`Spec`), and for one that uses `with` (`NestedSpec`) |
| `LayerSlot` | the three slots with their locks: callbacks, nested lookups, `replace`. `MCLayerSlot` has the configuration for TLC |
| `LayerTable` | what the slots promise to what passes through them: all the layers of the slot, first to last; an exchange is one step, while nobody passes |
| `Severity` | the levels of `logging`, the severity numbers, the levels of `tracing`, and what compares them; operators only, used by `LayerSlot` |
| `Config` | constructors, list, `resolve`, pipelines |
| `*Proofs` | the theorems about the module of that name |

`SlsWriter` implements `LogChannel`, `Runtime` implements `Lifecycle` and `LayerSlot` implements
`LayerTable`, each by `INSTANCE .. WITH`, checked as a property and proved. `Runtime` uses an SLS sink as `LogChannel` describes it (one
`ShutdownSink` step after which nothing is pending), so the two compose without the writer's states
being multiplied into the runtime's. In the same way `Runtime` replaces a slot in one step, which
waits while the slot is read, and `LayerSlot` is that step in detail, where `LayerTable` says that it
is one step to all who see it: its `StartInstall`, `FailInstall` and `StartUninstall` take from
`Runtime` that calls are exclusive and in which order they replace the slots. `Config` ends where
`Runtime` starts: a resolved configuration is in `Runtime` the number of its sinks of each kind.

Definitions named "Mutated form" are small bugs: each property of a passing run is violated when
the definition they stand before is replaced by its mutated form (`mutants` in `PROJECT.json`).

### SlsWriter

`queue` is the channel, `batch` the writer's `Vec`, `group` the `LogGroup` being uploaded, `writer`
where the task is: in `select!`, in the `try_recv` loop, awaiting `put_logs`, about to warn, about
to send `done`, gone. Each arm of `select!` is an action (`Recv`, `RecvClosed`, `Tick`, `Shutdown`),
guarded by what makes the arm ready. `Flush` is `flush_batch` up to its await; `PutOk` and `PutFail`
end it, and a failure is followed by `Warn`, whose event goes through the layer into the same
queue. `after` is where `flush_batch` returns to. The timer of `Tick` is abstracted to "at any
time". `FlushAndShutdown` and `Return` are the two halves of the blocking call; `AbortLayer` and
`AbortHandle` are the drops, in Rust's order, when `install` fails after creating the sink.
`accepted`, `settled`, `stored` and `mark` are history.

### Runtime

A call is a sequence of steps of one thread: between any two of them all other threads run. `pc`
names the statement that comes next, `mutex` is `Global.state`'s lock, `state` its content (0 is
`None`). A build that fails (`BuildFails`) takes the `?`: the lock is released, and what was set
stays set. A sink is `<<install, kind, index>>`, so that sinks of different installs are never
confused; layers are the sinks they feed, and `Console`. `pending` holds the pairs of item and sink
that have been recorded and not exported; `Export` is the sinks' own schedule. `due` is history:
what was pending for the installed sinks when the call took the lock. An exporter that drops an
item (a full queue, a failing collector) counts as having handled it: nothing in this code promises
delivery. `meter` is the provider a `Meter` was bound to, `instrument` the one of an instrument made
with it, which does not follow later changes of the global one. `readers` are the slots whose lock
is held for reading: `Replace` waits for them as `RwLock::write` does, with the state mutex held. A
reader is shown where a replacement waits for its slot (`ReadersIn`) and nowhere else, since it
is in nobody's way there; a callback that is in nobody's way is one step (`Record`). Readers come and
go as they like, and need never leave: who they are and why they leave is `LayerSlot`. What a provider
does when it is dropped, as those of a failed `install` are, is not modelled: `down` has the sinks
that `uninstall` shuts down.

### LayerSlot

A thread's callback goes through the slots in the subscriber's order (`Order`). In each it is
filtered (`Skip`; only `on_new_span` and `on_event` look at the filter, and before they lock), or
reads: `Read` takes the guard, `Each` calls the next layer, `Done` drops the guard. `view` is what
the guard refers to. `LooksUp` is the SLS layer's call of `Span::current().context()`, which the
subscriber answers with `downcast_raw` on each slot in turn (`Peek`); a thread with no current span
asks nobody, so only the threads in `Spanned` come here: those of the runtime that poll an HTTP or
gRPC client inside of a span of its own. Python's spans are never entered. `StartLookup` is the same from outside of a callback, as
`start_span` and the methods of `Span` do. `ptr` is what `downcast_raw` returned, used by `Deref`
after the guard has gone. `replace` is three steps: it queues (`Request`), gets the lock (`Lock`),
and drops the old layers while it has it (`Replace`). That new readers wait behind a writer that
waits (`Admits`) is what std's `RwLock` does on Linux; the lock is external. The GIL is not in the
model: threads that hold it cannot interleave with each other, but the threads of the runtime, and
those in `init` and `shutdown`, do not hold it. What providers do when they are dropped is not
modelled (`Replace` is one step).

### Severity

A level of `logging` is an integer; `SeverityFor` gives the number and text of `_severity_for`,
`SeverityToLevel` the level of the event, `Enabled` is a slot's filter (one level: `RUST_LOG` with
targets is not modelled) and `SlsForwards` the SLS layer's. The levels of `tracing` are numbered
from the most verbose.

### SpanContext

A handle is a `Span` or an `ExtractedContext`; `cv[t]` is the handle whose context is in task `t`'s
variable. `held` says whether the handle still has its token, `open` whether it still has its span.
`Reset` is `ContextVar.reset`, which raises in another Context than the one that made the token: the
exception leaves the variable alone, and the handle has by then lost both token and span. The
object of a failed `start_span` (an attribute that does not convert) never pushes. `inherited` is
history: the value copied at the creation of the task. `restore_context` (`traces.rs:375`) is not an
action: it resets the variable with a token that its caller passes, and no function of the package
returns one (`extract_headers` keeps it in the `ExtractedContext`, which has no attribute for it); with
anything else as an argument the reset raises and changes nothing.

### Config

A sink is the record of its constructor's arguments. Strings are members of small sets with one
that the parser does not know; numeric knobs are given or not. `NewConfig` checks name and `console_format`, `SortSink` is one turn
of the loop in `PyConfig::new`, `Resolve` is `resolve` with its second check of all that is parsed,
`Build` one exporter and provider. A sink's constructor that raises has no effect and is not a step.
An endpoint without a host and headers that do not convert are accepted by all of these, and
fail an `init` in `BuildFails`.

## 3. Runs

| Run | Bounds | Shows |
|---|---|---|
| `SlsWriter` | 2 messages, batch of 2, 4 emissions, 1 failed upload | conservation and order, drained at return, batch bound, implements `LogChannel`, the drain is no loop, shutdown returns, entries settle, no orphan writer, no deadlock |
| `Runtime` | 2 threads, 2 inits, 1 item, a configuration with all kinds of sinks (two for traces, two for SLS) and a console-only one | layers and global providers match state, installed sinks are up, no dead layers, coverage of shutdown and flush, implements `Lifecycle`, every call returns where readers leave, no deadlock |
| `LayerSlot` | 2 threads, one inside of a span, 3 calls of `init` and `shutdown`, 4 levels, 2 callbacks (a filtered and an unfiltered one) | guards exclude, no layer dropped in use, implements `LayerTable`, filter agrees, who waits for whom, callbacks and replacements end |
| `SpanContextAny` | 3 tasks, 3 handles | isolation; spans end with their tokens |
| `SpanContextNested` | 3 tasks, 3 handles, `with` discipline | innermost context, live parents |
| `ConfigPipelines` | lists of up to 2 objects, with a name or none, 3 formats | built configurations resolve; one pipeline per sink, as asked |
| `RuntimeForceFlush`, `RuntimeTearDown`, `SpanContextForgotten`, `ConfigKnobs`, `LayerSlotBlocks`, `LayerSlotDangling` | as above, one sink for `ConfigKnobs` | the disagreements of section 5 |

Why the bounds are enough for what they are for: with a batch of 2 and 4 emissions the batch fills
twice, is flushed partly filled, and the drain finds more than a batch; one failure puts a warning
into the queue (two do not differ but in time). Two threads and two inits give a second init during,
after and between shutdowns, and a re-init after a failure; a third thread or a second item was run
too, for the invariants (no error), and adds time only. Two trace and two SLS sinks tell "every sink"
from "the first of its kind". Three tasks are a parent, a child and a grandchild or sibling;
three handles allow non-nested ending orders. Two sinks of every kind and pair of kinds show any
confusion of order. In `LayerSlot` two threads are a reader and one that comes back while the other
waits; three calls replace a configured slot by the default and by a configuration again, with a
failing `init` between; the levels are both sides of INFO, where filter and SLS layer cut, and the
two ends. The proofs of section 4 remove the bounds for most safety properties.

**Fairness.** In `SlsWriter`: tokio polls runnable tasks and `select!` picks among ready arms at
random, hence strong fairness of each arm; the loop and the code after it are weakly fair; an
upload is assumed to end, one way or the other (the client's timeouts are its own). The owner's
steps after a failed `install` or a finished wait are weakly fair: they follow without a
condition. Nobody has to emit or to call shutdown. In `Runtime`: strong fairness of a thread's
steps, because parking_lot's mutex hands the lock over eventually; nobody has to call. The two
liveness results have limits: `ShutdownReturns` depends on finitely many emissions, as the drain
loop has no bound of its own. `CallsReturn` depends on two things. A replacement is made with the
mutex held and waits for the slot's readers, so that the property is about the behaviours in which
no slot is read for ever (`SlotsAreLeft`); strong fairness lets the replacement in between two
readers, as a waiting writer of `LayerSlot` gets in (`SwapsEnd`). `LayerSlotBlocks` is a behaviour
of the code in which readers do not leave, and there the calls do not return either. And
`ShutdownSink` is a step that ends: for an SLS sink that is `ShutdownReturns`, for a provider it is
the SDK's to end.

In `LayerSlot`: weak fairness of each thread's steps and of `replace`'s: whoever can go on does, and
a lock that is free is taken in the end. Weak fairness is enough, as the calls of `init` and
`shutdown` are finitely many (`MaxSwaps`) and a waiting writer keeps new readers out. `CallsEnd` and
`SwapsEnd` are about the behaviours in which no thread is stuck in reading a slot again
(`ReentryEnds`); that it can be stuck is `LayerSlotBlocks`.

Deadlock is not checked in the `Config` runs, as the process of starting up ends, nor in the
`LayerSlot` runs, as the system really may stop there: by that re-entrant read.

## 4. Proofs

All hold for every value of the constants (under the assumptions named in the modules, which only
type the bounds and ask for a batch size above 0). Every invariant and every action property that a
run checks is stated by a theorem, and so are the three refinements.

**`SlsWriterProofs`, `LogChannelProofs`.** `TypeCorrect`, `Conserved` and `UploadsBounded` follow
from `BatchInv`: types, the concatenation invariant, and that in `select` the batch is below the
batch size. `ReturnsDrained` needs `ShutdownInv`, which follows the request through the phases: what
was accepted before `mark` is settled once the writer is past its drain. `ImplementsChannel` is the
step simulation under these invariants. `PromisesKept` is about every channel: it settles in the
order of acceptance, stores nothing twice, and is closed after a request only with everything
settled that came before it. That `stored` is picked from `settled` is stated by the function that
finds each entry's place; `PickMore` extends it with each group. `SinkKeepsPromises` carries the
three over to the sink, through the refinement alone. `WriterEnds` is the safety part of the end of
a shutdown: once it drains, each step of the writer decreases `StepsLeft`, and only what other
threads queue meanwhile raises it.

**`RuntimeProofs`.** `TypeCorrect` includes mutual exclusion. `LayersCorrect` is not inductive: the
invariant `LayersInv` says for each program point of `install` and `uninstall` which slots have been
replaced already. `GlobalsCorrect` needs `GlobalsInv`: at which points of `install` the providers
that are going to be installed are the global ones already. `InstalledUp` needs `DownInv`: only
sinks of installs that were taken out of the state are down or still to be shut down. `Linearizable`
is the refinement of `Lifecycle`; the linearization points are `InstallCommit`, the failing step or
check, `UninstallLock`, `NothingToDo` and the release of `force_flush`, and `CallInv` ties the
outcome to the function. `NoLayerDead` needs `DeadInv`: which slots may feed sinks that are down, at
each program point of `uninstall`. `ShutdownCovered` and `FlushCovered` need `CoverInv`: what is due
and still pending belongs to a sink that is still in `work`. `TornDownIfBuilt` is about `BuildsSpec`,
the behaviours in which no build fails: there shutdown does tear down all, so that what
`RuntimeTearDown` finds is due to failed builds only; `TearInv` says that a global provider that runs
is installed, being installed, or still to be shut down. `CallsTerminate` numbers the program points
(`Phase`): each step of a call decreases the number or the length of `work`, and no other thread
takes that back.

**`LayerSlotProofs`.** `TypeCorrect` is the conjunction of four invariants: types of the slots, the
place of each thread (`at`, `look` and `pc` agree), types of the threads' data, and `LockInv`: the
readers of a slot are the threads in its loop, and none is there while it is written. `FilterAgreed`
is about single states and rests on `BridgeLevels`. `NeverUsedAfterDrop` needs that layers are
numbered by the call that made them (`FreshInv`: what is in a slot is not among the dropped, and what
the next call makes is new) and that a reader's `view` is the slot (`ViewInv`). `ImplementsTable`
needs these and `PosInv`, a thread's place in its loop; `Read`, `Each`, `Done` and `Replace` are the
four steps of the table, all others stutter. `OnlyReentryBlocks` says that whoever waits for a slot
waits for a writer that can go on, or for a reader that can, or for one that is reading again what it
reads already; `OnlySpannedReenter` says which threads that can be (`LookupInv`: a lookup from inside
of a slot is the SLS layer's), and `NoDeadlockWithoutReentry` concludes that without spans of the
threads' own, or without an SLS sink, nobody is ever stuck. So `LayerSlotBlocks` shows the only
deadlock there is among the slots.

**`SeverityProofs`.** Facts about the mappings for every integer; `SeverityMatchesModel` compares the
arms of the match with the data model's rule of four numbers for each level, `InstallServesAll` is
the step of an induction over `install` calls on one logger, in any order.

**`SpanContextProofs`.** `Isolated` needs `TokenInv`: a token restores what its task inherited or
pushed. `Innermostly` and `ParentsLive` are about `NestedSpec` and need `StackInv`: the tokens of a
task form a stack. For `Spec` neither holds: `SpanContextForgotten` is one way to break them.

**`ConfigProofs`.** `BuiltResolves` says that `resolve` refuses nothing the constructors let through,
not that `init` succeeds: building may still fail. It needs `SortedInv`: what is in a Config went
through its constructor. `InstalledListed` needs `ListedInv`, for lists of any length: the sinks sorted so far have
their places in the list, no place twice or left out, and of one kind in order (`Arranges`, which
`ArrangeOne` extends by a turn of the sorting loop and `Merge` by a whole kind); and what has been
built so far is a pipeline as asked for each. `OnlyOtlpLosesKnobs` follows: of
all kinds of sinks only `OtlpLogSink` loses knobs, as `ConfigKnobs` shows.

Model-checked only: the liveness properties (`ShutdownReturns`, `EventuallySettled`, `NoOrphanWriter`,
`CallsReturn`, `CallsEnd`, `SwapsEnd`), which speak of fairness and so of `ENABLED`, out of this
prover's reach; `WriterEnds`, `CallsTerminate` and `OnlyReentryBlocks` are what safety there is in
three of them. The violations are TLC's as well, by their nature.

## 5. Where the code and its documentation disagree

1. `force_flush` is documented to flush logs (`lib.rs:33`) and does not flush SLS sinks
   (`RuntimeForceFlush`).
2. An `init` that fails after it has set a global provider leaves it there, and a later failure
   leaves its layers behind as well; `shutdown`, documented to tear down all providers (`lib.rs:26`),
   returns without touching them (`RuntimeTearDown`).
3. A log record need not get through, although the handler is documented to be non-blocking
   (`logging.py:54`): when the SLS layer looks up the current span, its thread reads the log slot a
   second time, and with `init` or `shutdown` waiting for that slot in between, that thread, the
   call and every other thread that logs wait for ever (`LayerSlotBlocks`). It needs a
   record at INFO or above from a thread inside of an entered `tracing` span: not Python's, which
   are never entered, but one of the Rust libraries that export.
4. `downcast_raw` is said to be forwarded properly (`runtime.rs:35`); the pointer it returns is into
   a layer that only the read guard kept, and the guard is gone when the caller uses it
   (`LayerSlotDangling`).
5. A forgotten `ExtractedContext` is not cleaned up (comment at `traces.rs:369`,
   `SpanContextForgotten`).
6. The batch knobs of an `OtlpLogSink` never reach the SDK (comment at `config.rs:133`,
   `ConfigKnobs`).

## 6. Not modelled, and what is left

Not modelled, and why:

* Formatting and content of spans and logs (attributes, events, status, protobuf): data that no
  step of the code decides on. Header conversion and resource attributes (`sls.rs`) are the same;
  which of two headers that differ in case only wins is the order of a hash map.
* Numeric values of knobs: handed over as given; whether they are handed over is `Config`.
* The SDK's processors beyond "exports or drops at some time", what they do when they are dropped,
  and what a trace layer keeps in a span's extensions: external code.
* The bridge's collection of a record's attributes, and the detaching of handlers.
* Type stubs, re-exports and the error type: no behaviour.

Left to do:

1. `Runtime` composed with several `SlsWriter`s, to check the abstraction of `ShutdownSink` against
   the writers themselves: `uninstall` stops one after the other, while the warning of one goes into
   the queues of all.
2. A global provider that outlives a failed `init` while the next configuration has none of its kind:
   `GlobalsMatchState` is about the kinds that the configuration has, and `ShutdownTearsDownAll` about
   the time after a shutdown; no document says which provider serves then.
3. `RUST_LOG` with targets, which the filters accept, and spans that a filter takes out (a span is at
   INFO, so that a filter above INFO takes out all spans with the logs).
