----------------------------- MODULE LayerSlot -----------------------------
(***************************************************************************)
(* The three SwappableLayers of the subscriber (rust/src/runtime.rs): each *)
(* is a vector of layers behind an RwLock.  Every span and event of the    *)
(* process passes through them, on whatever thread; meanwhile init and     *)
(* shutdown, one at a time under the state mutex, replace the vectors.     *)
(*                                                                         *)
(* A thread may come back into the slots from inside of a layer: the SLS   *)
(* layer looks up the current span's context (rust/src/sls_log.rs), and    *)
(* the subscriber asks the slots for it with downcast_raw.                 *)
(***************************************************************************)
EXTENDS Severity, Sequences, FiniteSets

CONSTANTS Callers,    \* the threads that record: Python's, and the runtime's own
          Spanned,    \* those of them inside of a tracing span (of an HTTP client)
          Levelnos,   \* the levels that the records of Python's logging have
          Configured, \* the kinds of layers that init puts into each slot
          Filter,     \* the least severe level that RUST_LOG lets through
          Callbacks,  \* the callbacks of Layer that the spans and events cause
          MaxSwaps    \* bound: calls of init and shutdown

Slot == {"logs", "metrics", "traces"}
Kind == {"fmt", "otlp", "sls", "metric", "trace"}

ASSUME SlotAssumption ==
    /\ Spanned \subseteq Callers
    /\ Levelnos \subseteq Nat
    /\ Configured \in [Slot -> Seq(Kind)]
    /\ Filter \in Level
    /\ Callbacks \subseteq {"on_new_span", "on_record", "on_follows_from", "on_event",
                            "on_enter", "on_exit", "on_close"}
    /\ MaxSwaps \in Nat

VARIABLES inner,     \* the layers in each slot
          readers,   \* the threads that hold a read guard of each slot
          freed,     \* the layers that have been dropped
          plan,      \* the slots that init or shutdown still has to replace
          swap,      \* where it is: "idle", waiting for the write guard, holding it
          installed, \* do the vectors it puts in come from a configuration
          swaps,     \* bound: calls so far; also numbers the layers
          pc,        \* where each thread is
          callback,  \* the callback it is in
          levelno,   \* the level, as one of logging's, of its span or event
          at,        \* the slot it is in, as an index of Order; 0 outside
          view,      \* the vector its read guard refers to
          next,      \* the index of the layer it calls next
          look,      \* the slot its downcast_raw is in, as an index of Order
          ptr        \* what downcast_raw gave it: a set of at most one layer

slots   == <<inner, readers, freed>>
swapper == <<plan, swap, installed, swaps>>
callers == <<pc, callback, levelno, at, view, next, look, ptr>>
vars    == <<slots, swapper, callers>>

\* The order of the slots in the subscriber.
Order == <<"logs", "metrics", "traces">>

\* The layers made for a slot by the n-th call.
Layers(n, slot, kinds) == [i \in 1 .. Len(kinds) |-> <<n, slot, i, kinds[i]>>]

Elements(seq) == {seq[i] : i \in 1 .. Len(seq)}

\* What init_default and shutdown put into a slot.
Default(slot) == IF slot = "logs" THEN <<"fmt">> ELSE <<>>

Init ==
    /\ inner = [slot \in Slot |-> Layers(0, slot, Default(slot))]
    /\ readers = [slot \in Slot |-> {}]
    /\ freed = {}
    /\ plan = <<>>
    /\ swap = "idle"
    /\ installed = FALSE
    /\ swaps = 0
    /\ pc = [t \in Callers |-> "idle"]
    /\ callback = [t \in Callers |-> "none"]
    /\ levelno = [t \in Callers |-> Std.info]
    /\ at = [t \in Callers |-> 0]
    /\ view = [t \in Callers |-> <<>>]
    /\ next = [t \in Callers |-> 0]
    /\ look = [t \in Callers |-> 0]
    /\ ptr = [t \in Callers |-> {}]

----------------------------------------------------------------------------
(* The lock. *)

Writing(slot) == plan # <<>> /\ Head(plan) = slot /\ swap = "writing"
Waiting(slot) == plan # <<>> /\ Head(plan) = slot /\ swap = "waiting"

\* Mutated form: readers overtake a writer that waits.
AdmitsBeforeWriter(slot) == ~Writing(slot)

\* Mutated form: readers do not wait for anybody.
AdmitsAlways(slot) == slot \in Slot

\* RwLock::read: std's lock lets no new reader in while a writer waits.
Admits(slot) == ~Writing(slot) /\ ~Waiting(slot)

----------------------------------------------------------------------------
(* The callbacks. *)

\* A callback goes on with the next slot, or is over.
Advance(t) ==
    IF at[t] < Len(Order)
    THEN /\ at' = [at EXCEPT ![t] = at[t] + 1]
         /\ pc' = [pc EXCEPT ![t] = "read"]
         /\ UNCHANGED <<callback, levelno>>
    ELSE /\ at' = [at EXCEPT ![t] = 0]
         /\ pc' = [pc EXCEPT ![t] = "idle"]
         /\ callback' = [callback EXCEPT ![t] = "none"]
         /\ levelno' = [levelno EXCEPT ![t] = Std.info]

\* A span or an event reaches the subscriber. An event is a record of logging (or
\* what a Logger's method of that name emits); a span is at INFO, as py_span is.
Dispatch(t) ==
    /\ pc[t] = "idle"
    /\ \E c \in Callbacks :
          /\ callback' = [callback EXCEPT ![t] = c]
          /\ IF c = "on_event"
             THEN \E a \in Levelnos : levelno' = [levelno EXCEPT ![t] = a]
             ELSE UNCHANGED levelno
    /\ at' = [at EXCEPT ![t] = 1]
    /\ pc' = [pc EXCEPT ![t] = "read"]
    /\ UNCHANGED <<slots, swapper, view, next, look, ptr>>

\* The level of the tracing event.
EventLevel(t) == BridgeLevel(levelno[t])

\* Only these two callbacks look at the filter, and do so before they lock.
FilteredOut(t) ==
    callback[t] \in {"on_new_span", "on_event"} /\ ~Enabled(EventLevel(t), Filter)

Skip(t) ==
    /\ pc[t] = "read" /\ FilteredOut(t)
    /\ Advance(t)
    /\ UNCHANGED <<slots, swapper, view, next, look, ptr>>

\* self.inner.read()
Read(t) ==
    /\ pc[t] = "read" /\ ~FilteredOut(t)
    /\ LET slot == Order[at[t]]
       IN  /\ Admits(slot)
           /\ readers' = [readers EXCEPT ![slot] = @ \cup {t}]
           /\ view' = [view EXCEPT ![t] = inner[slot]]
    /\ next' = [next EXCEPT ![t] = 1]
    /\ pc' = [pc EXCEPT ![t] = "each"]
    /\ UNCHANGED <<inner, freed, swapper, callback, levelno, at, look, ptr>>

\* The SLS layer, for an event it forwards, asks for the context of the current
\* span; without one it asks nobody.
LooksUp(t, layer) ==
    /\ layer[4] = "sls" /\ callback[t] = "on_event"
    /\ SlsForwards(EventLevel(t))
    /\ t \in Spanned

\* The next layer's callback.
Each(t) ==
    /\ pc[t] = "each" /\ next[t] <= Len(view[t])
    /\ next' = [next EXCEPT ![t] = next[t] + 1]
    /\ IF LooksUp(t, view[t][next[t]])
       THEN /\ pc' = [pc EXCEPT ![t] = "lookup"]
            /\ look' = [look EXCEPT ![t] = 1]
       ELSE UNCHANGED <<pc, look>>
    /\ UNCHANGED <<slots, swapper, callback, levelno, at, view, ptr>>

\* Mutated form: the guard outlives the loop.
DoneHolding(t) ==
    /\ pc[t] = "each" /\ next[t] > Len(view[t])
    /\ view' = [view EXCEPT ![t] = <<>>]
    /\ next' = [next EXCEPT ![t] = 0]
    /\ Advance(t)
    /\ UNCHANGED <<slots, swapper, look, ptr>>

\* The read guard is dropped at the end of the loop.
Done(t) ==
    /\ pc[t] = "each" /\ next[t] > Len(view[t])
    /\ LET slot == Order[at[t]]
       IN  readers' = [readers EXCEPT ![slot] = @ \ {t}]
    /\ view' = [view EXCEPT ![t] = <<>>]
    /\ next' = [next EXCEPT ![t] = 0]
    /\ Advance(t)
    /\ UNCHANGED <<inner, freed, swapper, look, ptr>>

----------------------------------------------------------------------------
(* The context of a span. *)

\* Outside of any callback: start_span and the methods of PySpan.
StartLookup(t) ==
    /\ pc[t] = "idle"
    /\ pc' = [pc EXCEPT ![t] = "lookup"]
    /\ look' = [look EXCEPT ![t] = 1]
    /\ UNCHANGED <<slots, swapper, callback, levelno, at, view, next, ptr>>

\* The lookup is over; where it came from goes on.
Resume(t) ==
    /\ pc' = [pc EXCEPT ![t] = IF at[t] = 0 THEN "idle" ELSE "each"]
    /\ look' = [look EXCEPT ![t] = 0]

TraceLayers(slot) ==
    {inner[slot][i] : i \in {j \in DOMAIN inner[slot] : inner[slot][j][4] = "trace"}}

\* downcast_raw of one slot: lock, look for the first layer that answers, unlock.
Peek(t) ==
    /\ pc[t] = "lookup"
    /\ LET slot == Order[look[t]]
       IN  /\ Admits(slot)
           /\ \/ \E layer \in TraceLayers(slot) :
                    /\ \A other \in TraceLayers(slot) : layer[3] <= other[3]
                    /\ ptr' = [ptr EXCEPT ![t] = {layer}]
                    /\ pc' = [pc EXCEPT ![t] = "deref"]
                    /\ look' = [look EXCEPT ![t] = 0]
              \/ /\ TraceLayers(slot) = {} /\ look[t] < Len(Order)
                 /\ look' = [look EXCEPT ![t] = look[t] + 1]
                 /\ UNCHANGED <<pc, ptr>>
              \/ /\ TraceLayers(slot) = {} /\ look[t] = Len(Order)
                 /\ Resume(t)
                 /\ UNCHANGED ptr
    /\ UNCHANGED <<slots, swapper, callback, levelno, at, view, next>>

\* The layer behind the pointer is called.
Deref(t) ==
    /\ pc[t] = "deref"
    /\ ptr' = [ptr EXCEPT ![t] = {}]
    /\ Resume(t)
    /\ UNCHANGED <<slots, swapper, callback, levelno, at, view, next>>

----------------------------------------------------------------------------
(* init and shutdown: one at a time, by Global.state's mutex (see Runtime). *)

\* install, once every provider has been built.
StartInstall ==
    /\ plan = <<>> /\ ~installed
    /\ swaps < MaxSwaps
    /\ plan' = <<"metrics", "traces", "logs">>
    /\ installed' = TRUE
    /\ swaps' = swaps + 1
    /\ UNCHANGED <<slots, swap, callers>>

\* An SLS client cannot be built: the log layers are not replaced any more.
FailInstall ==
    /\ plan = <<"logs">> /\ swap = "idle" /\ installed
    /\ plan' = <<>>
    /\ installed' = FALSE
    /\ UNCHANGED <<slots, swap, swaps, callers>>

\* uninstall, once every sink has been shut down.
StartUninstall ==
    /\ plan = <<>> /\ installed
    /\ swaps < MaxSwaps
    /\ plan' = <<"logs", "metrics", "traces">>
    /\ installed' = FALSE
    /\ swaps' = swaps + 1
    /\ UNCHANGED <<slots, swap, callers>>

\* self.inner.write(): the writer queues ...
Request ==
    /\ plan # <<>> /\ swap = "idle"
    /\ swap' = "waiting"
    /\ UNCHANGED <<slots, plan, installed, swaps, callers>>

\* Mutated form: the vector is swapped under the readers.
LockAtOnce ==
    /\ swap = "waiting"
    /\ swap' = "writing"
    /\ UNCHANGED <<slots, plan, installed, swaps, callers>>

\* ... and gets the lock when the last reader has left.
Lock ==
    /\ swap = "waiting" /\ readers[Head(plan)] = {}
    /\ swap' = "writing"
    /\ UNCHANGED <<slots, plan, installed, swaps, callers>>

\* *guard = layers: the old layers are dropped under the lock.
Replace ==
    /\ swap = "writing"
    /\ LET slot == Head(plan)
           kinds == IF installed THEN Configured[slot] ELSE Default(slot)
       IN  /\ inner' = [inner EXCEPT ![slot] = Layers(swaps, slot, kinds)]
           /\ freed' = freed \cup Elements(inner[slot])
    /\ plan' = Tail(plan)
    /\ swap' = "idle"
    /\ UNCHANGED <<readers, installed, swaps, callers>>

----------------------------------------------------------------------------
Step(t) == Skip(t) \/ Read(t) \/ Each(t) \/ Done(t) \/ Peek(t) \/ Deref(t)

Swapping == Request \/ Lock \/ Replace

Next ==
    \/ \E t \in Callers : Dispatch(t) \/ StartLookup(t) \/ Step(t)
    \/ StartInstall \/ FailInstall \/ StartUninstall \/ Swapping

Spec == Init /\ [][Next]_vars

(***************************************************************************)
(* Threads run: one that can go on, or that waits for a lock that is free, *)
(* does so in the end.  Nothing obliges anybody to record, to init or to   *)
(* shut down.                                                              *)
(***************************************************************************)
Fairness == WF_vars(Swapping) /\ \A t \in Callers : WF_vars(Step(t))

FairSpec == Spec /\ Fairness

----------------------------------------------------------------------------
(* Properties. *)

Layer == Nat \X Slot \X Nat \X Kind

\* The slots whose read guard a thread holds, by where it is.
Holds(t) == IF at[t] = 0 \/ pc[t] = "read" THEN {} ELSE {Order[at[t]]}

\* A slot's readers are the threads in its loop, and a writer excludes them.
TypeOK ==
    /\ inner \in [Slot -> Seq(Layer)]
    /\ readers \in [Slot -> SUBSET Callers]
    /\ freed \subseteq Layer
    /\ plan \in Seq(Slot)
    /\ swap \in {"idle", "waiting", "writing"}
    /\ installed \in BOOLEAN
    /\ swaps \in 0 .. MaxSwaps
    /\ pc \in [Callers -> {"idle", "read", "each", "lookup", "deref"}]
    /\ callback \in [Callers -> Callbacks \cup {"none"}]
    /\ levelno \in [Callers -> Nat]
    /\ at \in [Callers -> 0 .. Len(Order)]
    /\ view \in [Callers -> Seq(Layer)]
    /\ next \in [Callers -> Nat]
    /\ look \in [Callers -> 0 .. Len(Order)]
    /\ ptr \in [Callers -> SUBSET Layer]
    /\ swap # "idle" => plan # <<>>
    /\ \A t \in Callers, slot \in Slot : t \in readers[slot] <=> slot \in Holds(t)
    /\ \A slot \in Slot : Writing(slot) => readers[slot] = {}

\* While a thread goes through the layers of a slot, none of them is dropped, and
\* they are the slot's layers to the end: it never mixes two configurations.
NoUseAfterDrop ==
    \A t \in Callers : \A slot \in Holds(t) :
        Elements(view[t]) \cap freed = {} /\ view[t] = inner[slot]

\* The slots as LayerTable sees them: a thread passes through the one it has a guard of.
Within == [t \in Callers |-> Holds(t)]
Called == [t \in Callers |-> IF Holds(t) = {} THEN 0 ELSE next[t] - 1]

Table == INSTANCE LayerTable
             WITH current <- inner, gone <- freed, within <- Within, called <- Called

\* Whatever waits where, every callback gets to all the layers that are in the slot, and
\* init and shutdown exchange the layers of a slot in one step, as Runtime has it.
TableSpec == Table!Spec

\* The level of logging that a filter's level stands for.
Threshold == <<NOTSET, Std.debug, Std.info, Std.warn, Std.error>>

\* README: "Control log level via RUST_LOG env var". By the levels of logging too:
\* of what is logged, the filter takes out exactly what is below its level, on the
\* way through the bridge's severity numbers and the levels of tracing.
FilterAgrees ==
    \A t \in Callers : pc[t] = "read" /\ callback[t] = "on_event" =>
        (FilteredOut(t) <=> levelno[t] < Threshold[Filter])

\* A thread wants to read a slot that it is reading already.
Reentering(t) == pc[t] = "lookup" /\ Order[look[t]] \in Holds(t)

\* A thread asks for a read guard and does not get it.
Blocked(t) ==
    \/ pc[t] = "read" /\ ~FilteredOut(t) /\ ~Admits(Order[at[t]])
    \/ pc[t] = "lookup" /\ ~Admits(Order[look[t]])

\* Threads wait in a circle only through one that reads a slot again: whoever waits,
\* waits for a writer that can go on, or for a reader of the writer's slot that is
\* inside of a callback and can go on. Lookups reach across the slots, and a call
\* replaces three of them: no order of locking is kept, and none is needed.
StuckOnlyByReentry ==
    \A t \in Callers : Blocked(t) =>
        \/ swap = "writing"
        \/ readers[Head(plan)] = {}
        \/ \E u \in readers[Head(plan)] : pc[u] # "idle" /\ (Blocked(u) => Reentering(u))

ReentryEnds == \A t \in Callers : []<>~Reentering(t)

\* Unless somebody is stuck in reading a slot again, whoever records gets through
\* all three slots, however init and shutdown replace them meanwhile ...
CallsEnd == ReentryEnds => \A t \in Callers : (pc[t] # "idle") ~> (pc[t] = "idle")

\* ... and init and shutdown get every write lock, however much is recorded.
SwapsEnd == ReentryEnds => ((swap = "waiting") ~> (swap = "idle"))

\* logging.py: "The handler is non-blocking". What is logged gets through.
EmitNonBlocking ==
    \A t \in Callers : (pc[t] = "read" /\ callback[t] = "on_event") ~> (pc[t] = "idle")

\* runtime.rs: "Properly forwards downcast_raw". What a thread was given by it is
\* there when the thread uses it.
PointersAreLive == \A t \in Callers : ptr[t] \cap freed = {}
============================================================================
