---------------------------- MODULE SpanContext ----------------------------
(***************************************************************************)
(* Trace context in Python code (rust/src/traces.rs, rust/src/context.rs): *)
(* start_span and extract_headers push a context onto a contextvars        *)
(* variable and keep the token; end, __exit__ and restore give it back.    *)
(*                                                                         *)
(* Each asyncio task runs in a contextvars.Context of its own, a copy of   *)
(* its creator's.  What set(), reset() and copy_context() do is external,  *)
(* and so is the layer that gives a span its OpenTelemetry context.        *)
(***************************************************************************)
EXTENDS Integers, Sequences

CONSTANTS Tasks,       \* asyncio tasks of one thread
          Main,        \* the task that is there from the start
          MaxHandles   \* bound: start_span and extract_headers calls

ASSUME SpanContextAssumption ==
    /\ Main \in Tasks
    /\ MaxHandles \in Nat

VARIABLES live,       \* the tasks created so far
          cv,         \* the variable in each task: a handle whose holder it is, or 0
          inherited,  \* history: its value when the task was created
          handles,    \* the PySpan and ExtractedContext objects, oldest first
          tracing     \* is a trace layer installed

vars == <<live, cv, inherited, handles, tracing>>

----------------------------------------------------------------------------
(* A handle: its kind; the task whose Context its token belongs to; the    *)
(* value the token restores; whether it still has the token, and the span; *)
(* the context it pushed, 0 if not a valid one; and its span's parent.     *)

Handle == [kind : {"span", "extracted"}, owner : Tasks, old : Nat, held : BOOLEAN,
           open : BOOLEAN, ctx : Nat, parent : Nat]

Ids == 1 .. Len(handles)

Fresh == Len(handles) + 1

\* context::current: the stored context, or an empty one.
Current(t) == IF cv[t] = 0 THEN 0 ELSE handles[cv[t]].ctx

\* The handles of a task that can still restore something.
Held(t) == {h \in Ids : handles[h].held /\ handles[h].owner = t}

Init ==
    /\ live = {Main}
    /\ cv = [t \in Tasks |-> 0]
    /\ inherited = [t \in Tasks |-> 0]
    /\ handles = <<>>
    /\ tracing \in BOOLEAN

----------------------------------------------------------------------------
(* Pushing. *)

\* context::push: cv.set, whose token remembers the value it replaces.
Push(t, handle) ==
    /\ handles' = Append(handles, handle)
    /\ cv' = [cv EXCEPT ![t] = Fresh]

\* set_parent, if the current context is valid; an orphan otherwise.
ParentOf(t) == IF tracing THEN Current(t) ELSE 0

\* start_span. Without a trace layer the span has an empty context, and it is
\* pushed all the same.
StartSpan(t) ==
    /\ Len(handles) < MaxHandles
    /\ Push(t, [kind |-> "span", owner |-> t, old |-> cv[t], held |-> TRUE, open |-> TRUE,
                ctx |-> IF tracing THEN Fresh ELSE 0, parent |-> ParentOf(t)])
    /\ UNCHANGED <<live, inherited, tracing>>

\* start_span with an attribute it cannot convert: the span it has created is
\* dropped, before anything is pushed.
StartSpanFails(t) ==
    /\ Len(handles) < MaxHandles
    /\ handles' = Append(handles,
            [kind |-> "span", owner |-> t, old |-> 0, held |-> FALSE, open |-> FALSE,
             ctx |-> IF tracing THEN Fresh ELSE 0, parent |-> ParentOf(t)])
    /\ UNCHANGED <<live, cv, inherited, tracing>>

\* extract_headers: a remote context, or an empty one without a traceparent.
Extract(t) ==
    /\ Len(handles) < MaxHandles
    /\ \E ctx \in {0, Fresh} :
          Push(t, [kind |-> "extracted", owner |-> t, old |-> cv[t], held |-> TRUE,
                   open |-> FALSE, ctx |-> ctx, parent |-> 0])
    /\ UNCHANGED <<live, inherited, tracing>>

----------------------------------------------------------------------------
(* Restoring. *)

\* Mutated form: when the token is gone the span is kept.
KeepSpan(h) == handles' = [handles EXCEPT ![h].held = FALSE]

\* The handle gives up its token and its span.
Release(h) == handles' = [handles EXCEPT ![h].held = FALSE, ![h].open = FALSE]

\* Mutated form: the value is put back whatever Context the token is from.
ResetAnyway(t, h) == cv' = [cv EXCEPT ![t] = handles[h].old]

\* Mutated form: the variable is cleared instead of given its old value.
ResetToEmpty(t, h) ==
    IF handles[h].owner = t THEN cv' = [cv EXCEPT ![t] = 0] ELSE UNCHANGED cv

\* Mutated form: the token is dropped and nothing is restored.
LeaveCurrent(t, h) == UNCHANGED cv

\* context::restore: cv.reset raises ValueError in another Context than set's.
Reset(t, h) ==
    IF handles[h].owner = t
    THEN cv' = [cv EXCEPT ![t] = handles[h].old]
    ELSE UNCHANGED cv

\* end, __exit__ and restore, called in t. The second call finds no token; one
\* whose reset raises has released the span and lost the token nevertheless.
End(t, h) ==
    /\ handles[h].held
    /\ Reset(t, h)
    /\ Release(h)
    /\ UNCHANGED <<live, inherited, tracing>>

\* The object is collected: its token goes unused.
Drop(h) ==
    /\ handles[h].held
    /\ Release(h)
    /\ UNCHANGED <<live, cv, inherited, tracing>>

----------------------------------------------------------------------------
(* The surroundings. *)

\* asyncio.create_task: the new task starts with a copy of the Context.
CreateTask(t, u) ==
    /\ u \notin live
    /\ live' = live \cup {u}
    /\ cv' = [cv EXCEPT ![u] = cv[t]]
    /\ inherited' = [inherited EXCEPT ![u] = cv[t]]
    /\ UNCHANGED <<handles, tracing>>

\* init or shutdown swaps the trace layers.
SwapTraceLayers ==
    /\ tracing' = ~tracing
    /\ UNCHANGED <<live, cv, inherited, handles>>

----------------------------------------------------------------------------
Opening(t) == StartSpan(t) \/ StartSpanFails(t) \/ Extract(t)

\* Any program: handles are ended in any order, in any task, or forgotten.
Next ==
    \/ \E t \in live :
          \/ Opening(t)
          \/ \E h \in Ids : End(t, h)
          \/ \E u \in Tasks : CreateTask(t, u)
    \/ \E h \in Ids : Drop(h)
    \/ SwapTraceLayers

Spec == Init /\ [][Next]_vars

\* h is the handle that t opened last and has not ended.
Innermost(t, h) == h \in Held(t) /\ \A g \in Held(t) : g <= h

\* A program that uses `with`: every block ends in its task, inner ones first.
NestedNext ==
    \/ \E t \in live :
          \/ Opening(t)
          \/ \E h \in Ids : Innermost(t, h) /\ End(t, h)
          \/ \E u \in Tasks : CreateTask(t, u)
    \/ SwapTraceLayers

NestedSpec == Init /\ [][NestedNext]_vars

----------------------------------------------------------------------------
(* Properties. *)

\* Types; tokens and parents point to the past; a handle without a token has no
\* live span, even when its reset raised.
TypeOK ==
    /\ live \subseteq Tasks
    /\ handles \in Seq(Handle)
    /\ cv \in [Tasks -> 0 .. Len(handles)]
    /\ inherited \in [Tasks -> 0 .. Len(handles)]
    /\ tracing \in BOOLEAN
    /\ \A h \in Ids :
          /\ handles[h].old < h /\ handles[h].parent < h
          /\ handles[h].ctx \in {0, h}
          /\ handles[h].open => handles[h].held

\* What a task sees was pushed by the task itself or inherited at its creation:
\* nothing another task does afterwards, not even ending a shared span, shows.
Isolation ==
    \A t \in Tasks : cv[t] # inherited[t] => cv[t] # 0 /\ handles[cv[t]].owner = t

\* For a program that uses `with`, the current context is that of the innermost
\* block, and outside of all of them the one the task was created with.
CurrentIsInnermost ==
    \A t \in Tasks :
        /\ Held(t) = {} => cv[t] = inherited[t]
        /\ Held(t) # {} => Innermost(t, cv[t])

\* For such a program, the parent of a live span is not a dead span of its task.
LiveParent ==
    \A h \in Ids :
        LET p == handles[h].parent
        IN  handles[h].open /\ p # 0 /\ handles[p].owner = handles[h].owner
                => handles[p].held \/ p = inherited[handles[h].owner]

\* traces.rs, Drop for ExtractedContext: "If the user forgot to restore, the
\* contextvars copy-on-write semantics handle cleanup". A task does not keep the
\* extracted context as its current one after the object has gone.
ForgottenIsCleanedUp ==
    \A t \in Tasks :
        cv[t] # inherited[t] /\ handles[cv[t]].kind = "extracted" => handles[cv[t]].held
============================================================================
