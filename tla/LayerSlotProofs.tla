--------------------------- MODULE LayerSlotProofs ---------------------------
(***************************************************************************)
(* Type correctness of LayerSlot, that no thread uses a dropped layer      *)
(* inside of a slot's loop, that the slots implement LayerTable, and who   *)
(* can wait for whom, for any threads, configurations and callbacks.       *)
(*                                                                         *)
(* A layer carries the number of the call that made it.  Whatever has been *)
(* dropped is older than what the slot holds: that is FreshInv.            *)
(***************************************************************************)
EXTENDS LayerSlot, SeverityProofs, SequenceTheorems

\* What init and shutdown still have to replace, at any point of them.
Plans == {<<>>, <<"logs">>, <<"traces", "logs">>, <<"metrics", "traces", "logs">>,
          <<"traces">>, <<"metrics", "traces">>, <<"logs", "metrics", "traces">>}

Rest(slot) == slot \in Elements(plan)

\* The slots and the one call that replaces them.
SlotInv ==
    /\ inner \in [Slot -> Seq(Layer)]
    /\ freed \subseteq Layer
    /\ plan \in Plans
    /\ swap \in {"idle", "waiting", "writing"}
    /\ installed \in BOOLEAN
    /\ swaps \in 0 .. MaxSwaps
    /\ swap # "idle" => plan # <<>>

\* Where each thread is: in which slots by at and look.
PlaceInv ==
    /\ pc \in [Callers -> {"idle", "read", "each", "lookup", "deref"}]
    /\ at \in [Callers -> 0 .. 3]
    /\ look \in [Callers -> 0 .. 3]
    /\ \A t \in Callers :
          /\ pc[t] = "idle" => at[t] = 0
          /\ pc[t] \in {"read", "each"} => at[t] # 0
          /\ pc[t] = "lookup" => look[t] # 0

\* What each thread is about.
CallerInv ==
    /\ callback \in [Callers -> Callbacks \cup {"none"}]
    /\ levelno \in [Callers -> Nat]
    /\ view \in [Callers -> Seq(Layer)]
    /\ next \in [Callers -> Nat]
    /\ ptr \in [Callers -> SUBSET Layer]

\* The locks: who holds them, and that a writer is alone.
LockInv ==
    /\ readers \in [Slot -> SUBSET Callers]
    /\ \A t \in Callers, slot \in Slot : t \in readers[slot] <=> slot \in Holds(t)
    /\ \A slot \in Slot : Writing(slot) => readers[slot] = {}

\* No layer is younger than the latest call, those of a slot that is still to be
\* replaced are older, and none that a slot holds has been dropped.
FreshInv ==
    /\ \A slot \in Slot : \A layer \in Elements(inner[slot]) :
          /\ layer[2] = slot
          /\ layer[1] <= swaps
          /\ Rest(slot) => layer[1] < swaps
          /\ layer \notin freed
    /\ \A layer \in freed :
          /\ layer[1] <= swaps
          /\ Rest(layer[2]) => layer[1] < swaps

----------------------------------------------------------------------------
(* Lemmas. *)

LEMMA OrderFacts ==
    /\ Len(Order) = 3
    /\ Order[1] = "logs" /\ Order[2] = "metrics" /\ Order[3] = "traces"
    /\ \A i \in 1 .. 3 : Order[i] \in Slot
BY DEF Order, Slot

LEMMA TailFacts ==
    /\ \A a : <<a>> # <<>> /\ Head(<<a>>) = a /\ Tail(<<a>>) = <<>>
    /\ \A a, b : <<a, b>> # <<>> /\ Head(<<a, b>>) = a /\ Tail(<<a, b>>) = <<b>>
    /\ \A a, b, c :
          <<a, b, c>> # <<>> /\ Head(<<a, b, c>>) = a /\ Tail(<<a, b, c>>) = <<b, c>>
OBVIOUS

LEMMA TupleElements ==
    /\ Elements(<<>>) = {}
    /\ \A a : Elements(<<a>>) = {a}
    /\ \A a, b : Elements(<<a, b>>) = {a, b}
    /\ \A a, b, c : Elements(<<a, b, c>>) = {a, b, c}
<1>1. Elements(<<>>) = {}
  BY DEF Elements
<1>2. ASSUME NEW a PROVE Elements(<<a>>) = {a}
  <2>1. Len(<<a>>) = 1 /\ <<a>>[1] = a
    OBVIOUS
  <2> QED
    BY <2>1 DEF Elements
<1>3. ASSUME NEW a, NEW b PROVE Elements(<<a, b>>) = {a, b}
  <2>1. Len(<<a, b>>) = 2 /\ <<a, b>>[1] = a /\ <<a, b>>[2] = b /\ 1 .. 2 = {1, 2}
    OBVIOUS
  <2> QED
    BY <2>1 DEF Elements
<1>4. ASSUME NEW a, NEW b, NEW c PROVE Elements(<<a, b, c>>) = {a, b, c}
  <2>1. /\ Len(<<a, b, c>>) = 3 /\ 1 .. 3 = {1, 2, 3}
        /\ <<a, b, c>>[1] = a /\ <<a, b, c>>[2] = b /\ <<a, b, c>>[3] = c
    OBVIOUS
  <2> QED
    BY <2>1 DEF Elements
<1> QED
  BY <1>1, <1>2, <1>3, <1>4

\* A plan is worked off from its head, and a slot occurs in it once.
LEMMA PlanFacts ==
    ASSUME NEW p \in Plans
    PROVE  /\ p \in Seq(Slot)
           /\ p # <<>> =>
                 /\ Head(p) \in Slot
                 /\ Tail(p) \in Plans
                 /\ Head(p) \in Elements(p) /\ Head(p) \notin Elements(Tail(p))
                 /\ Elements(Tail(p)) \subseteq Elements(p)
<1>1. CASE p = <<>>
  BY <1>1
<1>2. CASE p = <<"logs">>
  BY <1>2, TailFacts, TupleElements DEF Plans, Slot
<1>3. CASE p = <<"traces", "logs">>
  BY <1>3, TailFacts, TupleElements DEF Plans, Slot
<1>4. CASE p = <<"metrics", "traces", "logs">>
  BY <1>4, TailFacts, TupleElements DEF Plans, Slot
<1>5. CASE p = <<"traces">>
  BY <1>5, TailFacts, TupleElements DEF Plans, Slot
<1>6. CASE p = <<"metrics", "traces">>
  BY <1>6, TailFacts, TupleElements DEF Plans, Slot
<1>7. CASE p = <<"logs", "metrics", "traces">>
  BY <1>7, TailFacts, TupleElements DEF Plans, Slot
<1> QED
  BY <1>1, <1>2, <1>3, <1>4, <1>5, <1>6, <1>7 DEF Plans

\* The layers of a call are layers, numbered by it, for their slot.
LEMMA LayersFacts ==
    ASSUME NEW n \in Nat, NEW slot \in Slot, NEW kinds \in Seq(Kind)
    PROVE  /\ Layers(n, slot, kinds) \in Seq(Layer)
           /\ \A layer \in Elements(Layers(n, slot, kinds)) : layer[1] = n /\ layer[2] = slot
<1>1. Len(kinds) \in Nat /\ \A i \in 1 .. Len(kinds) : kinds[i] \in Kind
  OBVIOUS
<1>2. \A i \in 1 .. Len(kinds) : <<n, slot, i, kinds[i]>> \in Layer
  BY <1>1 DEF Layer
<1>3. Layers(n, slot, kinds) \in Seq(Layer)
  BY <1>1, <1>2 DEF Layers
<1>4. Len(Layers(n, slot, kinds)) = Len(kinds)
  BY <1>1 DEF Layers
<1> QED
  BY <1>1, <1>3, <1>4 DEF Elements, Layers

LEMMA KindsFacts ==
    ASSUME NEW slot \in Slot
    PROVE  Configured[slot] \in Seq(Kind) /\ Default(slot) \in Seq(Kind)
<1>1. "fmt" \in Kind
  BY DEF Kind
<1>2. <<"fmt">> \in Seq(Kind) /\ <<>> \in Seq(Kind)
  BY <1>1
<1> QED
  BY <1>2, SlotAssumption DEF Default

LEMMA ElementsType ==
    ASSUME NEW S, NEW seq \in Seq(S)
    PROVE  Elements(seq) \subseteq S
BY DEF Elements

LEMMA TypeParts == SlotInv /\ PlaceInv /\ CallerInv /\ LockInv => TypeOK
BY OrderFacts, PlanFacts DEF SlotInv, PlaceInv, CallerInv, LockInv, TypeOK

----------------------------------------------------------------------------
(* Type correctness. *)

LEMMA SlotStep == SlotInv /\ [Next]_vars => SlotInv'
<1> SUFFICES ASSUME SlotInv, [Next]_vars
             PROVE  SlotInv'
  OBVIOUS
<1> USE DEF SlotInv, slots, swapper, callers
<1>1. ASSUME NEW t \in Callers, Dispatch(t) \/ StartLookup(t) \/ Step(t)
      PROVE  SlotInv'
  BY <1>1 DEF Dispatch, StartLookup, Step, Skip, Read, Each, Done, Peek, Deref
<1>2. CASE StartInstall \/ FailInstall \/ StartUninstall
  <2>1. swaps' \in 0 .. MaxSwaps
    BY <1>2, SlotAssumption DEF StartInstall, FailInstall, StartUninstall
  <2>2. plan' \in Plans /\ swap' = "idle" /\ installed' \in BOOLEAN
    BY <1>2 DEF StartInstall, FailInstall, StartUninstall, Plans
  <2> QED
    BY <1>2, <2>1, <2>2 DEF StartInstall, FailInstall, StartUninstall
<1>3. CASE Request \/ Lock
  BY <1>3 DEF Request, Lock
<1>4. CASE Replace
  <2>1. plan # <<>> /\ Head(plan) \in Slot /\ Tail(plan) \in Plans
    BY <1>4, PlanFacts DEF Replace
  <2>2. PICK kinds \in Seq(Kind) :
            inner' = [inner EXCEPT ![Head(plan)] = Layers(swaps, Head(plan), kinds)]
    BY <1>4, <2>1, KindsFacts DEF Replace
  <2>3. inner' \in [Slot -> Seq(Layer)]
    BY <2>1, <2>2, LayersFacts, SlotAssumption
  <2>4. freed' \subseteq Layer
    BY <1>4, <2>1, ElementsType DEF Replace
  <2> QED
    BY <1>4, <2>1, <2>3, <2>4 DEF Replace
<1>5. CASE UNCHANGED vars
  BY <1>5 DEF vars
<1> QED
  BY <1>1, <1>2, <1>3, <1>4, <1>5 DEF Next, Swapping

\* Where a thread is that goes on with the next slot.
LEMMA AdvancePlace ==
    ASSUME NEW t \in Callers, PlaceInv, at[t] # 0, Advance(t), UNCHANGED look
    PROVE  PlaceInv'
<1>1. CASE at[t] < 3
  <2>1. at' = [at EXCEPT ![t] = at[t] + 1] /\ pc' = [pc EXCEPT ![t] = "read"]
    BY <1>1, OrderFacts DEF Advance
  <2> QED
    BY <1>1, <2>1 DEF PlaceInv
<1>2. CASE ~(at[t] < 3)
  <2>1. at' = [at EXCEPT ![t] = 0] /\ pc' = [pc EXCEPT ![t] = "idle"]
    BY <1>2, OrderFacts DEF Advance
  <2> QED
    BY <2>1 DEF PlaceInv
<1> QED
  BY <1>1, <1>2

LEMMA PlaceStep == PlaceInv /\ [Next]_vars => PlaceInv'
<1> SUFFICES ASSUME PlaceInv, [Next]_vars
             PROVE  PlaceInv'
  OBVIOUS
<1> USE DEF PlaceInv
<1>1. ASSUME NEW t \in Callers, Dispatch(t) PROVE PlaceInv'
  BY <1>1 DEF Dispatch
<1>2. ASSUME NEW t \in Callers, StartLookup(t) PROVE PlaceInv'
  BY <1>2 DEF StartLookup
<1>3. ASSUME NEW t \in Callers, Skip(t) PROVE PlaceInv'
  BY <1>3, AdvancePlace DEF Skip
<1>4. ASSUME NEW t \in Callers, Read(t) PROVE PlaceInv'
  BY <1>4 DEF Read
<1>5. ASSUME NEW t \in Callers, Each(t) PROVE PlaceInv'
  <2>1. CASE LooksUp(t, view[t][next[t]])
    <3>1. /\ pc' = [pc EXCEPT ![t] = "lookup"]
          /\ look' = [look EXCEPT ![t] = 1]
          /\ at' = at /\ pc[t] = "each"
      BY <1>5, <2>1 DEF Each
    <3> QED
      BY <3>1
  <2>2. CASE ~LooksUp(t, view[t][next[t]])
    BY <1>5, <2>2 DEF Each
  <2> QED
    BY <2>1, <2>2
<1>6. ASSUME NEW t \in Callers, Done(t) PROVE PlaceInv'
  BY <1>6, AdvancePlace DEF Done
<1>7. ASSUME NEW t \in Callers, Peek(t) PROVE PlaceInv'
  <2>1. \/ /\ pc' = [pc EXCEPT ![t] = "deref"]
           /\ look' = [look EXCEPT ![t] = 0]
        \/ /\ look[t] < 3 /\ pc' = pc
           /\ look' = [look EXCEPT ![t] = look[t] + 1]
        \/ /\ pc' = [pc EXCEPT ![t] = IF at[t] = 0 THEN "idle" ELSE "each"]
           /\ look' = [look EXCEPT ![t] = 0]
    BY <1>7, OrderFacts DEF Peek, Resume
  <2>2. at' = at /\ pc[t] = "lookup"
    BY <1>7 DEF Peek
  <2> QED
    BY <2>1, <2>2
<1>8. ASSUME NEW t \in Callers, Deref(t) PROVE PlaceInv'
  BY <1>8 DEF Deref, Resume
<1>9. CASE StartInstall \/ FailInstall \/ StartUninstall \/ Request \/ Lock \/ Replace
  BY <1>9 DEF StartInstall, FailInstall, StartUninstall, Request, Lock, Replace, callers
<1>10. CASE UNCHANGED vars
  BY <1>10 DEF vars, callers
<1> QED
  BY <1>1, <1>2, <1>3, <1>4, <1>5, <1>6, <1>7, <1>8, <1>9, <1>10 DEF Next, Step, Swapping

LEMMA AdvanceTypes ==
    ASSUME NEW t \in Callers, CallerInv, Advance(t)
    PROVE  /\ callback' \in [Callers -> Callbacks \cup {"none"}]
           /\ levelno' \in [Callers -> Nat]
<1>1. Std.info \in Nat
  BY DEF Std
<1>2. CASE at[t] < Len(Order)
  BY <1>2 DEF Advance, CallerInv
<1>3. CASE ~(at[t] < Len(Order))
  BY <1>1, <1>3 DEF Advance, CallerInv
<1> QED
  BY <1>2, <1>3

LEMMA CallerStep == SlotInv /\ PlaceInv /\ CallerInv /\ [Next]_vars => CallerInv'
<1> SUFFICES ASSUME SlotInv, PlaceInv, CallerInv, [Next]_vars
             PROVE  CallerInv'
  OBVIOUS
<1> USE DEF CallerInv
<1>1. ASSUME NEW t \in Callers, Dispatch(t) PROVE CallerInv'
  <2>1. PICK c \in Callbacks :
            /\ callback' = [callback EXCEPT ![t] = c]
            /\ IF c = "on_event"
               THEN \E a \in Levelnos : levelno' = [levelno EXCEPT ![t] = a]
               ELSE UNCHANGED levelno
    BY <1>1 DEF Dispatch
  <2>2. levelno' \in [Callers -> Nat]
    BY <2>1, SlotAssumption
  <2>3. callback' \in [Callers -> Callbacks \cup {"none"}]
    BY <2>1
  <2> QED
    BY <1>1, <2>2, <2>3 DEF Dispatch
<1>2. ASSUME NEW t \in Callers, StartLookup(t) PROVE CallerInv'
  BY <1>2 DEF StartLookup
<1>3. ASSUME NEW t \in Callers, Skip(t) PROVE CallerInv'
  BY <1>3, AdvanceTypes DEF Skip
<1>4. ASSUME NEW t \in Callers, Read(t) PROVE CallerInv'
  <2>1. Order[at[t]] \in Slot
    BY <1>4, OrderFacts DEF Read, PlaceInv
  <2>2. inner[Order[at[t]]] \in Seq(Layer)
    BY <2>1 DEF SlotInv
  <2> QED
    BY <1>4, <2>2 DEF Read
<1>5. ASSUME NEW t \in Callers, Each(t) PROVE CallerInv'
  <2>1. next' \in [Callers -> Nat]
    BY <1>5 DEF Each
  <2> QED
    BY <1>5, <2>1 DEF Each
<1>6. ASSUME NEW t \in Callers, Done(t) PROVE CallerInv'
  <2>1. view' \in [Callers -> Seq(Layer)]
    BY <1>6 DEF Done
  <2>2. next' \in [Callers -> Nat]
    BY <1>6 DEF Done
  <2> QED
    BY <1>6, <2>1, <2>2, AdvanceTypes DEF Done
<1>7. ASSUME NEW t \in Callers, Peek(t) PROVE CallerInv'
  <2>1. Order[look[t]] \in Slot
    BY <1>7, OrderFacts DEF Peek, PlaceInv
  <2>2. TraceLayers(Order[look[t]]) \subseteq Layer
    BY <2>1 DEF TraceLayers, SlotInv
  <2>3. \/ \E layer \in TraceLayers(Order[look[t]]) : ptr' = [ptr EXCEPT ![t] = {layer}]
        \/ ptr' = ptr
    BY <1>7 DEF Peek
  <2>4. ptr' \in [Callers -> SUBSET Layer]
    BY <2>2, <2>3
  <2> QED
    BY <1>7, <2>4 DEF Peek
<1>8. ASSUME NEW t \in Callers, Deref(t) PROVE CallerInv'
  BY <1>8 DEF Deref
<1>9. CASE StartInstall \/ FailInstall \/ StartUninstall \/ Request \/ Lock \/ Replace
  BY <1>9 DEF StartInstall, FailInstall, StartUninstall, Request, Lock, Replace, callers
<1>10. CASE UNCHANGED vars
  BY <1>10 DEF vars, callers
<1> QED
  BY <1>1, <1>2, <1>3, <1>4, <1>5, <1>6, <1>7, <1>8, <1>9, <1>10 DEF Next, Step, Swapping

LEMMA AdvanceHolds ==
    ASSUME NEW t \in Callers, PlaceInv, Advance(t)
    PROVE  Holds(t)' = {} /\ \A u \in Callers \ {t} : Holds(u)' = Holds(u)
<1>1. pc'[t] = "read" \/ at'[t] = 0
  BY DEF PlaceInv, Advance
<1>2. \A u \in Callers \ {t} : pc'[u] = pc[u] /\ at'[u] = at[u]
  BY DEF PlaceInv, Advance
<1> QED
  BY <1>1, <1>2 DEF Holds

\* A step that is none of Read and Done leaves every thread's guards alone.
LEMMA HoldsSame ==
    ASSUME PlaceInv, NEW t \in Callers,
           Dispatch(t) \/ StartLookup(t) \/ Skip(t) \/ Each(t) \/ Peek(t) \/ Deref(t)
    PROVE  /\ \A u \in Callers : Holds(u)' = Holds(u)
           /\ UNCHANGED <<slots, swapper>>
           /\ \A u \in Callers : Holds(u) # {} => view'[u] = view[u]
<1>1. CASE Dispatch(t)
  BY <1>1 DEF Dispatch, PlaceInv, Holds
<1>2. CASE StartLookup(t)
  BY <1>2 DEF StartLookup, PlaceInv, Holds
<1>3. CASE Skip(t)
  <2>1. Holds(t) = {}
    BY <1>3 DEF Skip, Holds
  <2> QED
    BY <1>3, <2>1, AdvanceHolds DEF Skip
<1>4. CASE Each(t)
  <2>1. /\ at' = at /\ pc[t] = "each" /\ pc'[t] # "read"
        /\ \A u \in Callers \ {t} : pc'[u] = pc[u]
    BY <1>4 DEF Each, PlaceInv
  <2> QED
    BY <1>4, <2>1 DEF Each, Holds
<1>5. CASE Peek(t)
  <2>1. /\ at' = at /\ pc[t] = "lookup" /\ pc'[t] # "read"
        /\ \A u \in Callers \ {t} : pc'[u] = pc[u]
    BY <1>5 DEF Peek, Resume, PlaceInv
  <2> QED
    BY <1>5, <2>1 DEF Peek, Holds
<1>6. CASE Deref(t)
  <2>1. /\ at' = at /\ pc[t] = "deref" /\ pc'[t] # "read"
        /\ \A u \in Callers \ {t} : pc'[u] = pc[u]
    BY <1>6 DEF Deref, Resume, PlaceInv
  <2> QED
    BY <1>6, <2>1 DEF Deref, Holds
<1> QED
  BY <1>1, <1>2, <1>3, <1>4, <1>5, <1>6

LEMMA LockStep == SlotInv /\ PlaceInv /\ LockInv /\ [Next]_vars => LockInv'
<1> SUFFICES ASSUME SlotInv, PlaceInv, LockInv, [Next]_vars
             PROVE  LockInv'
  OBVIOUS
<1>1. ASSUME NEW t \in Callers,
             Dispatch(t) \/ StartLookup(t) \/ Skip(t) \/ Each(t) \/ Peek(t) \/ Deref(t)
      PROVE  LockInv'
  BY <1>1, HoldsSame DEF LockInv, Writing, slots, swapper
<1>2. ASSUME NEW t \in Callers, Read(t) PROVE LockInv'
  <2> DEFINE slot == Order[at[t]]
  <2>1. slot \in Slot /\ Holds(t) = {}
    BY <1>2, OrderFacts DEF Read, PlaceInv, Holds
  <2>2. at' = at /\ pc[t] = "read" /\ pc' = [pc EXCEPT ![t] = "each"] /\ at[t] # 0
    BY <1>2 DEF Read, PlaceInv
  <2>3. Holds(t)' = {slot} /\ \A u \in Callers \ {t} : Holds(u)' = Holds(u)
    BY <2>2 DEF Holds, PlaceInv
  <2>4. readers' = [readers EXCEPT ![slot] = @ \cup {t}] /\ ~Writing(slot)
    BY <1>2 DEF Read, Admits
  <2>5. \A s \in Slot : Writing(s)' = Writing(s)
    BY <1>2 DEF Read, swapper, Writing
  <2> QED
    BY <2>1, <2>3, <2>4, <2>5 DEF LockInv
<1>3. ASSUME NEW t \in Callers, Done(t) PROVE LockInv'
  <2> DEFINE slot == Order[at[t]]
  <2>1. slot \in Slot /\ Holds(t) = {slot}
    BY <1>3, OrderFacts DEF Done, PlaceInv, Holds
  <2>2. Holds(t)' = {} /\ \A u \in Callers \ {t} : Holds(u)' = Holds(u)
    BY <1>3, AdvanceHolds DEF Done
  <2>3. readers' = [readers EXCEPT ![slot] = @ \ {t}]
    BY <1>3 DEF Done
  <2>4. \A s \in Slot : Writing(s)' = Writing(s)
    BY <1>3 DEF Done, swapper, Writing
  <2> QED
    BY <2>1, <2>2, <2>3, <2>4 DEF LockInv
<1>4. CASE StartInstall \/ FailInstall \/ StartUninstall \/ Request \/ Replace
  <2>1. swap' # "writing"
    BY <1>4 DEF StartInstall, FailInstall, StartUninstall, Request, Replace, SlotInv
  <2>2. readers' = readers /\ \A t \in Callers : Holds(t)' = Holds(t)
    BY <1>4 DEF StartInstall, FailInstall, StartUninstall, Request, Replace, slots, callers,
                Holds
  <2> QED
    BY <2>1, <2>2 DEF LockInv, Writing
<1>5. CASE Lock
  <2>1. plan' = plan /\ readers[Head(plan)] = {}
    BY <1>5 DEF Lock
  <2>2. readers' = readers /\ \A t \in Callers : Holds(t)' = Holds(t)
    BY <1>5 DEF Lock, slots, callers, Holds
  <2> QED
    BY <2>1, <2>2 DEF LockInv, Writing
<1>6. CASE UNCHANGED vars
  BY <1>6 DEF vars, slots, swapper, callers, LockInv, Holds, Writing
<1> QED
  BY <1>1, <1>2, <1>3, <1>4, <1>5, <1>6 DEF Next, Step, Swapping

LEMMA InitInv == Init => SlotInv /\ PlaceInv /\ CallerInv /\ LockInv
<1> SUFFICES ASSUME Init
             PROVE  SlotInv /\ PlaceInv /\ CallerInv /\ LockInv
  OBVIOUS
<1>1. SlotInv
  <2>1. ASSUME NEW slot \in Slot PROVE Layers(0, slot, Default(slot)) \in Seq(Layer)
    BY KindsFacts, LayersFacts
  <2>2. inner \in [Slot -> Seq(Layer)]
    BY <2>1 DEF Init
  <2>3. swaps \in 0 .. MaxSwaps
    BY SlotAssumption DEF Init
  <2> QED
    BY <2>2, <2>3 DEF Init, SlotInv, Plans
<1>2. PlaceInv
  BY DEF Init, PlaceInv
<1>3. CallerInv
  <2>1. Std.info \in Nat
    BY DEF Std
  <2> QED
    BY <2>1 DEF Init, CallerInv
<1>4. LockInv
  BY DEF Init, LockInv, Holds, Writing
<1> QED
  BY <1>1, <1>2, <1>3, <1>4

\* Types and exclusion: a slot's readers are the threads in its loop, and while it is
\* written there are none.
THEOREM TypeCorrect == Spec => []TypeOK
<1> DEFINE Inv == SlotInv /\ PlaceInv /\ CallerInv /\ LockInv
<1>1. Init => Inv
  BY InitInv
<1>2. Inv /\ [Next]_vars => Inv'
  BY SlotStep, PlaceStep, CallerStep, LockStep
<1>3. Inv => TypeOK
  BY TypeParts
<1> QED
  BY <1>1, <1>2, <1>3, PTL DEF Spec

\* What the filter keeps is what logging ranks at or above its level, for every level
\* of logging.
THEOREM FilterAgreed == Spec => []FilterAgrees
<1> DEFINE Inv == SlotInv /\ PlaceInv /\ CallerInv /\ LockInv
<1>1. Init => Inv
  BY InitInv
<1>2. Inv /\ [Next]_vars => Inv'
  BY SlotStep, PlaceStep, CallerStep, LockStep
<1>3. Inv => FilterAgrees
  <2> SUFFICES ASSUME CallerInv, NEW t \in Callers, callback[t] = "on_event"
               PROVE  FilteredOut(t) <=> levelno[t] < Threshold[Filter]
    BY DEF FilterAgrees
  <2>1. levelno[t] \in Nat
    BY DEF CallerInv
  <2>2. Filter \in 1 .. 5
    BY SlotAssumption DEF Level, TRACE, ERROR
  <2>3. /\ Threshold[1] = 0 /\ Threshold[2] = 10 /\ Threshold[3] = 20
        /\ Threshold[4] = 30 /\ Threshold[5] = 40
    BY DEF Threshold, Std, NOTSET
  <2>4. EventLevel(t) = IF levelno[t] >= 40 THEN 5 ELSE IF levelno[t] >= 30 THEN 4 ELSE
                        IF levelno[t] >= 20 THEN 3 ELSE IF levelno[t] >= 10 THEN 2 ELSE 1
    BY <2>1, BridgeLevels DEF EventLevel, TRACE, DEBUG, INFO, WARN, ERROR
  <2>5. FilteredOut(t) <=> EventLevel(t) < Filter
    BY <2>2, <2>4 DEF FilteredOut, Enabled
  <2> QED
    BY <2>1, <2>2, <2>3, <2>4, <2>5
<1> QED
  BY <1>1, <1>2, <1>3, PTL DEF Spec

----------------------------------------------------------------------------
(* No use after drop. *)

LEMMA InitFresh == Init => FreshInv
<1> SUFFICES ASSUME Init
             PROVE  FreshInv
  OBVIOUS
<1>1. ASSUME NEW slot \in Slot, NEW layer \in Elements(inner[slot])
      PROVE  layer[1] = 0 /\ layer[2] = slot
  BY <1>1, KindsFacts, LayersFacts DEF Init
<1>2. Elements(plan) = {}
  BY TupleElements DEF Init
<1> QED
  BY <1>1, <1>2 DEF Init, FreshInv, Rest

LEMMA FreshStep == SlotInv /\ FreshInv /\ [Next]_vars => FreshInv'
<1> SUFFICES ASSUME SlotInv, FreshInv, [Next]_vars
             PROVE  FreshInv'
  OBVIOUS
<1>1. ASSUME UNCHANGED <<inner, freed, plan, swaps>> PROVE FreshInv'
  BY <1>1 DEF FreshInv, Rest
<1>2. ASSUME NEW t \in Callers, Dispatch(t) \/ StartLookup(t) \/ Step(t)
      PROVE  FreshInv'
  BY <1>1, <1>2 DEF Dispatch, StartLookup, Step, Skip, Read, Each, Done, Peek, Deref,
                    slots, swapper
<1>3. ASSUME NEW layer \in Layer PROVE layer[1] \in Nat
  BY <1>3 DEF Layer
<1>4. CASE StartInstall \/ StartUninstall
  <2>1. swaps \in Nat /\ swaps' = swaps + 1 /\ inner' = inner /\ freed' = freed
    BY <1>4 DEF StartInstall, StartUninstall, slots, SlotInv
  <2>2. ASSUME NEW slot \in Slot, NEW layer \in Elements(inner[slot])
        PROVE  layer[1] \in Nat /\ layer[1] <= swaps /\ layer[2] = slot /\ layer \notin freed
    <3>1. layer \in Layer
      BY ElementsType DEF SlotInv
    <3> QED
      BY <1>3, <3>1 DEF FreshInv
  <2>3. ASSUME NEW layer \in freed PROVE layer[1] \in Nat /\ layer[1] <= swaps
    BY <1>3 DEF FreshInv, SlotInv
  <2> QED
    BY <2>1, <2>2, <2>3 DEF FreshInv
<1>5. CASE FailInstall
  <2>1. Elements(plan') = {}
    BY <1>5, TupleElements DEF FailInstall
  <2> QED
    BY <1>5, <2>1 DEF FailInstall, slots, FreshInv, Rest
<1>6. CASE Request \/ Lock
  BY <1>1, <1>6 DEF Request, Lock, slots
<1>7. CASE Replace
  <2> DEFINE slot == Head(plan)
             old  == Elements(inner[slot])
  <2>1. /\ slot \in Slot /\ slot \in Elements(plan) /\ slot \notin Elements(plan')
        /\ Elements(plan') \subseteq Elements(plan)
    BY <1>7, PlanFacts DEF Replace, SlotInv
  <2>2. PICK kinds \in Seq(Kind) : inner' = [inner EXCEPT ![slot] = Layers(swaps, slot, kinds)]
    BY <1>7, <2>1, KindsFacts DEF Replace
  <2>3. swaps \in Nat /\ swaps' = swaps /\ freed' = freed \cup old
    BY <1>7 DEF Replace, SlotInv
  <2>4. \A layer \in Elements(inner'[slot]) : layer[1] = swaps /\ layer[2] = slot
    BY <2>1, <2>2, <2>3, LayersFacts DEF SlotInv
  <2>5. \A s \in Slot \ {slot} : inner'[s] = inner[s]
    BY <2>2 DEF SlotInv
  <2>6. \A layer \in old : layer[1] < swaps /\ layer[2] = slot
    BY <2>1 DEF FreshInv, Rest
  <2>7. \A layer \in freed : layer[2] = slot => layer[1] < swaps
    BY <2>1 DEF FreshInv, Rest
  <2>8. ASSUME NEW s \in Slot, NEW layer \in Elements(inner'[s])
        PROVE  /\ layer[2] = s /\ layer[1] <= swaps
               /\ Rest(s)' => layer[1] < swaps
               /\ layer \notin freed'
    <3>1. CASE s = slot
      BY <2>1, <2>3, <2>4, <2>6, <2>7, <2>8, <3>1 DEF Rest
    <3>2. CASE s # slot
      BY <2>1, <2>3, <2>5, <2>6, <2>8, <3>2 DEF Rest, FreshInv
    <3> QED
      BY <3>1, <3>2
  <2>9. ASSUME NEW layer \in freed'
        PROVE  layer[1] <= swaps /\ (Rest(layer[2])' => layer[1] < swaps)
    <3>1. CASE layer \in freed
      BY <2>1, <3>1 DEF Rest, FreshInv
    <3>2. CASE layer \in old
      <4>1. layer[1] \in Nat
        BY <1>3, <2>1, <3>2, ElementsType DEF SlotInv
      <4> QED
        BY <2>3, <2>6, <3>2, <4>1
    <3> QED
      BY <2>3, <2>9, <3>1, <3>2
  <2> QED
    BY <2>3, <2>8, <2>9 DEF FreshInv
<1>8. CASE UNCHANGED vars
  BY <1>1, <1>8 DEF vars, slots, swapper
<1> QED
  BY <1>2, <1>4, <1>5, <1>6, <1>7, <1>8 DEF Next, Swapping

\* A thread goes through what the slot holds.
ViewInv == \A t \in Callers : \A slot \in Holds(t) : view[t] = inner[slot]

LEMMA ViewStep ==
    SlotInv /\ PlaceInv /\ CallerInv /\ LockInv /\ ViewInv /\ [Next]_vars => ViewInv'
<1> SUFFICES ASSUME SlotInv, PlaceInv, CallerInv, LockInv, ViewInv, [Next]_vars
             PROVE  ViewInv'
  OBVIOUS
<1>1. ASSUME NEW t \in Callers,
             Dispatch(t) \/ StartLookup(t) \/ Skip(t) \/ Each(t) \/ Peek(t) \/ Deref(t)
      PROVE  ViewInv'
  BY <1>1, HoldsSame DEF ViewInv, slots
<1>2. ASSUME NEW t \in Callers, Read(t) PROVE ViewInv'
  <2>1. /\ at' = at /\ pc' = [pc EXCEPT ![t] = "each"] /\ at[t] # 0
        /\ inner' = inner /\ view' = [view EXCEPT ![t] = inner[Order[at[t]]]]
    BY <1>2 DEF Read, PlaceInv
  <2>2. Holds(t)' = {Order[at[t]]} /\ \A u \in Callers \ {t} : Holds(u)' = Holds(u)
    BY <2>1 DEF Holds, PlaceInv
  <2> QED
    BY <2>1, <2>2 DEF ViewInv, CallerInv
<1>3. ASSUME NEW t \in Callers, Done(t) PROVE ViewInv'
  <2>1. Holds(t)' = {} /\ \A u \in Callers \ {t} : Holds(u)' = Holds(u)
    BY <1>3, AdvanceHolds DEF Done
  <2>2. inner' = inner /\ \A u \in Callers \ {t} : view'[u] = view[u]
    BY <1>3 DEF Done, CallerInv
  <2> QED
    BY <2>1, <2>2 DEF ViewInv
<1>4. CASE StartInstall \/ FailInstall \/ StartUninstall \/ Request \/ Lock
  BY <1>4 DEF StartInstall, FailInstall, StartUninstall, Request, Lock, slots, callers,
              ViewInv, Holds
<1>5. CASE Replace
  <2>1. Writing(Head(plan)) /\ Head(plan) \in Slot
    BY <1>5, PlanFacts DEF Replace, Writing, SlotInv
  <2>2. \A t \in Callers : Head(plan) \notin Holds(t)
    BY <2>1 DEF LockInv
  <2>3. \A s \in Slot \ {Head(plan)} : inner'[s] = inner[s]
    BY <1>5 DEF Replace, SlotInv
  <2>4. view' = view /\ \A t \in Callers : Holds(t)' = Holds(t) /\ Holds(t) \subseteq Slot
    BY <1>5, OrderFacts DEF Replace, callers, Holds, PlaceInv
  <2> QED
    BY <2>2, <2>3, <2>4 DEF ViewInv
<1>6. CASE UNCHANGED vars
  BY <1>6 DEF vars, slots, callers, ViewInv, Holds
<1> QED
  BY <1>1, <1>2, <1>3, <1>4, <1>5, <1>6 DEF Next, Step, Swapping

LEMMA ViewLive == PlaceInv /\ FreshInv /\ ViewInv => NoUseAfterDrop
<1> SUFFICES ASSUME PlaceInv, FreshInv, ViewInv, NEW t \in Callers, NEW slot \in Holds(t)
             PROVE  Elements(view[t]) \cap freed = {} /\ view[t] = inner[slot]
  BY DEF NoUseAfterDrop
<1>1. slot \in Slot
  BY OrderFacts DEF Holds, PlaceInv
<1> QED
  BY <1>1 DEF FreshInv, ViewInv

\* A thread inside of a slot never meets a layer that has been dropped, nor one of
\* another configuration than the one it began with.
THEOREM NeverUsedAfterDrop == Spec => []NoUseAfterDrop
<1> DEFINE Inv == SlotInv /\ PlaceInv /\ CallerInv /\ LockInv /\ FreshInv /\ ViewInv
<1>1. Init => Inv
  <2>1. Init => ViewInv
    BY DEF Init, ViewInv, Holds
  <2> QED
    BY <2>1, InitInv, InitFresh
<1>2. Inv /\ [Next]_vars => Inv'
  BY SlotStep, PlaceStep, CallerStep, LockStep, FreshStep, ViewStep
<1>3. Inv => NoUseAfterDrop
  BY ViewLive
<1> QED
  BY <1>1, <1>2, <1>3, PTL DEF Spec

----------------------------------------------------------------------------
(* The slots implement LayerTable.                                           *)

\* A thread is at one of the layers of its slot, or behind the last.
PosInv == \A t \in Callers : Holds(t) # {} => next[t] \in 1 .. Len(view[t]) + 1

\* What is in a slot again: the same guards, and the same place in the loop.
LEMMA SamePlace ==
    ASSUME PlaceInv, NEW t \in Callers,
           Dispatch(t) \/ StartLookup(t) \/ Skip(t) \/ Peek(t) \/ Deref(t)
    PROVE  /\ \A u \in Callers : Holds(u)' = Holds(u)
           /\ UNCHANGED <<inner, freed, view, next>>
<1>1. \A u \in Callers : Holds(u)' = Holds(u)
  BY HoldsSame
<1>2. UNCHANGED <<inner, freed, view, next>>
  BY DEF Dispatch, StartLookup, Skip, Peek, Deref, slots
<1> QED
  BY <1>1, <1>2

\* The steps of a pass: the thread's guards and its place, and nobody else's.
LEMMA ReadPass ==
    ASSUME PlaceInv, CallerInv, NEW t \in Callers, Read(t)
    PROVE  /\ Order[at[t]] \in Slot
           /\ Holds(t) = {} /\ Holds(t)' = {Order[at[t]]}
           /\ next'[t] = 1 /\ view'[t] = inner[Order[at[t]]]
           /\ \A u \in Callers \ {t} :
                 Holds(u)' = Holds(u) /\ next'[u] = next[u] /\ view'[u] = view[u]
           /\ UNCHANGED <<inner, freed>>
<1>1. /\ at' = at /\ pc[t] = "read" /\ pc' = [pc EXCEPT ![t] = "each"] /\ at[t] # 0
      /\ view' = [view EXCEPT ![t] = inner[Order[at[t]]]] /\ next' = [next EXCEPT ![t] = 1]
      /\ UNCHANGED <<inner, freed>>
  BY DEF Read, PlaceInv
<1>2. Order[at[t]] \in Slot
  BY <1>1, OrderFacts DEF PlaceInv
<1>3. Holds(t) = {} /\ Holds(t)' = {Order[at[t]]} /\ \A u \in Callers \ {t} : Holds(u)' = Holds(u)
  BY <1>1 DEF Holds, PlaceInv
<1> QED
  BY <1>1, <1>2, <1>3 DEF CallerInv

LEMMA EachPass ==
    ASSUME PlaceInv, CallerInv, NEW t \in Callers, Each(t)
    PROVE  /\ Order[at[t]] \in Slot
           /\ Holds(t) = {Order[at[t]]} /\ Holds(t)' = {Order[at[t]]}
           /\ next[t] <= Len(view[t]) /\ next'[t] = next[t] + 1
           /\ \A u \in Callers \ {t} : Holds(u)' = Holds(u) /\ next'[u] = next[u]
           /\ UNCHANGED <<inner, freed, view>>
<1>1. /\ pc[t] = "each" /\ at[t] # 0
      /\ next[t] <= Len(view[t]) /\ next' = [next EXCEPT ![t] = next[t] + 1]
      /\ UNCHANGED <<inner, freed, view>>
  BY DEF Each, PlaceInv, slots
<1>2. Order[at[t]] \in Slot
  BY <1>1, OrderFacts DEF PlaceInv
<1>3. Holds(t) = {Order[at[t]]} /\ \A u \in Callers : Holds(u)' = Holds(u)
  BY <1>1, HoldsSame DEF Holds
<1> QED
  BY <1>1, <1>2, <1>3 DEF CallerInv

LEMMA DonePass ==
    ASSUME PlaceInv, CallerInv, NEW t \in Callers, Done(t)
    PROVE  /\ Order[at[t]] \in Slot
           /\ Holds(t) = {Order[at[t]]} /\ Holds(t)' = {}
           /\ next[t] > Len(view[t])
           /\ \A u \in Callers \ {t} :
                 Holds(u)' = Holds(u) /\ next'[u] = next[u] /\ view'[u] = view[u]
           /\ UNCHANGED <<inner, freed>>
<1>1. /\ pc[t] = "each" /\ at[t] # 0 /\ Advance(t) /\ next[t] > Len(view[t])
      /\ view' = [view EXCEPT ![t] = <<>>] /\ next' = [next EXCEPT ![t] = 0]
      /\ UNCHANGED <<inner, freed>>
  BY DEF Done, PlaceInv
<1>2. Order[at[t]] \in Slot
  BY <1>1, OrderFacts DEF PlaceInv
<1>3. Holds(t) = {Order[at[t]]} /\ Holds(t)' = {} /\ \A u \in Callers \ {t} : Holds(u)' = Holds(u)
  BY <1>1, AdvanceHolds DEF Holds
<1> QED
  BY <1>1, <1>2, <1>3 DEF CallerInv

LEMMA SwapPass ==
    ASSUME StartInstall \/ FailInstall \/ StartUninstall \/ Swapping \/ UNCHANGED vars
    PROVE  (\A t \in Callers : Holds(t)' = Holds(t)) /\ UNCHANGED <<view, next>>
BY DEF StartInstall, FailInstall, StartUninstall, Swapping, Request, Lock, Replace, vars,
       callers, Holds

LEMMA PosStep == SlotInv /\ PlaceInv /\ CallerInv /\ PosInv /\ [Next]_vars => PosInv'
<1> SUFFICES ASSUME SlotInv, PlaceInv, CallerInv, PosInv, [Next]_vars
             PROVE  PosInv'
  OBVIOUS
<1>0. \A t \in Callers : next[t] \in Nat /\ Len(view[t]) \in Nat
  BY LenProperties DEF CallerInv
<1>1. ASSUME NEW t \in Callers,
             Dispatch(t) \/ StartLookup(t) \/ Skip(t) \/ Peek(t) \/ Deref(t)
      PROVE  PosInv'
  BY <1>1, SamePlace DEF PosInv
<1>2. ASSUME NEW t \in Callers, Read(t) PROVE PosInv'
  <2>1. Len(inner[Order[at[t]]]) \in Nat
    BY <1>2, ReadPass, LenProperties DEF SlotInv
  <2> QED
    BY <1>2, <2>1, ReadPass DEF PosInv
<1>3. ASSUME NEW t \in Callers, Each(t) PROVE PosInv'
  BY <1>0, <1>3, EachPass DEF PosInv
<1>4. ASSUME NEW t \in Callers, Done(t) PROVE PosInv'
  BY <1>4, DonePass DEF PosInv
<1>5. CASE StartInstall \/ FailInstall \/ StartUninstall \/ Swapping \/ UNCHANGED vars
  BY <1>5, SwapPass DEF PosInv
<1> QED
  BY <1>1, <1>2, <1>3, <1>4, <1>5 DEF Next, Step

\* What the steps of one thread are to the table.
LEMMA OnePass ==
    ASSUME NEW t \in Callers,
           \A u \in Callers \ {t} : Holds(u)' = Holds(u) /\ next'[u] = next[u]
    PROVE  /\ Within' = [Within EXCEPT ![t] = Holds(t)']
           /\ Called' = [Called EXCEPT ![t] = IF Holds(t)' = {} THEN 0 ELSE next'[t] - 1]
BY DEF Within, Called

LEMMA TableStep ==
    SlotInv /\ PlaceInv /\ CallerInv /\ LockInv /\ FreshInv /\ FreshInv' /\ SlotInv'
        /\ ViewInv /\ PosInv /\ [Next]_vars
    => [Table!Next]_(Table!vars)
<1> SUFFICES ASSUME SlotInv, PlaceInv, CallerInv, LockInv, FreshInv, FreshInv', SlotInv',
                    ViewInv, PosInv, [Next]_vars
             PROVE  [Table!Next]_(Table!vars)
  OBVIOUS
<1>0. \A t \in Callers : next[t] \in Nat /\ Len(view[t]) \in Nat
  BY LenProperties DEF CallerInv
<1>a. \A t \in Callers :
          /\ Within[t] = Holds(t)
          /\ Called[t] = IF Holds(t) = {} THEN 0 ELSE next[t] - 1
  BY DEF Within, Called
<1>1. ASSUME UNCHANGED <<inner, freed, next>>, \A t \in Callers : Holds(t)' = Holds(t)
      PROVE  UNCHANGED Table!vars
  BY <1>1 DEF Table!vars, Within, Called
<1>2. ASSUME NEW t \in Callers,
             Dispatch(t) \/ StartLookup(t) \/ Skip(t) \/ Peek(t) \/ Deref(t)
      PROVE  UNCHANGED Table!vars
  BY <1>1, <1>2, SamePlace
<1>3. ASSUME NEW t \in Callers, Read(t) PROVE Table!Next
  <2> DEFINE slot == Order[at[t]]
  <2>1. Table!Enter(t, slot)
    BY <1>3, <1>a, ReadPass, OnePass DEF Table!Enter
  <2> QED
    BY <1>3, <2>1, ReadPass DEF Table!Next
<1>4. ASSUME NEW t \in Callers, Each(t) PROVE Table!Next
  <2> DEFINE slot == Order[at[t]]
  <2>1. /\ slot \in Slot /\ Holds(t) = {slot} /\ Holds(t)' = {slot}
        /\ next[t] <= Len(view[t]) /\ next'[t] = next[t] + 1
        /\ \A u \in Callers \ {t} : Holds(u)' = Holds(u) /\ next'[u] = next[u]
        /\ UNCHANGED <<inner, freed, view>>
    BY <1>4, EachPass
  <2> HIDE DEF slot
  <2>2. view[t] = inner[slot] /\ next[t] \in 1 .. Len(view[t])
    BY <1>0, <2>1 DEF ViewInv, PosInv
  <2>3. Within' = [Within EXCEPT ![t] = {slot}] /\ Called' = [Called EXCEPT ![t] = next'[t] - 1]
    BY <2>1, OnePass
  <2>4. Within' = Within
    BY <2>1, <2>3 DEF Within
  <2>5. next'[t] - 1 = next[t]
    BY <1>0, <2>1
  <2>6. Within[t] = {slot} /\ Called[t] = next[t] - 1
    BY <1>a, <2>1
  <2>7. Called[t] + 1 = next[t] /\ Called[t] < Len(inner[slot])
    BY <1>0, <2>2, <2>6
  <2>8. Called' = [Called EXCEPT ![t] = Called[t] + 1]
    BY <2>3, <2>5, <2>7
  <2>9. Table!Call(t, slot)
    BY <2>1, <2>4, <2>6, <2>7, <2>8 DEF Table!Call
  <2> QED
    BY <2>1, <2>9 DEF Table!Next
<1>5. ASSUME NEW t \in Callers, Done(t) PROVE Table!Next
  <2> DEFINE slot == Order[at[t]]
  <2>1. /\ slot \in Slot /\ Holds(t) = {slot} /\ Holds(t)' = {}
        /\ next[t] > Len(view[t])
        /\ \A u \in Callers \ {t} : Holds(u)' = Holds(u) /\ next'[u] = next[u]
        /\ UNCHANGED <<inner, freed>>
    BY <1>5, DonePass
  <2> HIDE DEF slot
  <2>2. view[t] = inner[slot] /\ next[t] - 1 = Len(view[t])
    BY <1>0, <2>1 DEF ViewInv, PosInv
  <2>3. Within[t] = {slot} /\ Called[t] = Len(inner[slot])
    BY <1>a, <2>1, <2>2
  <2>4. Within' = [Within EXCEPT ![t] = {}] /\ Called' = [Called EXCEPT ![t] = 0]
    BY <2>1, OnePass
  <2>5. Table!Leave(t, slot)
    BY <2>1, <2>3, <2>4 DEF Table!Leave
  <2> QED
    BY <2>1, <2>5 DEF Table!Next
<1>6. CASE StartInstall \/ FailInstall \/ StartUninstall \/ Request \/ Lock \/ UNCHANGED vars
  <2>1. UNCHANGED <<inner, freed, next>>
    BY <1>6 DEF StartInstall, FailInstall, StartUninstall, Request, Lock, vars, slots, callers
  <2> QED
    BY <1>1, <1>6, <2>1, SwapPass DEF Swapping
<1>7. CASE Replace
  <2> DEFINE slot == Head(plan)
  <2>1. Writing(slot) /\ slot \in Slot
    BY <1>7, PlanFacts DEF Replace, Writing, SlotInv
  <2>2. \A t \in Callers : slot \notin Within[t]
    BY <1>a, <2>1 DEF LockInv
  <2>3. /\ \A other \in Slot \ {slot} : inner'[other] = inner[other]
        /\ freed' = freed \cup Elements(inner[slot])
    BY <1>7 DEF Replace, SlotInv
  <2>4. inner' \in [Slot -> Seq(Layer)] /\ Elements(inner'[slot]) \cap freed' = {}
    BY <2>1 DEF SlotInv, FreshInv
  <2>5. UNCHANGED <<Within, Called>>
    BY <1>7, SwapPass DEF Swapping, Within, Called
  <2>6. Table!Exchange(slot)
    BY <2>2, <2>3, <2>4, <2>5 DEF Table!Exchange, Table!Elements, Elements
  <2> QED
    BY <2>1, <2>6 DEF Table!Next
<1> QED
  BY <1>2, <1>3, <1>4, <1>5, <1>6, <1>7 DEF Next, Step, Swapping

\* The slots keep what LayerTable promises, for any number of threads, any configurations
\* and any number of calls: locks, waiting writers and nested lookups do not show in what
\* layers a callback gets to, and a replacement is one step to all that pass.
THEOREM ImplementsTable == Spec => TableSpec
<1> DEFINE Inv == SlotInv /\ PlaceInv /\ CallerInv /\ LockInv /\ FreshInv /\ ViewInv /\ PosInv
<1>1. Init => Inv
  <2>1. Init => ViewInv /\ PosInv
    BY DEF Init, ViewInv, PosInv, Holds
  <2> QED
    BY <2>1, InitInv, InitFresh
<1>2. Inv /\ [Next]_vars => Inv'
  BY SlotStep, PlaceStep, CallerStep, LockStep, FreshStep, ViewStep, PosStep
<1>3. Init => Table!Init
  <2> SUFFICES ASSUME Init PROVE Table!Init
    OBVIOUS
  <2>1. inner \in [Slot -> Seq(Layer)]
    BY InitInv DEF SlotInv
  <2> QED
    BY <2>1 DEF Init, Table!Init, Within, Called, Holds
<1>4. Inv /\ Inv' /\ [Next]_vars => [Table!Next]_(Table!vars)
  BY TableStep
<1> QED
  BY <1>1, <1>2, <1>3, <1>4, PTL DEF Spec, TableSpec, Table!Spec

----------------------------------------------------------------------------
(* Who waits for whom.                                                       *)

\* Only the slot at the head of the plan keeps readers out, and those of its readers
\* that are kept out are in it already.
LEMMA BlockedAtHead ==
    ASSUME SlotInv, PlaceInv, LockInv, NEW t \in Callers, Blocked(t)
    PROVE  /\ swap = "writing" \/ swap = "waiting"
           /\ \A u \in readers[Head(plan)] :
                 u \in Callers /\ pc[u] # "idle" /\ (Blocked(u) => Reentering(u))
<1>1. PICK slot \in Slot : ~Admits(slot)
  BY OrderFacts DEF Blocked, PlaceInv
<1>2. /\ plan # <<>> /\ swap \in {"writing", "waiting"}
      /\ \A s \in Slot : ~Admits(s) => s = Head(plan)
  BY <1>1 DEF Admits, Writing, Waiting
<1>3. ASSUME NEW u \in readers[Head(plan)]
      PROVE  u \in Callers /\ pc[u] # "idle" /\ (Blocked(u) => Reentering(u))
  <2>1. Head(plan) \in Slot
    BY <1>2, PlanFacts DEF SlotInv
  <2>2. u \in Callers /\ Head(plan) \in Holds(u)
    BY <1>3, <2>1 DEF LockInv
  <2>3. pc[u] # "idle" /\ pc[u] # "read"
    BY <2>2 DEF Holds, PlaceInv
  <2>4. ASSUME Blocked(u) PROVE Reentering(u)
    <3>1. pc[u] = "lookup" /\ ~Admits(Order[look[u]])
      BY <2>3, <2>4 DEF Blocked
    <3>2. Order[look[u]] \in Slot
      BY <2>2, <3>1, OrderFacts DEF PlaceInv
    <3>3. Order[look[u]] = Head(plan)
      BY <1>2, <3>1, <3>2
    <3> QED
      BY <2>2, <3>1, <3>3 DEF Reentering
  <2> QED
    BY <2>2, <2>3, <2>4
<1> QED
  BY <1>2, <1>3

\* Threads that record, init and shutdown only ever wait for each other in a circle when
\* a thread reads a slot again from inside of it: for any number of threads, any layers
\* in any slot, and any filter.
THEOREM OnlyReentryBlocks == Spec => []StuckOnlyByReentry
<1> DEFINE Inv == SlotInv /\ PlaceInv /\ LockInv
<1>1. Init => Inv
  BY InitInv
<1>2. Inv /\ [Next]_vars => Inv'
  BY SlotStep, PlaceStep, LockStep
<1>3. Inv => StuckOnlyByReentry
  BY BlockedAtHead DEF StuckOnlyByReentry, LockInv, SlotInv
<1> QED
  BY <1>1, <1>2, <1>3, PTL DEF Spec

\* From inside of a slot only an SLS layer looks anything up: for a thread in a span, and
\* of an event that the layer forwards.
Inside(t) ==
    /\ t \in Spanned
    /\ callback[t] = "on_event" /\ SlsForwards(EventLevel(t))
    /\ \E layer \in Elements(view[t]) : layer[4] = "sls"

LookupInv ==
    \A t \in Callers :
        /\ at[t] # 0 /\ pc[t] # "read" => next[t] # 0
        /\ at[t] # 0 /\ pc[t] \in {"lookup", "deref"} => Inside(t)

LEMMA LookupStep == PlaceInv /\ CallerInv /\ LookupInv /\ [Next]_vars => LookupInv'
<1> SUFFICES ASSUME PlaceInv, CallerInv, LookupInv, [Next]_vars
             PROVE  LookupInv'
  OBVIOUS
<1> USE DEF LookupInv
\* What a thread does says nothing about the others.
<1>1. ASSUME NEW t \in Callers, NEW u \in Callers, u # t,
             Dispatch(t) \/ StartLookup(t) \/ Step(t)
      PROVE  /\ pc'[u] = pc[u] /\ at'[u] = at[u]
             /\ callback'[u] = callback[u] /\ levelno'[u] = levelno[u] /\ view'[u] = view[u]
             /\ next'[u] = next[u]
  BY <1>1 DEF PlaceInv, CallerInv, Dispatch, StartLookup, Step, Skip, Read, Each, Done, Peek,
              Deref, Advance, Resume
<1>2. ASSUME NEW u \in Callers,
             pc'[u] = pc[u], at'[u] = at[u], callback'[u] = callback[u],
             levelno'[u] = levelno[u], view'[u] = view[u], next'[u] = next[u]
      PROVE  /\ at'[u] # 0 /\ pc'[u] # "read" => next'[u] # 0
             /\ at'[u] # 0 /\ pc'[u] \in {"lookup", "deref"} => Inside(u)'
  BY <1>2 DEF Inside, EventLevel
<1>3. ASSUME NEW t \in Callers, Dispatch(t) \/ StartLookup(t) \/ Step(t),
             pc'[t] \in {"lookup", "deref"}, at'[t] # 0
      PROVE  Inside(t)'
  <2>1. CASE Dispatch(t) \/ StartLookup(t) \/ Skip(t) \/ Read(t) \/ Done(t) \/ Deref(t)
    BY <1>3, <2>1 DEF Dispatch, StartLookup, Skip, Read, Done, Deref, Advance, Resume, PlaceInv
  <2>2. CASE Each(t)
    <3>1. /\ LooksUp(t, view[t][next[t]])
          /\ UNCHANGED <<callback, levelno, view>>
          /\ next[t] <= Len(view[t])
      BY <1>3, <2>2 DEF Each
    <3>2. view[t][next[t]] \in Elements(view[t])
      <4>1. next[t] # 0
        BY <2>2 DEF Each, PlaceInv
      <4> QED
        BY <3>1, <4>1 DEF Elements, CallerInv
    <3> QED
      BY <3>1, <3>2 DEF LooksUp, Inside, EventLevel
  <2>3. CASE Peek(t)
    <3>1. pc[t] = "lookup" /\ UNCHANGED <<at, callback, levelno, view>>
      BY <2>3 DEF Peek
    <3> QED
      BY <1>3, <3>1 DEF Inside, EventLevel
  <2> QED
    BY <1>3, <2>1, <2>2, <2>3 DEF Step
<1>4. ASSUME UNCHANGED callers PROVE LookupInv'
  BY <1>2, <1>4 DEF callers
<1>n. ASSUME NEW t \in Callers, Dispatch(t) \/ StartLookup(t) \/ Step(t),
             at'[t] # 0, pc'[t] # "read"
      PROVE  next'[t] # 0
  <2>1. CASE Dispatch(t) \/ StartLookup(t) \/ Skip(t) \/ Done(t) \/ Peek(t) \/ Deref(t)
    BY <1>n, <2>1 DEF Dispatch, StartLookup, Skip, Done, Peek, Deref, Advance, Resume, PlaceInv
  <2>2. CASE Read(t) \/ Each(t)
    BY <2>2 DEF Read, Each, CallerInv
  <2> QED
    BY <1>n, <2>1, <2>2 DEF Step
<1>5. ASSUME NEW t \in Callers, Dispatch(t) \/ StartLookup(t) \/ Step(t) PROVE LookupInv'
  <2>1. ASSUME NEW u \in Callers, u # t
        PROVE  /\ at'[u] # 0 /\ pc'[u] # "read" => next'[u] # 0
               /\ at'[u] # 0 /\ pc'[u] \in {"lookup", "deref"} => Inside(u)'
    BY <1>1, <1>2, <1>5, <2>1
  <2> QED
    BY <1>3, <1>5, <1>n, <2>1
<1>6. CASE StartInstall \/ FailInstall \/ StartUninstall \/ Swapping
  BY <1>4, <1>6 DEF StartInstall, FailInstall, StartUninstall, Swapping, Request, Lock, Replace
<1> QED
  BY <1>4, <1>5, <1>6 DEF Next, vars

LEMMA LookupInvariant == Spec => [](SlotInv /\ PlaceInv /\ LockInv /\ LookupInv)
<1> DEFINE Inv == SlotInv /\ PlaceInv /\ CallerInv /\ LockInv /\ LookupInv
<1>1. Init => Inv
  <2>1. Init => LookupInv
    BY DEF Init, LookupInv
  <2> QED
    BY <2>1, InitInv
<1>2. Inv /\ [Next]_vars => Inv'
  BY SlotStep, PlaceStep, CallerStep, LockStep, LookupStep
<1>3. Inv => SlotInv /\ PlaceInv /\ LockInv /\ LookupInv
  OBVIOUS
<1> QED
  BY <1>1, <1>2, <1>3, PTL DEF Spec

\* A slot is read again only by a thread inside of a span, for an event that an SLS layer
\* of that slot forwards.
ReentryNeedsSpan == \A t \in Callers : Reentering(t) => Inside(t)

\* Threads without a span of their own, Python's among them, never do.
THEOREM OnlySpannedReenter == Spec => []ReentryNeedsSpan
<1>1. PlaceInv /\ LookupInv => ReentryNeedsSpan
  <2> SUFFICES ASSUME PlaceInv, LookupInv, NEW t \in Callers, Reentering(t)
               PROVE  Inside(t)
    BY DEF ReentryNeedsSpan
  <2>1. pc[t] = "lookup" /\ at[t] # 0
    BY DEF Reentering, Holds
  <2> QED
    BY <2>1 DEF LookupInv
<1> QED
  BY <1>1, LookupInvariant, PTL

\* A slot holds layers of the kinds that it is configured with, or the default one.
KindInv ==
    \A slot \in Slot : \A layer \in Elements(inner[slot]) :
        layer[4] = "sls" => "sls" \in Elements(Configured[slot])

LEMMA LayersKinds ==
    ASSUME NEW n, NEW slot, NEW kinds \in Seq(Kind), NEW layer \in Elements(Layers(n, slot, kinds))
    PROVE  layer[4] \in Elements(kinds)
<1>1. Len(kinds) \in Nat /\ Len(Layers(n, slot, kinds)) = Len(kinds)
  BY DEF Layers
<1>2. PICK i \in 1 .. Len(kinds) : layer = <<n, slot, i, kinds[i]>>
  BY <1>1 DEF Elements, Layers
<1> QED
  BY <1>2 DEF Elements

LEMMA DefaultKinds == \A slot \in Slot : "sls" \notin Elements(Default(slot))
BY TupleElements DEF Default

LEMMA KindStep == SlotInv /\ KindInv /\ [Next]_vars => KindInv'
<1> SUFFICES ASSUME SlotInv, KindInv, [Next]_vars
             PROVE  KindInv'
  OBVIOUS
<1>1. CASE Replace
  <2> DEFINE slot == Head(plan)
             kinds == IF installed THEN Configured[slot] ELSE Default(slot)
  <2>1. slot \in Slot
    BY <1>1, PlanFacts DEF Replace, SlotInv
  <2>2. inner' = [inner EXCEPT ![slot] = Layers(swaps, slot, kinds)]
    BY <1>1 DEF Replace
  <2>3. kinds \in Seq(Kind) /\ ("sls" \in Elements(kinds) => "sls" \in Elements(Configured[slot]))
    BY <2>1, KindsFacts, DefaultKinds
  <2> HIDE DEF slot, kinds
  <2>4. ASSUME NEW layer \in Elements(inner'[slot]), layer[4] = "sls"
        PROVE  "sls" \in Elements(Configured[slot])
    <3>1. layer \in Elements(Layers(swaps, slot, kinds))
      BY <2>1, <2>2, <2>4 DEF SlotInv
    <3> QED
      BY <2>3, <2>4, <3>1, LayersKinds
  <2>5. \A s \in Slot \ {slot} : inner'[s] = inner[s]
    BY <2>2 DEF SlotInv
  <2> QED
    BY <2>4, <2>5 DEF KindInv
<1>2. CASE ~Replace
  <2>1. inner' = inner
    BY <1>2 DEF Next, vars, slots, Dispatch, StartLookup, Step, Skip, Read, Each, Done, Peek,
                Deref, StartInstall, FailInstall, StartUninstall, Swapping, Request, Lock
  <2> QED
    BY <2>1 DEF KindInv
<1> QED
  BY <1>1, <1>2

\* Whoever waits, waits for somebody who can go on.
NobodyStuck ==
    \A t \in Callers : Blocked(t) =>
        \/ swap = "writing"
        \/ readers[Head(plan)] = {}
        \/ \E u \in readers[Head(plan)] : pc[u] # "idle" /\ ~Blocked(u)

\* A program that logs from no span, or has no SLS layer, never deadlocks in the slots,
\* however its threads, init and shutdown interleave.
THEOREM NoDeadlockWithoutReentry ==
    ASSUME Spanned = {} \/ \A slot \in Slot : "sls" \notin Elements(Configured[slot])
    PROVE  Spec => []NobodyStuck
<1> DEFINE Inv == SlotInv /\ PlaceInv /\ CallerInv /\ LockInv /\ ViewInv /\ LookupInv /\ KindInv
<1>1. Init => Inv
  <2>1. Init => ViewInv /\ LookupInv
    BY DEF Init, ViewInv, Holds, LookupInv
  <2>2. Init => KindInv
    BY KindsFacts, LayersKinds, DefaultKinds DEF Init, KindInv
  <2> QED
    BY <2>1, <2>2, InitInv
<1>2. Inv /\ [Next]_vars => Inv'
  BY SlotStep, PlaceStep, CallerStep, LockStep, ViewStep, LookupStep, KindStep
<1>3. Inv => NobodyStuck
  <2> SUFFICES ASSUME Inv, NEW t \in Callers, Blocked(t), swap # "writing",
                      readers[Head(plan)] # {}
               PROVE  \E u \in readers[Head(plan)] : pc[u] # "idle" /\ ~Blocked(u)
    BY DEF NobodyStuck
  <2>1. ASSUME NEW u \in Callers, Reentering(u) PROVE FALSE
    <3>1. pc[u] = "lookup" /\ at[u] # 0 /\ Holds(u) = {Order[at[u]]} /\ Order[at[u]] \in Slot
      BY <2>1, OrderFacts DEF Reentering, Holds, PlaceInv
    <3>2. Inside(u)
      BY <3>1 DEF LookupInv
    <3>3. \E layer \in Elements(inner[Order[at[u]]]) : layer[4] = "sls"
      BY <3>1, <3>2 DEF Inside, ViewInv
    <3> QED
      BY <3>1, <3>2, <3>3 DEF Inside, KindInv
  <2> QED
    BY <2>1, BlockedAtHead
<1> QED
  BY <1>1, <1>2, <1>3, PTL DEF Spec

=============================================================================
