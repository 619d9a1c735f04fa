---------------------------- MODULE LayerTable ----------------------------
(***************************************************************************)
(* What the slots promise to whatever passes through them, however they    *)
(* are locked and wherever threads wait: a pass calls the layers that are  *)
(* in the slot, each once, from the first to the last; a slot's layers are *)
(* exchanged as a whole and while nobody passes through it; and layers     *)
(* that have been exchanged are dropped and never come back.               *)
(***************************************************************************)
EXTENDS Naturals, Sequences

CONSTANTS Callers,  \* the threads that pass
          Slot,     \* the slots
          Layer     \* what can be in a slot

VARIABLES current,  \* the layers of each slot
          gone,     \* the layers that have been dropped
          within,   \* the slot that each thread passes through: a set of at most one
          called    \* how many of its layers have been called

vars == <<current, gone, within, called>>

Elements(seq) == {seq[i] : i \in 1 .. Len(seq)}

Init ==
    /\ current \in [Slot -> Seq(Layer)]
    /\ gone = {}
    /\ within = [t \in Callers |-> {}]
    /\ called = [t \in Callers |-> 0]

Enter(t, slot) ==
    /\ within[t] = {}
    /\ within' = [within EXCEPT ![t] = {slot}]
    /\ called' = [called EXCEPT ![t] = 0]
    /\ UNCHANGED <<current, gone>>

\* The next layer of those that are in the slot now.
Call(t, slot) ==
    /\ within[t] = {slot}
    /\ called[t] < Len(current[slot])
    /\ called' = [called EXCEPT ![t] = @ + 1]
    /\ UNCHANGED <<current, gone, within>>

Leave(t, slot) ==
    /\ within[t] = {slot}
    /\ called[t] = Len(current[slot])
    /\ within' = [within EXCEPT ![t] = {}]
    /\ called' = [called EXCEPT ![t] = 0]
    /\ UNCHANGED <<current, gone>>

Exchange(slot) ==
    /\ \A t \in Callers : slot \notin within[t]
    /\ current' \in [Slot -> Seq(Layer)]
    /\ \A other \in Slot \ {slot} : current'[other] = current[other]
    /\ gone' = gone \cup Elements(current[slot])
    /\ Elements(current'[slot]) \cap gone' = {}
    /\ UNCHANGED <<within, called>>

Next ==
    \E slot \in Slot :
        \/ \E t \in Callers : Enter(t, slot) \/ Call(t, slot) \/ Leave(t, slot)
        \/ Exchange(slot)

Spec == Init /\ [][Next]_vars
===========================================================================
