----------------------------- MODULE Lifecycle -----------------------------
(***************************************************************************)
(* What init, shutdown and force_flush promise to concurrent callers: each *)
(* call takes effect at one instant between its start and its end, and     *)
(* init succeeds only if nothing is installed at that instant.             *)
(***************************************************************************)
CONSTANT Threads

VARIABLES running,  \* is a configuration installed
          call,     \* the call each thread is in, or "none"
          outcome   \* its outcome: "none" until it has taken effect

vars == <<running, call, outcome>>

Op == {"init", "shutdown", "force_flush"}

Init ==
    /\ running = FALSE
    /\ call = [t \in Threads |-> "none"]
    /\ outcome = [t \in Threads |-> "none"]

Start(t, op) ==
    /\ call[t] = "none"
    /\ call' = [call EXCEPT ![t] = op]
    /\ UNCHANGED <<running, outcome>>

\* The instant the call takes effect. An init may also fail on its own account.
Effect(t) ==
    /\ call[t] # "none"
    /\ outcome[t] = "none"
    /\ \/ /\ call[t] = "init" /\ ~running
          /\ running' = TRUE
          /\ outcome' = [outcome EXCEPT ![t] = "ok"]
       \/ /\ call[t] = "init"
          /\ running' = running
          /\ outcome' = [outcome EXCEPT ![t] = "error"]
       \/ /\ call[t] = "shutdown"
          /\ running' = FALSE
          /\ outcome' = [outcome EXCEPT ![t] = "ok"]
       \/ /\ call[t] = "force_flush"
          /\ running' = running
          /\ outcome' = [outcome EXCEPT ![t] = "ok"]
    /\ UNCHANGED call

Finish(t) ==
    /\ outcome[t] # "none"
    /\ call' = [call EXCEPT ![t] = "none"]
    /\ outcome' = [outcome EXCEPT ![t] = "none"]
    /\ UNCHANGED running

Next == \E t \in Threads : (\E op \in Op : Start(t, op)) \/ Effect(t) \/ Finish(t)

Spec == Init /\ [][Next]_vars
============================================================================
