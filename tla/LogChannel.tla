---------------------------- MODULE LogChannel ----------------------------
(***************************************************************************)
(* What a log sink promises, whatever its buffers: entries are settled in  *)
(* the order they were accepted, each exactly once, in groups that are     *)
(* stored or lost as a whole; a close request is answered only when all    *)
(* that had been accepted before it is settled; nothing is settled after.  *)
(***************************************************************************)
EXTENDS Naturals, Sequences

CONSTANT Entry      \* what can be logged

VARIABLES accepted, \* the entries taken over from the application, in order
          settled,  \* the prefix of them whose fate is decided
          stored,   \* the entries that reached the store
          status,   \* "open", "closing" (asked to close) or "closed"
          mark      \* how many entries had been accepted at the request

vars == <<accepted, settled, stored, status, mark>>

Init ==
    /\ accepted = <<>>
    /\ settled = <<>>
    /\ stored = <<>>
    /\ status = "open"
    /\ mark = 0

\* An entry is taken over; a closing channel may still do so, without promise.
Accept(e) ==
    /\ status # "closed"
    /\ accepted' = Append(accepted, e)
    /\ UNCHANGED <<settled, stored, status, mark>>

\* The fate of the next n entries is decided, the same for all of them.
Settle(n) ==
    LET next == SubSeq(accepted, Len(settled) + 1, Len(settled) + n)
    IN  /\ status # "closed"
        /\ settled' = settled \o next
        /\ stored' \in {stored, stored \o next}
        /\ UNCHANGED <<accepted, status, mark>>

RequestClose ==
    /\ status = "open"
    /\ status' = "closing"
    /\ mark' = Len(accepted)
    /\ UNCHANGED <<accepted, settled, stored>>

\* The channel closes; one that was never asked to has nothing left to settle.
Close ==
    /\ \/ status = "closing" /\ Len(settled) >= mark
       \/ status = "open" /\ settled = accepted
    /\ status' = "closed"
    /\ UNCHANGED <<accepted, settled, stored, mark>>

Next ==
    \/ \E e \in Entry : Accept(e)
    \/ \E n \in 1 .. (Len(accepted) - Len(settled)) : Settle(n)
    \/ RequestClose
    \/ Close

Spec == Init /\ [][Next]_vars
===========================================================================
