------------------------------ MODULE FgToken ------------------------------
(***************************************************************************)
(* What a command dispatcher promises its foreground requestors, without    *)
(* threads, pools, status flags or messages: requests queue up, at most one  *)
(* of them owns the token, the token goes to the one that has waited         *)
(* longest, and a request leaves either from the queue (it was cancelled, or *)
(* the dispatcher stops) or by giving up the token.                           *)
(***************************************************************************)
EXTENDS Integers, Sequences

CONSTANTS Requests, NULL

VARIABLES queue, owner

Init == queue = <<>> /\ owner = NULL

\* A request queues up; it is not queued or served already.
Enter ==
    \E r \in Requests :
        /\ r # owner
        /\ \A i \in 1..Len(queue) : queue[i] # r
        /\ queue' = Append(queue, r)
        /\ owner' = owner

\* The token is free and goes to the first in the queue.
Take ==
    /\ owner = NULL
    /\ queue # <<>>
    /\ owner' = Head(queue)
    /\ queue' = Tail(queue)

\* The owner gives the token up.
Leave ==
    /\ owner # NULL
    /\ owner' = NULL
    /\ queue' = queue

\* A waiting request leaves the queue; the others keep their order.
Withdraw ==
    \E k \in 1..Len(queue) :
        /\ queue' = [i \in 1..(Len(queue) - 1) |->
                        IF i < k THEN queue[i] ELSE queue[i + 1]]
        /\ owner' = owner

Next == Enter \/ Take \/ Leave \/ Withdraw

Spec == Init /\ [][Next]_<<queue, owner>>
=============================================================================
