------------------------------ MODULE PhlQueue ------------------------------
(***************************************************************************)
(* The intrusive list queue `struct phl_queue` of phl/phl_util.c.  Every    *)
(* pq_* function runs entirely under the queue's own spinlock, so each one  *)
(* is a single function of the queue; a queue is the sequence of the nodes  *)
(* that are linked in it, front first.  The node itself is identified with  *)
(* the object that embeds it.                                               *)
(***************************************************************************)
EXTENDS Integers, Sequences

\* The node x is linked in queue q.
Linked(q, x) == \E i \in 1..Len(q) : q[i] = x

\* No node is linked twice.
NoDup(q) == \A i, j \in 1..Len(q) : q[i] = q[j] => i = j

\* pq_push(.., _tail): list_add_tail.
pq_push(q, x) == Append(q, x)

\* pq_pop(.., _first): the node taken, and the queue that is left.
pq_front(q) == Head(q)

\* Mutant: the node is read and stays linked.
pq_pop_Stays(q) == q

pq_pop(q) == Tail(q)

\* Mutant: the node stays linked.
pq_del_node_Stays(q, x) == q

\* pq_del_node: list_del of a node that is linked in q.  On a node that is not
\* linked the kernel's list_del follows poisoned pointers; the callers say so.
pq_del_node(q, x) ==
    LET k == CHOOSE i \in 1..Len(q) : q[i] = x
    IN  [i \in 1..(Len(q) - 1) |-> IF i < k THEN q[i] ELSE q[i + 1]]

\* pq_insert: in front of the first node over which x takes precedence (the set of
\* nodes y with predicate(x, y)), at the tail when there is none.
pq_insert(q, x, lower) ==
    LET n == CHOOSE k \in 0..Len(q) : /\ \A i \in 1..k : q[i] \notin lower
                                      /\ k < Len(q) => q[k + 1] \in lower
    IN  [i \in 1..(Len(q) + 1) |-> IF i <= n THEN q[i]
                                   ELSE IF i = n + 1 THEN x ELSE q[i - 1]]
=============================================================================
