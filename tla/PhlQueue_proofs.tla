-------------------------- MODULE PhlQueue_proofs --------------------------
(* What the queue operations of phl/phl_util.c do to the set of linked nodes. *)
EXTENDS PhlQueue, TLAPS

\* pq_push links the new node, keeps the others, and links nothing twice when the
\* node was not linked before.
LEMMA PushLemma ==
    ASSUME NEW S, NEW q \in Seq(S), NEW x \in S
    PROVE  /\ pq_push(q, x) \in Seq(S)
           /\ \A y : Linked(pq_push(q, x), y) <=> (Linked(q, y) \/ y = x)
           /\ NoDup(q) /\ ~Linked(q, x) => NoDup(pq_push(q, x))
<1> DEFINE r == Append(q, x)
<1>1. /\ r \in Seq(S)
      /\ Len(r) = Len(q) + 1
      /\ Len(q) \in Nat
      /\ \A i \in 1..Len(q) : r[i] = q[i]
      /\ r[Len(q) + 1] = x
  OBVIOUS
<1>2. ASSUME NEW y
      PROVE  Linked(r, y) <=> (Linked(q, y) \/ y = x)
  <2>1. ASSUME NEW i \in 1..Len(r), r[i] = y
        PROVE  Linked(q, y) \/ y = x
    BY <1>1, <2>1 DEF Linked
  <2>2. ASSUME NEW i \in 1..Len(q), q[i] = y
        PROVE  Linked(r, y)
    BY <1>1, <2>2 DEF Linked
  <2>3. ASSUME y = x
        PROVE  Linked(r, y)
    BY <1>1, <2>3 DEF Linked
  <2> QED
    BY <2>1, <2>2, <2>3 DEF Linked
<1>3. ASSUME NoDup(q), ~Linked(q, x)
      PROVE  NoDup(r)
  BY <1>1, <1>3 DEF NoDup, Linked
<1> QED
  BY <1>1, <1>2, <1>3 DEF pq_push

\* pq_pop of a queue that is not empty takes out one linked node and keeps the
\* others; with no node linked twice the one taken is linked no more.
LEMMA PopLemma ==
    ASSUME NEW S, NEW q \in Seq(S), q # <<>>
    PROVE  /\ pq_front(q) \in S
           /\ pq_pop(q) \in Seq(S)
           /\ Linked(q, pq_front(q))
           /\ \A y : Linked(q, y) <=> (Linked(pq_pop(q), y) \/ y = pq_front(q))
           /\ NoDup(q) => NoDup(pq_pop(q)) /\ ~Linked(pq_pop(q), pq_front(q))
<1> DEFINE r == Tail(q)
<1>1. /\ r \in Seq(S)
      /\ Len(q) \in Nat \ {0}
      /\ Len(r) = Len(q) - 1
      /\ Head(q) = q[1] /\ Head(q) \in S
      /\ \A i \in 1..Len(r) : r[i] = q[i + 1]
  OBVIOUS
<1>2. ASSUME NEW y
      PROVE  Linked(q, y) <=> (Linked(r, y) \/ y = Head(q))
  <2>1. ASSUME NEW i \in 1..Len(q), q[i] = y
        PROVE  Linked(r, y) \/ y = Head(q)
    <3>1. CASE i = 1
      BY <3>1, <2>1, <1>1
    <3>2. CASE i # 1
      <4>1. i - 1 \in 1..Len(r) /\ r[i - 1] = y
        BY <3>2, <2>1, <1>1
      <4> QED
        BY <4>1 DEF Linked
    <3> QED
      BY <3>1, <3>2
  <2>2. ASSUME NEW i \in 1..Len(r), r[i] = y
        PROVE  Linked(q, y)
    <3>1. i + 1 \in 1..Len(q) /\ q[i + 1] = y
      BY <1>1, <2>2
    <3> QED
      BY <3>1 DEF Linked
  <2>3. 1 \in 1..Len(q) /\ q[1] = Head(q)
    BY <1>1
  <2> QED
    BY <2>1, <2>2, <2>3 DEF Linked
<1>3. ASSUME NoDup(q)
      PROVE  NoDup(r) /\ ~Linked(r, Head(q))
  <2>1. ASSUME NEW i \in 1..Len(r), NEW j \in 1..Len(r), r[i] = r[j]
        PROVE  i = j
    <3>1. i + 1 \in 1..Len(q) /\ j + 1 \in 1..Len(q) /\ q[i + 1] = q[j + 1]
      BY <1>1, <2>1
    <3>2. i + 1 = j + 1
      BY <1>3, <3>1 DEF NoDup
    <3> QED
      BY <3>2, <1>1
  <2>2. ASSUME NEW i \in 1..Len(r), r[i] = Head(q)
        PROVE  FALSE
    <3>1. i + 1 \in 1..Len(q) /\ 1 \in 1..Len(q) /\ q[i + 1] = q[1]
      BY <1>1, <2>2
    <3>2. i + 1 = 1
      BY <1>3, <3>1 DEF NoDup
    <3> QED
      BY <3>2, <1>1
  <2> QED
    BY <2>1, <2>2 DEF NoDup, Linked
<1> QED
  BY <1>1, <1>2, <1>3 DEF pq_front, pq_pop

\* Taking the front node is the removal of the node at the first position.
LEMMA FirstLemma ==
    ASSUME NEW S, NEW q \in Seq(S), q # <<>>
    PROVE  /\ 1 \in 1..Len(q)
           /\ pq_pop(q) = [i \in 1..(Len(q) - 1) |->
                              IF i < 1 THEN q[i] ELSE q[i + 1]]
<1> DEFINE r == Tail(q)
           f == [i \in 1..(Len(q) - 1) |-> IF i < 1 THEN q[i] ELSE q[i + 1]]
<1>1. Len(q) \in Nat \ {0}
  OBVIOUS
<1>2. /\ r \in Seq(S) /\ Len(r) = Len(q) - 1
      /\ \A i \in 1..Len(r) : r[i] = q[i + 1]
  OBVIOUS
<1>3. f \in Seq(S) /\ Len(f) = Len(q) - 1
  <2>1. \A i \in 1..(Len(q) - 1) : (IF i < 1 THEN q[i] ELSE q[i + 1]) \in S
    BY <1>1
  <2> QED
    BY <1>1, <2>1
<1>4. \A i \in 1..Len(r) : r[i] = f[i]
  BY <1>1, <1>2
<1> HIDE DEF r, f
<1>5. r = f
  <2>1. DOMAIN r = 1..Len(r) /\ DOMAIN f = 1..Len(f)
    BY <1>2, <1>3
  <2>2. r = [i \in DOMAIN r |-> r[i]] /\ f = [i \in DOMAIN f |-> f[i]]
    BY <1>2, <1>3
  <2> QED
    BY <1>2, <1>3, <1>4, <2>1, <2>2, Zenon
<1> QED
  BY <1>1, <1>5 DEF pq_pop, r, f

\* pq_del_node of a linked node takes exactly that node out.
LEMMA DelLemma ==
    ASSUME NEW S, NEW q \in Seq(S), NEW x, Linked(q, x), NoDup(q)
    PROVE  /\ pq_del_node(q, x) \in Seq(S)
           /\ NoDup(pq_del_node(q, x))
           /\ \A y : Linked(pq_del_node(q, x), y) <=> (Linked(q, y) /\ y # x)
           /\ \E k \in 1..Len(q) :
                 pq_del_node(q, x) = [i \in 1..(Len(q) - 1) |->
                                         IF i < k THEN q[i] ELSE q[i + 1]]
<1> DEFINE k == CHOOSE i \in 1..Len(q) : q[i] = x
           r == [i \in 1..(Len(q) - 1) |-> IF i < k THEN q[i] ELSE q[i + 1]]
<1>1. k \in 1..Len(q) /\ q[k] = x
  BY DEF Linked
<1> HIDE DEF k
<1>2. Len(q) \in Nat /\ \A i \in 1..Len(q) : q[i] \in S
  OBVIOUS
<1>3. /\ r \in Seq(S)
      /\ Len(r) = Len(q) - 1
      /\ \A i \in 1..Len(r) : r[i] = IF i < k THEN q[i] ELSE q[i + 1]
  <2>1. Len(q) - 1 \in Nat
    BY <1>1, <1>2
  <2>2. \A i \in 1..(Len(q) - 1) : (IF i < k THEN q[i] ELSE q[i + 1]) \in S
    BY <1>1, <1>2
  <2> QED
    BY <2>1, <2>2
<1> HIDE DEF r
<1>4. NoDup(r)
  <2>1. ASSUME NEW i \in 1..Len(r), NEW j \in 1..Len(r), r[i] = r[j]
        PROVE  i = j
    <3> DEFINE ii == IF i < k THEN i ELSE i + 1
               jj == IF j < k THEN j ELSE j + 1
    <3>1. ii \in 1..Len(q) /\ jj \in 1..Len(q) /\ q[ii] = q[jj]
      BY <1>1, <1>2, <1>3, <2>1
    <3>2. ii = jj
      BY <3>1 DEF NoDup
    <3> QED
      BY <3>2, <1>1, <1>2, <1>3
  <2> QED
    BY <2>1 DEF NoDup
<1>5. ASSUME NEW y
      PROVE  Linked(r, y) <=> (Linked(q, y) /\ y # x)
  <2>1. ASSUME NEW i \in 1..Len(r), r[i] = y
        PROVE  Linked(q, y) /\ y # x
    <3> DEFINE ii == IF i < k THEN i ELSE i + 1
    <3>1. ii \in 1..Len(q) /\ q[ii] = y /\ ii # k
      BY <1>1, <1>2, <1>3, <2>1
    <3>2. y # x
      BY <3>1, <1>1 DEF NoDup
    <3> QED
      BY <3>1, <3>2 DEF Linked
  <2>2. ASSUME NEW i \in 1..Len(q), q[i] = y, y # x
        PROVE  Linked(r, y)
    <3> DEFINE ii == IF i < k THEN i ELSE i - 1
    <3>1. i # k
      BY <2>2, <1>1
    <3>2. ii \in 1..Len(r) /\ r[ii] = y
      BY <3>1, <2>2, <1>1, <1>2, <1>3
    <3> QED
      BY <3>2 DEF Linked
  <2> QED
    BY <2>1, <2>2 DEF Linked
<1>6. pq_del_node(q, x) = r
  BY DEF pq_del_node, k, r
<1> QED
  BY <1>1, <1>3, <1>4, <1>5, <1>6 DEF r
=============================================================================
