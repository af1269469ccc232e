--------------------------- MODULE Queue_lemmas ---------------------------
(***************************************************************************)
(* What the proofs need to know of the queues of the runner: first-in,     *)
(* first-out sequences in which nobody stands twice.  The two definitions  *)
(* stay folded outside this module, so that a proof about a step is about  *)
(* who is in a queue and who is first, never about indices.                *)
(***************************************************************************)
EXTENDS Integers, Sequences, TLAPS

In(x, q) == \E i \in 1..Len(q) : q[i] = x
NoneTwice(q) == \A i, j \in 1..Len(q) : q[i] = q[j] => i = j

LEMMA EmptyQueue ==
    ASSUME NEW S
    PROVE  /\ << >> \in Seq(S)
           /\ NoneTwice(<< >>)
           /\ \A x : ~In(x, << >>)
BY DEF In, NoneTwice

LEMMA QueueHead ==
    ASSUME NEW S, NEW q \in Seq(S), q # << >>
    PROVE  /\ Head(q) \in S
           /\ In(Head(q), q)
BY DEF In

LEMMA QueueIn ==
    ASSUME NEW S, NEW q \in Seq(S), NEW x, In(x, q)
    PROVE  q # << >> /\ x \in S
BY DEF In

(* the last arrival comes behind the others *)
LEMMA QueueAppend ==
    ASSUME NEW S, NEW q \in Seq(S), NEW x \in S
    PROVE  /\ Append(q, x) \in Seq(S)
           /\ Append(q, x) # << >>
           /\ \A y : In(y, Append(q, x)) <=> In(y, q) \/ y = x
           /\ Head(Append(q, x)) = IF q = << >> THEN x ELSE Head(q)
           /\ NoneTwice(q) /\ ~In(x, q) => NoneTwice(Append(q, x))
<1> DEFINE r == Append(q, x)
<1>1. r \in Seq(S) /\ Len(r) = Len(q) + 1 /\ r[Len(r)] = x
      /\ \A i \in 1..Len(q) : r[i] = q[i]
  OBVIOUS
<1>2. r # << >>
  BY <1>1
<1>3. ASSUME NEW y PROVE In(y, r) <=> In(y, q) \/ y = x
  BY <1>1 DEF In
<1>4. Head(r) = IF q = << >> THEN x ELSE Head(q)
  <2>1. CASE q = << >>
    BY <2>1
  <2>2. CASE q # << >>
    BY <2>2, <1>1
  <2> QED BY <2>1, <2>2
<1>5. NoneTwice(q) /\ ~In(x, q) => NoneTwice(r)
  <2> HIDE DEF r
  <2> QED BY <1>1 DEF In, NoneTwice
<1> QED BY <1>1, <1>2, <1>3, <1>4, <1>5

(* the first leaves, and nobody else does *)
LEMMA QueueTail ==
    ASSUME NEW S, NEW q \in Seq(S), q # << >>, NoneTwice(q)
    PROVE  /\ Tail(q) \in Seq(S)
           /\ NoneTwice(Tail(q))
           /\ \A y : In(y, Tail(q)) <=> In(y, q) /\ y # Head(q)
<1> DEFINE r == Tail(q)
<1>1. r \in Seq(S) /\ Len(r) = Len(q) - 1 /\ Len(q) \in Nat \ {0}
      /\ \A i \in 1..Len(r) : r[i] = q[i + 1]
  OBVIOUS
<1>2. Head(q) = q[1]
  OBVIOUS
<1> HIDE DEF r
<1>3. NoneTwice(r)
  BY <1>1 DEF NoneTwice
<1>4. ASSUME NEW y, In(y, r) PROVE In(y, q) /\ y # Head(q)
  <2>1. PICK i \in 1..Len(r) : r[i] = y
    BY <1>4 DEF In
  <2>2. i + 1 \in 1..Len(q) /\ q[i + 1] = y /\ i + 1 # 1
    BY <2>1, <1>1
  <2> QED BY <2>2, <1>1, <1>2 DEF In, NoneTwice
<1>5. ASSUME NEW y, In(y, q), y # Head(q) PROVE In(y, r)
  <2>1. PICK i \in 1..Len(q) : q[i] = y
    BY <1>5 DEF In
  <2>2. i # 1 /\ i - 1 \in 1..Len(r) /\ r[i - 1] = q[(i - 1) + 1] /\ (i - 1) + 1 = i
    BY <2>1, <1>1, <1>2, <1>5
  <2> QED BY <2>1, <2>2 DEF In
<1> QED BY <1>1, <1>3, <1>4, <1>5 DEF r

(* the second becomes the first *)
LEMMA QueueSecond ==
    ASSUME NEW S, NEW q \in Seq(S), Len(q) > 1
    PROVE  /\ q[2] \in S
           /\ Tail(q) # << >>
           /\ Head(Tail(q)) = q[2]
<1> DEFINE r == Tail(q)
<1>1. r \in Seq(S) /\ Len(r) = Len(q) - 1 /\ Len(q) \in Nat
      /\ \A i \in 1..Len(r) : r[i] = q[i + 1]
  OBVIOUS
<1>2. q[2] \in S
  BY <1>1
<1> HIDE DEF r
<1>3. Len(r) \in Nat \ {0}
  BY <1>1
<1>4. r # << >> /\ r[1] = q[2]
  BY <1>1, <1>3
<1>5. Head(r) = r[1]
  BY <1>1, <1>4
<1> QED BY <1>2, <1>4, <1>5 DEF r

LEMMA QueueNoSecond ==
    ASSUME NEW S, NEW q \in Seq(S), q # << >>, ~(Len(q) > 1)
    PROVE  Tail(q) = << >>
<1> DEFINE r == Tail(q)
<1>1. r \in Seq(S) /\ Len(r) = Len(q) - 1 /\ Len(q) \in Nat \ {0}
  OBVIOUS
<1>2. Len(q) = 1
  BY <1>1
<1> HIDE DEF r
<1>3. r \in Seq(S) /\ Len(r) = 0
  BY <1>1, <1>2
<1>4. r = << >>
  BY <1>3
<1> QED BY <1>4 DEF r

LEMMA QueueJoin ==
    ASSUME NEW S, NEW q \in Seq(S), NEW x \in S
    PROVE  q \o <<x>> = Append(q, x) /\ q \o << >> = q
OBVIOUS
============================================================================
