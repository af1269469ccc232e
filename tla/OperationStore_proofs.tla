---------------------- MODULE OperationStore_proofs ----------------------
(***************************************************************************)
(* The discipline of the store's queues, whoever uses them.  An actor is   *)
(* out, waits for the answer to a request of its own, or patches a record; *)
(* it waits in the record's queue, and once it has read it writes.  Each   *)
(* lemma is one way in which an actor moves on.                            *)
(***************************************************************************)
EXTENDS OperationStore, Queue_lemmas

Roles == {"out", "asks", "patches", "writes"}
Patchers == {"patches", "writes"}

Disciplined(role, of, d, pq) ==
    /\ role \in [Actors -> Roles] /\ of \in [Actors -> Ops]
    /\ d \in Seq(Actors) /\ pq \in [Ops -> Seq(Actors)]
    /\ NoneTwice(d)
    /\ \A o \in Ops : NoneTwice(pq[o])
    /\ \A o \in Ops : \A a \in Actors :
          In(a, pq[o]) <=> of[a] = o /\ role[a] \in Patchers
    /\ \A a \in Actors :
          In(a, d) <=> \/ role[a] = "asks"
                       \/ role[a] \in Patchers /\ Head(pq[of[a]]) = a
    /\ \A a \in Actors : role[a] = "writes" => Head(pq[of[a]]) = a

(* Of the actors that have read a record and not yet written it there is   *)
(* one at most: enqueuePatch makes patches atomic.                         *)
LEMMA WriterIsAlone ==
    ASSUME NEW role, NEW of, NEW d, NEW pq, Disciplined(role, of, d, pq),
           NEW a \in Actors, NEW b \in Actors,
           role[a] = "writes", role[b] = "writes", of[a] = of[b]
    PROVE  a = b
BY DEF Disciplined

(* who is answered is the first of dbq *)
LEMMA AnsweredActor ==
    ASSUME NEW role, NEW of, NEW d, NEW pq, Disciplined(role, of, d, pq),
           d # << >>, NEW a, Head(d) = a
    PROVE  /\ a \in Actors
           /\ role[a] # "out"
           /\ role[a] \in Patchers => pq[of[a]] # << >> /\ Head(pq[of[a]]) = a
<1>1. a \in Actors /\ In(a, d)
  BY QueueHead DEF Disciplined
<1>2. role[a] \in Patchers => pq[of[a]] # << >>
  BY <1>1, QueueIn DEF Disciplined
<1> QED BY <1>1, <1>2 DEF Disciplined, Roles, Patchers

LEMMA MoveNothing ==
    ASSUME NEW role, NEW of, NEW d, NEW pq, Disciplined(role, of, d, pq),
           NEW a \in Actors, role[a] = "out", NEW o \in Ops
    PROVE  Disciplined(role, [of EXCEPT ![a] = o], d, pq)
BY DEF Disciplined, Roles, Patchers

LEMMA MoveAsk ==
    ASSUME NEW role, NEW of, NEW d, NEW pq, Disciplined(role, of, d, pq),
           NEW a \in Actors, role[a] = "out"
    PROVE  Disciplined([role EXCEPT ![a] = "asks"], of, Append(d, a), pq)
<1>1. ~In(a, d)
  BY DEF Disciplined, Patchers
<1>2. /\ Append(d, a) \in Seq(Actors)
      /\ \A y : In(y, Append(d, a)) <=> In(y, d) \/ y = a
      /\ NoneTwice(Append(d, a))
  BY <1>1, QueueAppend, Zenon DEF Disciplined
<1> QED BY <1>2 DEF Disciplined, Roles, Patchers

LEMMA MoveAskNoMore ==
    ASSUME NEW role, NEW of, NEW d, NEW pq, Disciplined(role, of, d, pq),
           d # << >>, NEW a \in Actors, Head(d) = a, role[a] = "asks"
    PROVE  Disciplined([role EXCEPT ![a] = "out"], of, Tail(d), pq)
<1>1. /\ Tail(d) \in Seq(Actors)
      /\ NoneTwice(Tail(d))
      /\ \A y : In(y, Tail(d)) <=> In(y, d) /\ y # a
  BY QueueTail, Zenon DEF Disciplined
<1> QED BY <1>1 DEF Disciplined, Roles, Patchers

LEMMA MoveAskAgain ==
    ASSUME NEW role, NEW of, NEW d, NEW pq, Disciplined(role, of, d, pq),
           d # << >>, NEW a \in Actors, Head(d) = a, role[a] = "asks"
    PROVE  Disciplined(role, of, Append(Tail(d), a), pq)
<1> DEFINE out == [role EXCEPT ![a] = "out"]
<1>1. Disciplined(out, of, Tail(d), pq)
  BY MoveAskNoMore, Zenon
<1>2. out[a] = "out"
  BY DEF Disciplined
<1>3. Disciplined([out EXCEPT ![a] = "asks"], of, Append(Tail(d), a), pq)
  <2> HIDE DEF out
  <2> QED BY <1>1, <1>2, MoveAsk, Zenon
<1>4. [out EXCEPT ![a] = "asks"] = role
  BY DEF Disciplined
<1> QED BY <1>3, <1>4

(* a patch has been read and its write is sent *)
LEMMA MoveWrite ==
    ASSUME NEW role, NEW of, NEW d, NEW pq, Disciplined(role, of, d, pq),
           d # << >>, NEW a \in Actors, Head(d) = a, role[a] \in Patchers
    PROVE  Disciplined([role EXCEPT ![a] = "writes"], of, Append(Tail(d), a), pq)
<1> DEFINE td == Tail(d)
           ad == Append(td, a)
<1>0. Head(pq[of[a]]) = a
  BY AnsweredActor
<1>b. d \in Seq(Actors) /\ NoneTwice(d)
  BY DEF Disciplined
<1>1. In(a, d)
  BY <1>b, QueueHead
<1>2. td \in Seq(Actors) /\ NoneTwice(td) /\ \A y : In(y, td) <=> In(y, d) /\ y # a
  BY QueueTail, Zenon DEF Disciplined
<1> HIDE DEF td
<1>3. /\ ad \in Seq(Actors) /\ NoneTwice(ad)
      /\ \A y : In(y, ad) <=> In(y, td) \/ y = a
  BY <1>2, QueueAppend
<1> HIDE DEF ad
<1>4. Disciplined([role EXCEPT ![a] = "writes"], of, ad, pq)
  BY <1>0, <1>1, <1>2, <1>3 DEF Disciplined, Roles, Patchers
<1> QED BY <1>4 DEF ad, td

(* patchOperation is called with no request under way *)
LEMMA MoveStartPatch ==
    ASSUME NEW role, NEW of, NEW d, NEW pq, Disciplined(role, of, d, pq),
           NEW a \in Actors, role[a] = "out", NEW o \in Ops, of[a] = o
    PROVE  /\ pq[o] = << >> => Disciplined([role EXCEPT ![a] = "patches"], of,
                                 Append(d, a), [pq EXCEPT ![o] = Append(@, a)])
           /\ pq[o] # << >> => Disciplined([role EXCEPT ![a] = "patches"], of,
                                 d, [pq EXCEPT ![o] = Append(@, a)])
<1>0. pq[o] \in Seq(Actors) /\ d \in Seq(Actors) /\ ~In(a, d) /\ ~In(a, pq[o])
      /\ NoneTwice(d) /\ NoneTwice(pq[o])
  BY DEF Disciplined, Patchers
<1>1. /\ Append(d, a) \in Seq(Actors)
      /\ \A y : In(y, Append(d, a)) <=> In(y, d) \/ y = a
      /\ NoneTwice(Append(d, a))
  BY <1>0, QueueAppend, Zenon
<1> DEFINE app == Append(pq[o], a)
           ad == Append(d, a)
<1>2. app \in Seq(Actors) /\ NoneTwice(app)
      /\ (\A y : In(y, app) <=> In(y, pq[o]) \/ y = a)
      /\ Head(app) = IF pq[o] = << >> THEN a ELSE Head(pq[o])
  BY <1>0, QueueAppend
<1>3. pq[o] # << >> => Head(pq[o]) # a
  BY <1>0, QueueHead
<1>4. \A b \in Actors : In(b, pq[o]) => pq[o] # << >>
  BY <1>0, EmptyQueue
<1> HIDE DEF app, ad
<1>5. CASE pq[o] = << >>
  BY <1>0, <1>1, <1>2, <1>4, <1>5 DEF Disciplined, Roles, Patchers, app, ad
<1>6. CASE pq[o] # << >>
  BY <1>0, <1>2, <1>3, <1>4, <1>6 DEF Disciplined, Roles, Patchers, app, ad
<1> QED BY <1>5, <1>6

LEMMA MoveEnqueuePatch ==
    ASSUME NEW role, NEW of, NEW d, NEW pq, Disciplined(role, of, d, pq),
           d # << >>, NEW a \in Actors, Head(d) = a, role[a] = "asks",
           NEW o \in Ops, of[a] = o
    PROVE  /\ pq[o] = << >> => Disciplined([role EXCEPT ![a] = "patches"], of,
                                 Append(Tail(d), a), [pq EXCEPT ![o] = Append(@, a)])
           /\ pq[o] # << >> => Disciplined([role EXCEPT ![a] = "patches"], of,
                                 Tail(d), [pq EXCEPT ![o] = Append(@, a)])
<1> DEFINE out == [role EXCEPT ![a] = "out"]
           td == Tail(d)
<1>1. Disciplined(out, of, td, pq)
  BY MoveAskNoMore, Zenon
<1>2. out[a] = "out" /\ of[a] = o
  BY DEF Disciplined
<1>4. [out EXCEPT ![a] = "patches"] = [role EXCEPT ![a] = "patches"]
  BY DEF Disciplined
<1> HIDE DEF out, td
<1>3. /\ pq[o] = << >> => Disciplined([out EXCEPT ![a] = "patches"], of,
                              Append(td, a), [pq EXCEPT ![o] = Append(@, a)])
      /\ pq[o] # << >> => Disciplined([out EXCEPT ![a] = "patches"], of,
                              td, [pq EXCEPT ![o] = Append(@, a)])
  BY <1>1, <1>2, MoveStartPatch, Zenon
<1> QED BY <1>3, <1>4 DEF td

(* a patch is settled: the next one of the record sends its read *)
Woken(q) == IF Len(q) > 1 THEN <<q[2]>> ELSE << >>

LEMMA MoveSettle ==
    ASSUME NEW role, NEW of, NEW d, NEW pq, Disciplined(role, of, d, pq),
           d # << >>, NEW a \in Actors, Head(d) = a, role[a] \in Patchers,
           NEW o \in Ops, of[a] = o
    PROVE  Disciplined([role EXCEPT ![a] = "out"], of, Tail(d) \o Woken(pq[o]),
                       [pq EXCEPT ![o] = Tail(@)])
<1> DEFINE q == pq[o]
           td == Tail(d)
           tq == Tail(q)
           role2 == [role EXCEPT ![a] = "out"]
           pq2 == [pq EXCEPT ![o] = tq]
           d2 == td \o Woken(q)
<1>1. q # << >> /\ Head(q) = a
  BY AnsweredActor
<1>2. /\ d \in Seq(Actors) /\ NoneTwice(d)
      /\ \A p \in Ops : pq[p] \in Seq(Actors) /\ NoneTwice(pq[p])
      /\ q \in Seq(Actors) /\ NoneTwice(q)
  BY DEF Disciplined
<1>3. td \in Seq(Actors) /\ NoneTwice(td) /\ \A y : In(y, td) <=> In(y, d) /\ y # a
  BY <1>2, QueueTail
<1>4. tq \in Seq(Actors) /\ NoneTwice(tq) /\ \A y : In(y, tq) <=> In(y, q) /\ y # a
  BY <1>1, <1>2, QueueTail
<1>5. /\ d2 \in Seq(Actors) /\ NoneTwice(d2)
      /\ \A y : In(y, d2) <=> In(y, td) \/ (tq # << >> /\ y = Head(tq))
  <2>1. CASE Len(q) > 1
    <3> DEFINE b == q[2]
    <3>1. b \in Actors /\ tq # << >> /\ Head(tq) = b
      BY <1>2, <2>1, QueueSecond
    <3>2. Woken(q) = <<b>>
      BY <2>1 DEF Woken
    <3> HIDE DEF tq, td, b, q
    <3>3. In(b, q) /\ b # a
      BY <3>1, <1>4, QueueHead
    <3>4. of[b] = o /\ role[b] \in Patchers
      BY <3>1, <3>3 DEF Disciplined, q
    <3>5. ~In(b, d)
      BY <3>1, <3>3, <3>4, <1>1 DEF Disciplined, Patchers, q
    <3>6. ~In(b, td)
      BY <3>5, <1>3
    <3>7. d2 = Append(td, b)
      BY <1>3, <3>1, <3>2, QueueJoin
    <3> QED BY <3>1, <3>6, <3>7, <1>3, QueueAppend
  <2>2. CASE ~(Len(q) > 1)
    <3>1. tq = << >>
      BY <1>1, <1>2, <2>2, QueueNoSecond
    <3>2. Woken(q) = << >>
      BY <2>2 DEF Woken
    <3> HIDE DEF tq, td, q
    <3>3. d2 = td
      BY <1>3, <3>2, QueueJoin
    <3> QED BY <3>1, <3>3, <1>3
  <2> QED BY <2>1, <2>2
<1>6. /\ role2 \in [Actors -> Roles] /\ of \in [Actors -> Ops]
      /\ pq2 \in [Ops -> Seq(Actors)]
      /\ pq2[o] = tq /\ (\A p \in Ops : p # o => pq2[p] = pq[p])
      /\ role2[a] = "out" /\ (\A c \in Actors : c # a => role2[c] = role[c])
  <2> HIDE DEF tq
  <2> QED BY <1>4 DEF Disciplined, Roles
<1> HIDE DEF role2, pq2, d2, tq, td
<1>7. \A p \in Ops : NoneTwice(pq2[p])
  BY <1>6, <1>4, <1>2
<1>8. ASSUME NEW p \in Ops, NEW c \in Actors
      PROVE  In(c, pq2[p]) <=> of[c] = p /\ role2[c] \in Patchers
  <2>0. In(c, pq[p]) <=> of[c] = p /\ role[c] \in Patchers
    BY DEF Disciplined
  <2>1. CASE p = o
    BY <2>0, <2>1, <1>6, <1>4 DEF Patchers
  <2>2. CASE p # o
    BY <2>0, <2>2, <1>6 DEF Patchers
  <2> QED BY <2>1, <2>2
<1>9. ASSUME NEW c \in Actors
      PROVE  /\ In(c, d2) <=> \/ role2[c] = "asks"
                              \/ role2[c] \in Patchers /\ Head(pq2[of[c]]) = c
             /\ role2[c] = "writes" => Head(pq2[of[c]]) = c
  <2>0. /\ In(c, d) <=> \/ role[c] = "asks"
                        \/ role[c] \in Patchers /\ Head(pq[of[c]]) = c
        /\ role[c] = "writes" => Head(pq[of[c]]) = c
        /\ of[c] \in Ops
        /\ In(c, q) <=> of[c] = o /\ role[c] \in Patchers
    BY DEF Disciplined
  <2>1. tq # << >> => In(Head(tq), tq)
    BY <1>4, QueueHead
  <2>2. \A y : In(y, tq) => tq # << >>
    BY <1>4, QueueIn
  <2>3. CASE c = a
    BY <2>1, <2>3, <1>3, <1>4, <1>5, <1>6 DEF Patchers
  <2>4. CASE c # a /\ of[c] # o
    BY <2>0, <2>1, <2>4, <1>3, <1>4, <1>5, <1>6
  <2>5. CASE c # a /\ of[c] = o
    BY <2>0, <2>1, <2>2, <2>5, <1>1, <1>3, <1>4, <1>5, <1>6 DEF Patchers, Roles
  <2> QED BY <2>3, <2>4, <2>5
<1>10. Disciplined(role2, of, d2, pq2)
  BY <1>5, <1>6, <1>7, <1>8, <1>9 DEF Disciplined
<1> QED BY <1>10 DEF role2, pq2, d2, td, tq

(* the settled caller's next request follows that read *)
LEMMA MoveSettleAsk ==
    ASSUME NEW role, NEW of, NEW d, NEW pq, Disciplined(role, of, d, pq),
           d # << >>, NEW a \in Actors, Head(d) = a, role[a] \in Patchers,
           NEW o \in Ops, of[a] = o
    PROVE  Disciplined([role EXCEPT ![a] = "asks"], of,
                       Tail(d) \o Woken(pq[o]) \o <<a>>, [pq EXCEPT ![o] = Tail(@)])
<1> DEFINE out == [role EXCEPT ![a] = "out"]
           pq2 == [pq EXCEPT ![o] = Tail(@)]
           d2 == Tail(d) \o Woken(pq[o])
<1>1. Disciplined(out, of, d2, pq2)
  BY MoveSettle, Zenon
<1>2. out[a] = "out" /\ [out EXCEPT ![a] = "asks"] = [role EXCEPT ![a] = "asks"]
  BY DEF Disciplined
<1> HIDE DEF out, pq2, d2
<1>3. Disciplined([out EXCEPT ![a] = "asks"], of, Append(d2, a), pq2)
  BY <1>1, <1>2, MoveAsk, Zenon
<1>4. d2 \in Seq(Actors)
  BY <1>1 DEF Disciplined
<1>5. d2 \o <<a>> = Append(d2, a)
  BY <1>4, QueueJoin
<1> QED BY <1>2, <1>3, <1>5 DEF d2, pq2

(* or it queues another patch of the same record *)
LEMMA MoveRequeue ==
    ASSUME NEW role, NEW of, NEW d, NEW pq, Disciplined(role, of, d, pq),
           d # << >>, NEW a \in Actors, Head(d) = a, role[a] \in Patchers,
           NEW o \in Ops, of[a] = o
    PROVE  Disciplined([role EXCEPT ![a] = "patches"], of,
                       Tail(d) \o (IF Woken(pq[o]) = << >> THEN <<a>> ELSE Woken(pq[o])),
                       [pq EXCEPT ![o] = Append(Tail(@), a)])
<1> DEFINE out == [role EXCEPT ![a] = "out"]
           q == pq[o]
           pq2 == [pq EXCEPT ![o] = Tail(@)]
           d2 == Tail(d) \o Woken(q)
           pq3 == [pq EXCEPT ![o] = Append(Tail(@), a)]
<1>1. Disciplined(out, of, d2, pq2)
  BY MoveSettle, Zenon
<1>2. out[a] = "out" /\ [out EXCEPT ![a] = "patches"] = [role EXCEPT ![a] = "patches"]
  BY DEF Disciplined
<1>3. pq2[o] = Tail(q) /\ [pq2 EXCEPT ![o] = Append(@, a)] = pq3
  BY DEF Disciplined
<1>a. q # << >>
  BY AnsweredActor
<1>b. q \in Seq(Actors) /\ d \in Seq(Actors) /\ NoneTwice(d)
  BY DEF Disciplined
<1>4. q \in Seq(Actors) /\ q # << >> /\ Tail(d) \in Seq(Actors)
  BY <1>a, <1>b, QueueTail
<1> HIDE DEF out, pq2, d2, pq3
<1>5. /\ pq2[o] = << >> => Disciplined([role EXCEPT ![a] = "patches"], of, Append(d2, a), pq3)
      /\ pq2[o] # << >> => Disciplined([role EXCEPT ![a] = "patches"], of, d2, pq3)
  BY <1>1, <1>2, <1>3, MoveStartPatch
<1>6. CASE Len(q) > 1
  <2>1. pq2[o] # << >>
    BY <1>3, <1>4, <1>6, QueueSecond
  <2>2. Woken(q) # << >>
    BY <1>6 DEF Woken
  <2> QED BY <1>5, <2>1, <2>2 DEF d2, pq3
<1>7. CASE ~(Len(q) > 1)
  <2>1. pq2[o] = << >>
    BY <1>3, <1>4, <1>7, QueueNoSecond
  <2>2. Woken(q) = << >>
    BY <1>7 DEF Woken
  <2>3. d2 = Tail(d) /\ Append(d2, a) = Tail(d) \o <<a>>
    BY <1>4, <2>2, QueueJoin DEF d2
  <2> QED BY <1>5, <2>1, <2>2, <2>3 DEF pq3
<1> QED BY <1>6, <1>7
============================================================================
