------------------------- MODULE LocationSearchProofs -------------------------
(***************************************************************************)
(* Theorems about LocationSearch, for every number of gemeenten, workers   *)
(* and locations, every queue size and both values of Prompt.              *)
(***************************************************************************)
EXTENDS LocationSearch, TLAPS

\* Gemeenten are handled one after the other: those that guess() has not come
\* to have no producer, and those it has not run yet no workers.
InOrder ==
    /\ \A g \in Gemeente : gem < g \/ (gem = g /\ main = "next") => prod[g] = "none"
    /\ \A w \in Worker : gem < w[1] \/ (gem = w[1] /\ main \in {"next", "wait"})
                              => work[w] = "none"

\* An adres has one to five alternatives (154-195), each of a known kind.
LEMMA AltsLen ==
    ASSUME NEW l \in Loc
    PROVE  Len(Alts[l]) \in Nat /\ 1 <= Len(Alts[l]) /\ Len(Alts[l]) <= 5
<1>1. Len(Alts[l]) \in 1..5
  BY ConstAssumption
<1> HIDE ConstAssumption
<1>2. \A n \in 1..5 : n \in Nat /\ 1 <= n /\ n <= 5
  OBVIOUS
<1>3. QED
  BY <1>1, <1>2

\* What a worker may take next is a task, and taking it keeps every range.
LEMMA TakeNextType ==
    ASSUME TypeOK, NEW w \in Worker, TakeNext(w)
    PROVE  /\ queue' \in Seq(Tasks)
           /\ work' \in [Worker -> Work]
           /\ hand' \in [Worker -> Tasks \cup {NOTASK}]
           /\ \A x \in Worker : hand'[x] # NOTASK <=> work'[x] \in {"search", "details"}
<1>0. /\ queue \in Seq(Tasks) /\ work \in [Worker -> Work]
      /\ hand \in [Worker -> Tasks \cup {NOTASK}]
      /\ \A x \in Worker : hand[x] # NOTASK <=> work[x] \in {"search", "details"}
  BY DEF TypeOK
<1>1. CASE queue = << >>
  BY <1>0, <1>1 DEF TakeNext, Work
<1>2. CASE queue # << >>
  <2>1. /\ work' = [work EXCEPT ![w] = "search"]
        /\ hand' = [hand EXCEPT ![w] = Head(queue)]
        /\ queue' = Tail(queue)
    BY <1>2 DEF TakeNext
  <2>2. Head(queue) \in Tasks /\ Tail(queue) \in Seq(Tasks)
    BY <1>0, <1>2
  <2>3. Head(queue) # NOTASK
    BY <2>2, ConstAssumption DEF Tasks
  <2>4. QED
    BY <1>0, <2>1, <2>2, <2>3 DEF Work
<1>3. QED
  BY <1>1, <1>2

\* The alternative after a valid one is valid, and of the same location.
LEMMA AltAfterType ==
    ASSUME NEW c \in Place, c[2] <= Len(Alts[c[1]])
    PROVE  /\ AltAfter(c) \in Place \cup {NOTASK}
           /\ AltAfter(c) # NOTASK => /\ AltAfter(c)[1] = c[1]
                                      /\ AltAfter(c)[2] = c[2] + 1
                                      /\ AltAfter(c)[2] <= Len(Alts[AltAfter(c)[1]])
<1>1. c[1] \in Loc /\ c[2] \in Nat /\ 1 <= c[2] /\ c[2] <= 5
  BY DEF Place
<1>0. Len(Alts[c[1]]) \in Nat /\ Len(Alts[c[1]]) <= 5
  BY <1>1, AltsLen
<1>2. CASE c[2] < Len(Alts[c[1]])
  <2>0. \A m, n \in Nat : m < n /\ n <= 5 => m + 1 \in 1..5
    OBVIOUS
  <2>1. AltAfter(c) = <<c[1], c[2] + 1>> /\ c[2] + 1 \in 1..5
    BY <1>0, <1>1, <1>2, <2>0 DEF AltAfter
  <2>2. AltAfter(c) \in Place
    BY <1>1, <2>1 DEF Place
  <2>3. c[2] + 1 <= Len(Alts[c[1]])
    BY <1>0, <1>1, <1>2
  <2>4. QED
    BY <2>1, <2>2, <2>3
<1>3. CASE ~(c[2] < Len(Alts[c[1]]))
  BY <1>3 DEF AltAfter
<1>4. QED
  BY <1>2, <1>3

\* A saved correction is a row again (655-668).
LEMMA SavedType ==
    ASSUME NEW r \in Row, NEW v \in Vbo, NEW n \in {v, NOID}
    PROVE  Saved(r, v, n) \in Row
BY DEF Saved, Row, Corr, Id

\* So is a row that is marked as not found (533-536).
LEMMA MarkedType == \A r \in Row : [r EXCEPT !.corr = "false"] \in Row
BY DEF Row, Corr

\* A run starts with every variable in its range.
LEMMA TypeInit == Init => TypeOK
<1> SUFFICES ASSUME Init PROVE TypeOK
  OBVIOUS
<1>1. row \in [Loc -> Row] /\ obj \in [Loc -> Corr]
  BY ConstAssumption DEF Init, Row, Corr
<1>2. queue \in Seq(Tasks)
  BY DEF Init
<1>3. 1 \in 1..(NGem + 1)
  BY ConstAssumption
<1>4. QED
  BY <1>1, <1>2, <1>3 DEF Init, TypeOK, Prod, Work, Fate

\* Every step keeps the ranges, given that later gemeenten have no greenlets yet.
LEMMA TypeStep == TypeOK /\ InOrder /\ [Next]_vars => TypeOK'
<1> SUFFICES ASSUME TypeOK, InOrder, [Next]_vars PROVE TypeOK'
  OBVIOUS
<1>0. \A l \in Loc : 1 <= Len(Alts[l])
  BY AltsLen
<1> USE DEF TypeOK
<1>1. ASSUME NEW g \in Gemeente, Producer(g) PROVE TypeOK'
  <2>1. CASE ProducerStart(g)
    BY <2>1 DEF ProducerStart, restOfProducer, Prod, Invalid
  <2>2. CASE ProducerFetch(g)
    <3>1. PICK l \in todo[g] : /\ todo' = [todo EXCEPT ![g] = @ \ {l}]
                               /\ cur' = [cur EXCEPT ![g] = <<l, 1>>]
      BY <2>2 DEF ProducerFetch
    <3>2. l \in Loc /\ <<l, 1>> \in Place
      BY DEF Place
    <3>3. 1 <= Len(Alts[l])
      BY <1>0, <3>2
    <3>4. QED
      BY <2>2, <3>1, <3>2, <3>3 DEF ProducerFetch, restOfProducer
  <2>3. CASE ProducerDone(g)
    BY <2>3 DEF ProducerDone, restOfProducer, Prod
  <2>4. CASE ProducerCrash(g)
    BY <2>4 DEF ProducerCrash, restOfProducer, Prod
  <2>5. CASE ProducerSkip(g)
    <3>1. cur[g] \in Place /\ cur[g][2] <= Len(Alts[cur[g][1]])
      BY <2>5 DEF ProducerSkip, AtAlternative
    <3>2. obj' \in [Loc -> Corr]
      BY <2>5, <3>1 DEF ProducerSkip, Corr, Place
    <3>3. QED
      BY <2>5, <3>1, <3>2, AltAfterType DEF ProducerSkip, restOfProducer
  <2>6. CASE ProducerPut(g)
    <3>1. cur[g] \in Place /\ cur[g][2] <= Len(Alts[cur[g][1]])
      BY <2>6 DEF ProducerPut, AtAlternative
    <3>2. cur[g] \in Tasks
      BY <2>6, <3>1 DEF ProducerPut, AtAlternative, Tasks, Place
    <3>3. QED
      BY <2>6, <3>1, <3>2, AltAfterType DEF ProducerPut, restOfProducer
  <2>7. CASE ProducerNap(g)
    BY <2>7 DEF ProducerNap, restOfProducer, Prod
  <2>8. CASE ProducerWake(g)
    BY <2>8 DEF ProducerWake, restOfProducer, Prod
  <2>9. QED
    BY <1>1, <2>1, <2>2, <2>3, <2>4, <2>5, <2>6, <2>7, <2>8 DEF Producer
<1>2. ASSUME NEW w \in Worker, Works(w) PROVE TypeOK'
  <2>1. CASE WorkerStart(w)
    BY <2>1, TakeNextType DEF WorkerStart, restOfWorker
  <2>2. CASE WorkerHit(w)
    BY <2>2 DEF WorkerHit, restOfWorker, Work
  <2>3. ASSUME work[w] \in {"search", "details"} PROVE hand[w] \in Tasks /\ hand[w][1] \in Loc
    BY <2>3 DEF Tasks
  <2>4. ASSUME NEW f \in Fate, Finish(w, f), work[w] \in {"search", "details"},
               row' \in [Loc -> Row], obj' \in [Loc -> Corr],
               stats' \in [correcties : Nat, per : [Gemeente -> Nat]]
        PROVE  TypeOK'
    <3>1. fate' \in [Tasks -> Fate]
      BY <2>4 DEF Finish
    <3>2. TakeNext(w) /\ UNCHANGED restOfWorker
      BY <2>4 DEF Finish
    <3>3. QED
      BY <2>4, <3>1, <3>2, TakeNextType DEF restOfWorker
  <2>5. CASE WorkerNoHit(w)
    <3> DEFINE l == hand[w][1]
    <3>1. l \in Loc
      BY <2>3, <2>5 DEF WorkerNoHit
    <3>2. row' \in [Loc -> Row]
      <4>1. row[l] \in Row /\ [row[l] EXCEPT !.corr = "false"] \in Row
        BY <3>1, MarkedType
      <4>2. row' = row \/ row' = [row EXCEPT ![l] = [row[l] EXCEPT !.corr = "false"]]
        BY <2>5 DEF WorkerNoHit
      <4>3. QED
        BY <3>1, <4>1, <4>2
    <3>3. obj' \in [Loc -> Corr]
      BY <2>5, <3>1 DEF WorkerNoHit, Refresh, Row, Corr
    <3>4. "notfound" \in Fate /\ Finish(w, "notfound") /\ work[w] = "search" /\ stats' = stats
      BY <2>5 DEF WorkerNoHit, Fate
    <3>5. QED
      BY <2>4, <3>2, <3>3, <3>4
  <2>6. CASE WorkerSave(w)
    <3>1. hand[w][1] \in Loc
      BY <2>3, <2>6 DEF WorkerSave
    <3>2. row' \in [Loc -> Row]
      BY <2>6, <3>1, SavedType DEF WorkerSave
    <3>3. obj' \in [Loc -> Corr]
      BY <2>6, <3>1 DEF WorkerSave, Corr
    <3>4. stats' \in [correcties : Nat, per : [Gemeente -> Nat]]
      <4>1. stats.correcties \in Nat /\ stats.correcties + 1 \in Nat
        OBVIOUS
      <4>2. QED
        BY <2>6, <4>1 DEF WorkerSave
    <3>5. "saved" \in Fate /\ Finish(w, "saved") /\ work[w] = "details"
      BY <2>6 DEF WorkerSave, Fate
    <3>6. QED
      BY <2>4, <3>2, <3>3, <3>4, <3>5
  <2>7. CASE WorkerGiveUp(w)
    BY <2>4, <2>7 DEF WorkerGiveUp, Fate
  <2>8. QED
    BY <1>2, <2>1, <2>2, <2>5, <2>6, <2>7 DEF Works
<1>3. ASSUME CloseGemeente, main = "join", cut' \in SUBSET Gemeente PROVE TypeOK'
  <2>1. gem \in Gemeente /\ gem + 1 \in 1..(NGem + 1)
    BY <1>3, ConstAssumption DEF Gemeente
  <2>2. stats' \in [correcties : Nat, per : [Gemeente -> Nat]]
    BY <1>3, <2>1 DEF CloseGemeente
  <2>3. QED
    BY <1>3, <2>1, <2>2 DEF CloseGemeente, restOfMain
<1>4. CASE MainNext
  <2>1. gem \in Gemeente /\ gem + 1 \in 1..(NGem + 1)
    BY <1>4, ConstAssumption DEF MainNext, Gemeente
  <2>2. QED
    BY <1>4, <2>1 DEF MainNext, restOfMain, Prod
<1>5. CASE MainRunWorkers
  <2>1. \A w \in Worker : w[1] = gem => work[w] = "none"
    BY <1>5 DEF MainRunWorkers, InOrder
  <2>2. QED
    BY <1>5, <2>1 DEF MainRunWorkers, restOfMain, Work
<1>6. CASE MainJoined
  BY <1>3, <1>6 DEF MainJoined
<1>7. CASE MainTimeout
  <2>1. gem \in Gemeente
    BY <1>7, ConstAssumption DEF MainTimeout, Gemeente
  <2>2. QED
    BY <1>3, <1>7, <2>1 DEF MainTimeout
<1>8. CASE MainKillStatus
  BY <1>8 DEF MainKillStatus, restOfMain
<1>9. CASE MainAssertNone
  BY <1>9 DEF MainAssertNone, restOfMain
<1>10. CASE MainFill
  <2>1. \A r \in Row : [r EXCEPT !.geo = BagGeo(r)] \in Row
    BY DEF BagGeo, Row, Id
  <2>2. QED
    BY <1>10, <2>1 DEF MainFill
<1>11. CASE UNCHANGED vars
  BY <1>11 DEF vars
<1>12. QED
  BY <1>1, <1>2, <1>4, <1>5, <1>6, <1>7, <1>8, <1>9, <1>10, <1>11 DEF Next, MainStep, Ended

\* No gemeente has greenlets at the start.
LEMMA InOrderInit == Init => InOrder
BY DEF Init, InOrder

\* guess() takes the gemeenten one after the other (1003-1025).
LEMMA InOrderStep == TypeOK /\ InOrder /\ [Next]_vars => InOrder'
<1> SUFFICES ASSUME TypeOK, InOrder, [Next]_vars PROVE InOrder'
  OBVIOUS
<1>0. gem \in Nat /\ NGem \in Nat /\ Gemeente \subseteq Nat
      /\ \A w \in Worker : w[1] \in Gemeente
  BY ConstAssumption DEF TypeOK, Gemeente, Worker
<1>1. ASSUME NEW g \in Gemeente, Producer(g) PROVE InOrder'
  <2>1. prod[g] # "none" /\ UNCHANGED <<main, gem, work>>
    BY <1>1 DEF Producer, ProducerStart, ProducerFetch, ProducerDone, ProducerCrash,
                ProducerSkip, ProducerPut, ProducerNap, ProducerWake, AtAlternative,
                restOfProducer
  <2>2. \A h \in Gemeente : h # g => prod'[h] = prod[h]
    BY <1>1 DEF Producer, ProducerStart, ProducerFetch, ProducerDone, ProducerCrash,
                ProducerSkip, ProducerPut, ProducerNap, ProducerWake, TypeOK
  <2>3. QED
    BY <2>1, <2>2 DEF InOrder
<1>2. ASSUME NEW w \in Worker, Works(w) PROVE InOrder'
  <2>1. work[w] # "none" /\ UNCHANGED <<main, gem, prod>>
    BY <1>2 DEF Works, WorkerStart, WorkerHit, WorkerNoHit, WorkerSave, WorkerGiveUp,
                Finish, restOfWorker
  <2>2. \A x \in Worker : x # w => work'[x] = work[x]
    BY <1>2 DEF Works, WorkerStart, WorkerHit, WorkerNoHit, WorkerSave, WorkerGiveUp,
                Finish, TakeNext, TypeOK
  <2>3. QED
    BY <2>1, <2>2 DEF InOrder
<1>3. ASSUME CloseGemeente, main = "join" PROVE InOrder'
  BY <1>0, <1>3 DEF CloseGemeente, InOrder
<1>4. CASE MainNext
  <2>1. CASE Invalid(gem) = {}
    <3>1. main = "next" /\ main' = "next" /\ gem' = gem + 1 /\ UNCHANGED <<work, prod>>
      BY <1>4, <2>1 DEF MainNext
    <3>2. \A h \in Gemeente : gem' <= h => gem < h
      BY <1>0, <3>1
    <3>3. \A h \in Gemeente : gem' < h \/ gem' = h => gem < h
      BY <1>0, <3>1, <3>2
    <3>4. \A g \in Gemeente : gem' < g \/ (gem' = g /\ main' = "next") => prod'[g] = "none"
      BY <3>1, <3>3 DEF InOrder
    <3>5. \A w \in Worker : gem' < w[1] \/ (gem' = w[1] /\ main' \in {"next", "wait"})
                                => work'[w] = "none"
      BY <1>0, <3>1, <3>3 DEF InOrder
    <3>6. QED
      BY <3>4, <3>5 DEF InOrder
  <2>2. CASE Invalid(gem) # {}
    <3>1. /\ main = "next" /\ main' = "wait" /\ gem' = gem /\ work' = work
          /\ \A g \in Gemeente : g # gem => prod'[g] = prod[g]
      BY <1>4, <2>2 DEF MainNext, TypeOK
    <3>2. QED
      BY <1>0, <3>1 DEF InOrder
  <2>3. QED
    BY <2>1, <2>2
<1>5. CASE MainRunWorkers
  <2>1. /\ main = "wait" /\ main' = "join" /\ gem' = gem /\ prod' = prod
        /\ work' = [w \in Worker |-> IF w[1] = gem THEN "ready" ELSE work[w]]
    BY <1>5 DEF MainRunWorkers
  <2>2. \A w \in Worker : gem < w[1] => work'[w] = "none"
    BY <1>0, <2>1 DEF InOrder
  <2>3. QED
    BY <2>1, <2>2 DEF InOrder
<1>6. CASE MainJoined \/ MainTimeout
  BY <1>3, <1>6 DEF MainJoined, MainTimeout
<1>7. CASE MainKillStatus
  BY <1>7 DEF MainKillStatus, InOrder
<1>8. CASE MainAssertNone \/ MainFill
  BY <1>8 DEF MainAssertNone, MainFill, InOrder
<1>9. CASE UNCHANGED vars
  BY <1>9 DEF vars, InOrder
<1>10. QED
  BY <1>1, <1>2, <1>4, <1>5, <1>6, <1>7, <1>8, <1>9 DEF Next, MainStep, Ended

\* Type correctness of the search run: every variable keeps its range, and a
\* worker holds a task exactly while it searches (678-694).
THEOREM TypeCorrect == Spec => []TypeOK
<1>1. Init => TypeOK /\ InOrder
  BY TypeInit, InOrderInit
<1>2. TypeOK /\ InOrder /\ [Next]_vars => (TypeOK /\ InOrder)'
  BY TypeStep, InOrderStep
<1>3. QED
  BY <1>1, <1>2, PTL DEF Spec
-----------------------------------------------------------------------------
(* One owner for every task *)

\* What a producer has yet to visit belongs to its own gemeente, and nothing of a
\* gemeente is under way before its producer has run.
Walk(g) ==
    /\ \A l \in todo[g] : GemOf[l] = g
    /\ cur[g] # NOTASK => GemOf[cur[g][1]] = g /\ cur[g][1] \notin todo[g]
    /\ prod[g] \in {"none", "spawned"} =>
          /\ todo[g] = {} /\ cur[g] = NOTASK
          /\ \A t \in Tasks : GemOf[t[1]] = g => ~InWork(t) /\ fate[t] = "open"

OwnInv == TaskOwnedOnce /\ \A g \in Gemeente : Walk(g)

\* Without its head, a queue of different tasks holds all the others and not it.
LEMMA QueueTail ==
    ASSUME NEW q \in Seq(Tasks), q # << >>,
           \A j, k \in DOMAIN q : q[j] = q[k] => j = k
    PROVE  /\ \A j, k \in DOMAIN Tail(q) : Tail(q)[j] = Tail(q)[k] => j = k
           /\ \A k \in DOMAIN Tail(q) : /\ k + 1 \in DOMAIN q
                                        /\ Tail(q)[k] = q[k + 1]
                                        /\ Tail(q)[k] # Head(q)
           /\ Head(q) = q[1] /\ 1 \in DOMAIN q
<1>1. DOMAIN q = 1..Len(q) /\ Len(q) \in Nat /\ Len(q) >= 1 /\ Head(q) = q[1]
  OBVIOUS
<1>2. Len(Tail(q)) = Len(q) - 1 /\ DOMAIN Tail(q) = 1..(Len(q) - 1)
  OBVIOUS
<1>3. \A k \in DOMAIN Tail(q) : Tail(q)[k] = q[k + 1]
  OBVIOUS
<1>4. \A k \in DOMAIN Tail(q) : k \in Nat /\ k >= 1 /\ k + 1 \in DOMAIN q
  BY <1>1, <1>2
<1>5. QED
  BY <1>1, <1>2, <1>3, <1>4

\* A queue with one more task holds that task and those it held.
LEMMA QueueAppend ==
    ASSUME NEW q \in Seq(Tasks), NEW t \in Tasks,
           \A j, k \in DOMAIN q : q[j] = q[k] => j = k,
           \A k \in DOMAIN q : q[k] # t
    PROVE  /\ \A j, k \in DOMAIN Append(q, t) :
                 Append(q, t)[j] = Append(q, t)[k] => j = k
           /\ \A k \in DOMAIN Append(q, t) : Append(q, t)[k] = t \/ \E j \in DOMAIN q : Append(q, t)[k] = q[j]
<1>1. DOMAIN q = 1..Len(q) /\ Len(q) \in Nat
  OBVIOUS
<1>2. DOMAIN Append(q, t) = 1..(Len(q) + 1)
  OBVIOUS
<1>3. \A k \in 1..Len(q) : Append(q, t)[k] = q[k]
  OBVIOUS
<1>4. Append(q, t)[Len(q) + 1] = t
  OBVIOUS
<1>5. \A k \in DOMAIN Append(q, t) : k \in DOMAIN q \/ k = Len(q) + 1
  BY <1>1, <1>2
<1>6. QED
  BY <1>1, <1>3, <1>4, <1>5

\* A worker that looks for its next task keeps one owner for every task, and
\* whatever is in work afterwards was in work before and is not its old task.
LEMMA TakeNextOwns ==
    ASSUME TypeOK, TaskOwnedOnce, NEW w \in Worker, TakeNext(w)
    PROVE  /\ QueueOnce' /\ HandOnce' /\ HandNotQueued'
           /\ \A t \in Tasks : InWork(t)' => InWork(t) /\ t # hand[w]
<1>0. /\ queue \in Seq(Tasks) /\ NOTASK \notin Tasks
      /\ hand \in [Worker -> Tasks \cup {NOTASK}]
      /\ QueueOnce /\ HandOnce /\ HandNotQueued
  BY ConstAssumption DEF TypeOK, TaskOwnedOnce, Tasks
<1>1. CASE queue = << >>
  <2>1. queue' = queue /\ hand' = [hand EXCEPT ![w] = NOTASK]
    BY <1>1 DEF TakeNext
  <2>2. QueueOnce' /\ HandOnce'
    BY <1>0, <2>1 DEF QueueOnce, HandOnce
  <2>3. HandNotQueued' /\ \A t : t \notin Queued
    BY <1>0, <1>1, <2>1 DEF HandNotQueued, Queued
  <2>4. \A t \in Tasks : InWork(t)' => InWork(t) /\ t # hand[w]
    <3> SUFFICES ASSUME NEW t \in Tasks, InWork(t)' PROVE InWork(t) /\ t # hand[w]
      OBVIOUS
    <3>1. PICK v \in Worker : hand'[v] = t
      BY <2>1, <2>3 DEF InWork, Queued
    <3>2. v # w /\ hand[v] = t
      BY <1>0, <2>1, <3>1
    <3>3. QED
      BY <1>0, <3>2 DEF InWork, HandOnce
  <2>5. QED
    BY <2>2, <2>3, <2>4
<1>2. CASE queue # << >>
  <2> DEFINE h == Head(queue)
  <2>1. queue' = Tail(queue) /\ hand' = [hand EXCEPT ![w] = h]
    BY <1>2 DEF TakeNext
  <2>2. QueueOnce'
    BY <1>0, <1>2, <2>1, QueueTail DEF QueueOnce
  <2>3. h \in Queued /\ h \in Tasks
    BY <1>0, <1>2, QueueTail DEF Queued, QueueOnce
  <2>4. \A t \in Queued' : t \in Queued /\ t # h
    BY <1>0, <1>2, <2>1, QueueTail DEF Queued, QueueOnce
  <2>5. \A v \in Worker : hand[v] \notin Queued
    BY <1>0 DEF HandNotQueued
  <2>6. HandOnce'
    BY <1>0, <2>1, <2>3, <2>5 DEF HandOnce
  <2>7. HandNotQueued'
    BY <1>0, <2>1, <2>4, <2>5 DEF HandNotQueued
  <2>8. \A t \in Tasks : InWork(t)' => InWork(t) /\ t # hand[w]
    <3> SUFFICES ASSUME NEW t \in Tasks, InWork(t)' PROVE InWork(t) /\ t # hand[w]
      OBVIOUS
    <3>1. CASE t \in Queued'
      BY <2>4, <2>5, <3>1 DEF InWork
    <3>2. CASE \E v \in Worker : hand'[v] = t
      <4>1. PICK v \in Worker : hand'[v] = t
        BY <3>2
      <4>2. CASE v = w
        BY <1>0, <2>1, <2>3, <2>5, <4>1, <4>2 DEF InWork
      <4>3. CASE v # w
        <5>1. hand[v] = t /\ t # NOTASK
          BY <1>0, <2>1, <4>1, <4>3
        <5>2. QED
          BY <1>0, <4>3, <5>1 DEF InWork, HandOnce
      <4>4. QED
        BY <4>2, <4>3
    <3>3. QED
      BY <3>1, <3>2 DEF InWork
  <2>9. QED
    BY <2>2, <2>6, <2>7, <2>8
<1>3. QED
  BY <1>1, <1>2

\* At the start no task is in work and none has ended.
LEMMA OwnInit == Init => OwnInv
<1> SUFFICES ASSUME Init PROVE OwnInv
  OBVIOUS
<1>1. \A t \in Tasks : ~InWork(t) /\ fate[t] = "open"
  BY ConstAssumption DEF Init, InWork, Queued, Tasks
<1>2. \A g \in Gemeente : Unmade(g) = {} /\ todo[g] = {} /\ cur[g] = NOTASK
  BY DEF Init, Unmade
<1>3. QueueOnce /\ HandOnce /\ HandNotQueued
  BY DEF Init, QueueOnce, HandOnce, HandNotQueued, Queued
<1>4. QED
  BY <1>1, <1>2, <1>3 DEF OwnInv, TaskOwnedOnce, InWorkOpen, UnmadeOpen, Walk

\* A step that moves no task and ends none.
LEMMA OwnStill ==
    ASSUME TypeOK, OwnInv, UNCHANGED <<queue, hand, fate, todo, cur>>,
           \A g \in Gemeente : prod'[g] \in {"none", "spawned"} => prod[g] \in {"none", "spawned"}
    PROVE  OwnInv'
<1>1. Queued' = Queued /\ \A t : InWork(t)' <=> InWork(t)
  BY DEF Queued, InWork
<1>2. \A g \in Gemeente : Unmade(g)' = Unmade(g)
  BY DEF Unmade
<1>3. QED
  BY <1>1, <1>2 DEF OwnInv, TaskOwnedOnce, QueueOnce, HandOnce, HandNotQueued,
                    InWorkOpen, UnmadeOpen, Walk

\* A step that ends the task w works on and lets w take the next one.
LEMMA OwnFinish ==
    ASSUME TypeOK, OwnInv, NEW w \in Worker, NEW f, Finish(w, f), hand[w] \in Tasks
    PROVE  OwnInv'
<1>1. /\ fate' = [fate EXCEPT ![hand[w]] = f] /\ TakeNext(w)
      /\ UNCHANGED <<todo, cur, prod>>
  BY DEF Finish, restOfWorker
<1>2. /\ QueueOnce' /\ HandOnce' /\ HandNotQueued'
      /\ \A t \in Tasks : InWork(t)' => InWork(t) /\ t # hand[w]
  BY <1>1, TakeNextOwns DEF OwnInv
<1>3. \A t \in Tasks : t # hand[w] => fate'[t] = fate[t]
  BY <1>1 DEF TypeOK
<1>4. InWorkOpen'
  BY <1>2, <1>3 DEF OwnInv, TaskOwnedOnce, InWorkOpen
<1>5. InWork(hand[w])
  BY DEF InWork
<1>6. \A t \in Tasks : ~InWork(t) => ~InWork(t)' /\ fate'[t] = fate[t]
  BY <1>2, <1>3, <1>5
<1>7. \A g \in Gemeente : Unmade(g)' = Unmade(g) /\ Unmade(g) \subseteq Tasks
  BY <1>1 DEF Unmade
<1>8. UnmadeOpen'
  BY <1>6, <1>7 DEF OwnInv, TaskOwnedOnce, UnmadeOpen
<1>9. \A g \in Gemeente : Walk(g)'
  BY <1>1, <1>6 DEF OwnInv, Walk
<1>10. QED
  BY <1>2, <1>4, <1>8, <1>9 DEF OwnInv, TaskOwnedOnce

\* A worker's step leaves every task at most one owner.
LEMMA OwnWorks ==
    ASSUME TypeOK, OwnInv, NEW w \in Worker, Works(w)
    PROVE  OwnInv'
<1>1. CASE WorkerStart(w)
  <2>1. TakeNext(w) /\ UNCHANGED <<fate, todo, cur, prod>>
    BY <1>1 DEF WorkerStart, restOfWorker
  <2>2. /\ QueueOnce' /\ HandOnce' /\ HandNotQueued'
        /\ \A t \in Tasks : InWork(t)' => InWork(t)
    BY <2>1, TakeNextOwns DEF OwnInv
  <2>3. InWorkOpen'
    BY <2>1, <2>2 DEF OwnInv, TaskOwnedOnce, InWorkOpen
  <2>4. \A g \in Gemeente : Unmade(g)' = Unmade(g) /\ Unmade(g) \subseteq Tasks
    BY <2>1 DEF Unmade
  <2>5. UnmadeOpen'
    BY <2>1, <2>2, <2>4 DEF OwnInv, TaskOwnedOnce, UnmadeOpen
  <2>6. \A g \in Gemeente : Walk(g)'
    BY <2>1, <2>2 DEF OwnInv, Walk
  <2>7. QED
    BY <2>2, <2>3, <2>5, <2>6 DEF OwnInv, TaskOwnedOnce
<1>2. CASE WorkerHit(w)
  <2>1. UNCHANGED <<queue, hand, fate, todo, cur, prod>>
    BY <1>2 DEF WorkerHit, restOfWorker
  <2>2. QED
    BY <2>1, OwnStill
<1>3. ASSUME work[w] \in {"search", "details"} PROVE hand[w] \in Tasks
  BY <1>3 DEF TypeOK
<1>4. CASE WorkerNoHit(w)
  BY <1>3, <1>4, OwnFinish DEF WorkerNoHit
<1>5. CASE WorkerSave(w)
  BY <1>3, <1>5, OwnFinish DEF WorkerSave
<1>6. CASE WorkerGiveUp(w)
  BY <1>3, <1>6, OwnFinish DEF WorkerGiveUp
<1>7. QED
  BY <1>1, <1>2, <1>4, <1>5, <1>6 DEF Works

\* A step of the main greenlet moves no task.
LEMMA OwnMain ==
    ASSUME TypeOK, InOrder, OwnInv, MainStep \/ MainTimeout
    PROVE  OwnInv'
<1>1. UNCHANGED <<queue, hand, fate, todo, cur>>
  BY DEF MainStep, MainNext, MainRunWorkers, MainJoined, MainTimeout, CloseGemeente,
         MainKillStatus, MainAssertNone, MainFill, restOfMain
<1>2. CASE MainNext
  <2>1. gem \in Gemeente /\ main = "next"
    BY <1>2, ConstAssumption DEF MainNext, TypeOK, Gemeente
  <2>2. prod[gem] = "none"
    BY <2>1 DEF InOrder
  <2>3. \A g \in Gemeente : g # gem => prod'[g] = prod[g]
    BY <1>2 DEF MainNext, TypeOK
  <2>4. QED
    BY <1>1, <2>2, <2>3, OwnStill
<1>3. CASE ~MainNext
  <2>1. prod' = prod
    BY <1>3 DEF MainStep, MainRunWorkers, MainJoined, MainTimeout, CloseGemeente,
                MainKillStatus, MainAssertNone, MainFill
  <2>2. QED
    BY <1>1, <2>1, OwnStill
<1>4. QED
  BY <1>2, <1>3

\* A step of the producer of g that puts nothing on the queue and leaves it fewer
\* tasks of its own gemeente to make.
LEMMA OwnFewer ==
    ASSUME TypeOK, OwnInv, NEW g \in Gemeente, UNCHANGED <<queue, hand, fate>>,
           Unmade(g)' \subseteq Unmade(g), Walk(g)',
           \A h \in Gemeente : h # g => UNCHANGED <<todo[h], cur[h], prod[h]>>
    PROVE  OwnInv'
<1>1. Queued' = Queued /\ \A t : InWork(t)' <=> InWork(t)
  BY DEF Queued, InWork
<1>2. \A h \in Gemeente : Unmade(h)' \subseteq Unmade(h)
  BY DEF Unmade
<1>3. UnmadeOpen'
  BY <1>1, <1>2 DEF OwnInv, TaskOwnedOnce, UnmadeOpen
<1>4. \A h \in Gemeente : Walk(h)'
  BY <1>1 DEF OwnInv, Walk
<1>5. QED
  BY <1>1, <1>3, <1>4 DEF OwnInv, TaskOwnedOnce, QueueOnce, HandOnce, HandNotQueued,
                          InWorkOpen

\* Going on to the next alternative leaves the producer fewer tasks to make: the
\* one it was at is gone.
LEMMA AdvanceFewer ==
    ASSUME TypeOK, NEW g \in Gemeente, cur[g] # NOTASK, Walk(g),
           todo' = todo, cur' = [cur EXCEPT ![g] = AltAfter(cur[g])]
    PROVE  /\ Unmade(g)' \subseteq Unmade(g) /\ cur[g] \notin Unmade(g)'
           /\ cur'[g] # NOTASK => cur'[g][1] = cur[g][1]
<1> DEFINE c == cur[g]
<1>1. c \in Place /\ c[2] <= Len(Alts[c[1]]) /\ c[2] \in Nat
  BY DEF TypeOK, Place
<1>2. cur'[g] = AltAfter(c) /\ todo'[g] = todo[g]
  BY DEF TypeOK
<1>3. cur'[g] # NOTASK => cur'[g][1] = c[1] /\ cur'[g][2] = c[2] + 1
  BY <1>1, <1>2, AltAfterType
<1>4. \A t \in Tasks : t[2] \in Nat
  BY DEF Tasks
<1>5. Unmade(g)' \subseteq Unmade(g)
  <2> SUFFICES ASSUME NEW t \in Tasks, t \in Unmade(g)' PROVE t \in Unmade(g)
    BY DEF Unmade
  <2>1. CASE t[1] \in todo[g]
    BY <2>1 DEF Unmade
  <2>2. CASE cur'[g] # NOTASK /\ cur'[g][1] = t[1] /\ cur'[g][2] <= t[2]
    <3>1. c[1] = t[1] /\ c[2] + 1 <= t[2] /\ t[2] \in Nat
      BY <1>3, <1>4, <2>2
    <3>2. c[2] <= t[2]
      BY <1>1, <3>1
    <3>3. QED
      BY <3>1, <3>2 DEF Unmade
  <2>3. QED
    BY <1>2, <2>1, <2>2 DEF Unmade
<1>6. cur[g] \notin Unmade(g)'
  <2> SUFFICES ASSUME c \in Unmade(g)' PROVE FALSE
    OBVIOUS
  <2>1. c[1] \notin todo'[g]
    BY <1>2 DEF Walk
  <2>2. cur'[g] # NOTASK /\ cur'[g][2] <= c[2]
    BY <2>1 DEF Unmade
  <2>3. QED
    BY <1>1, <1>3, <2>2
<1>7. QED
  BY <1>3, <1>5, <1>6

\* A task that is put on the queue leaves the producer (936).
LEMMA OwnPut ==
    ASSUME TypeOK, OwnInv, NEW g \in Gemeente, ProducerPut(g)
    PROVE  OwnInv'
<1> DEFINE c == cur[g]
<1>1. /\ queue' = Append(queue, c) /\ cur' = [cur EXCEPT ![g] = AltAfter(c)]
      /\ UNCHANGED <<todo, prod, hand, fate>> /\ prod[g] = "run"
      /\ c # NOTASK /\ Alts[c[1]][c[2]] = "task"
  BY DEF ProducerPut, restOfProducer, AtAlternative
<1>2. c \in Tasks /\ c \in Place /\ c[1] \in Loc /\ c[2] \in Nat
  BY <1>1 DEF TypeOK, Tasks, Place
<1>3. c \in Unmade(g)
  BY <1>1, <1>2 DEF Unmade
<1>4. Walk(g) /\ GemOf[c[1]] = g
  BY <1>1 DEF OwnInv, Walk
<1>5. ~InWork(c) /\ fate[c] = "open"
  BY <1>3 DEF OwnInv, TaskOwnedOnce, UnmadeOpen
<1>6. queue \in Seq(Tasks) /\ QueueOnce /\ \A k \in DOMAIN queue : queue[k] # c
  BY <1>5 DEF TypeOK, OwnInv, TaskOwnedOnce, InWork, Queued
<1>7. QueueOnce'
  BY <1>1, <1>2, <1>6, QueueAppend DEF QueueOnce
<1>8. Queued' \subseteq Queued \cup {c}
  BY <1>1, <1>2, <1>6, QueueAppend DEF QueueOnce, Queued
<1>9. HandOnce'
  BY <1>1 DEF OwnInv, TaskOwnedOnce, HandOnce
<1>10. HandNotQueued'
  BY <1>1, <1>5, <1>8 DEF OwnInv, TaskOwnedOnce, HandNotQueued, InWork
<1>11. \A t \in Tasks : InWork(t)' => InWork(t) \/ t = c
  BY <1>1, <1>8 DEF InWork
<1>12. InWorkOpen'
  BY <1>1, <1>5, <1>11 DEF OwnInv, TaskOwnedOnce, InWorkOpen
<1>13. Unmade(g)' \subseteq Unmade(g) /\ c \notin Unmade(g)'
       /\ (cur'[g] # NOTASK => cur'[g][1] = c[1])
  BY <1>1, <1>4, AdvanceFewer
<1>14. \A h \in Gemeente : h # g => cur'[h] = cur[h] /\ Unmade(h)' = Unmade(h)
  BY <1>1 DEF TypeOK, Unmade
<1>15. \A h \in Gemeente : h # g => c \notin Unmade(h)
  BY <1>4 DEF OwnInv, Walk, Unmade
<1>16. \A h \in Gemeente : Unmade(h)' \subseteq Tasks
  BY DEF Unmade
<1>17. UnmadeOpen'
  BY <1>1, <1>11, <1>13, <1>14, <1>15, <1>16 DEF OwnInv, TaskOwnedOnce, UnmadeOpen
<1>18. \A h \in Gemeente : Walk(h)'
  <2>1. Walk(g)'
    BY <1>1, <1>4, <1>13 DEF Walk
  <2>2. ASSUME NEW h \in Gemeente, h # g PROVE Walk(h)'
    <3>1. Walk(h)
      BY DEF OwnInv
    <3>2. \A t \in Tasks : GemOf[t[1]] = h => t # c
      BY <1>4, <2>2
    <3>3. QED
      BY <1>1, <1>11, <1>14, <2>2, <3>1, <3>2 DEF Walk
  <2>3. QED
    BY <2>1, <2>2
<1>19. QED
  BY <1>7, <1>9, <1>10, <1>12, <1>17, <1>18 DEF OwnInv, TaskOwnedOnce

\* A producer's step leaves every task at most one owner.
LEMMA OwnProducer ==
    ASSUME TypeOK, OwnInv, NEW g \in Gemeente, Producer(g)
    PROVE  OwnInv'
<1>0. Walk(g)
  BY DEF OwnInv
<1>1. CASE ProducerStart(g)
  <2>1. /\ UNCHANGED <<queue, hand, fate, cur>> /\ prod[g] = "spawned" /\ prod'[g] = "run"
        /\ todo'[g] = Invalid(g)
        /\ \A h \in Gemeente : h # g => todo'[h] = todo[h] /\ prod'[h] = prod[h]
    BY <1>1 DEF ProducerStart, restOfProducer, TypeOK
  <2>2. Queued' = Queued /\ \A t : InWork(t)' <=> InWork(t)
    BY <2>1 DEF Queued, InWork
  <2>3. \A l \in todo'[g] : GemOf[l] = g
    BY <2>1 DEF Invalid
  <2>4. \A t \in Unmade(g)' : ~InWork(t) /\ fate[t] = "open"
    BY <1>0, <2>1, <2>3 DEF Walk, Unmade
  <2>5. \A h \in Gemeente : h # g => Unmade(h)' = Unmade(h)
    BY <2>1 DEF Unmade
  <2>6. UnmadeOpen'
    BY <2>1, <2>2, <2>4, <2>5 DEF OwnInv, TaskOwnedOnce, UnmadeOpen
  <2>7. \A h \in Gemeente : Walk(h)'
    BY <1>0, <2>1, <2>2, <2>3 DEF OwnInv, Walk
  <2>8. QED
    BY <2>1, <2>2, <2>6, <2>7 DEF OwnInv, TaskOwnedOnce, QueueOnce, HandOnce,
                                  HandNotQueued, InWorkOpen
<1>2. CASE ProducerFetch(g)
  <2>1. PICK l \in todo[g] : /\ todo' = [todo EXCEPT ![g] = @ \ {l}]
                             /\ cur' = [cur EXCEPT ![g] = <<l, 1>>]
    BY <1>2 DEF ProducerFetch
  <2>2. UNCHANGED <<queue, hand, fate, prod>> /\ prod[g] = "run"
    BY <1>2 DEF ProducerFetch, restOfProducer
  <2>3. todo'[g] = todo[g] \ {l} /\ cur'[g] = <<l, 1>>
        /\ \A h \in Gemeente : h # g => UNCHANGED <<todo[h], cur[h], prod[h]>>
    BY <2>1, <2>2 DEF TypeOK
  <2>4. Unmade(g)' \subseteq Unmade(g)
    BY <2>3 DEF Unmade
  <2>5. Walk(g)'
    BY <1>0, <2>2, <2>3 DEF Walk
  <2>6. QED
    BY <2>2, <2>3, <2>4, <2>5, OwnFewer
<1>3. CASE ProducerDone(g) \/ ProducerCrash(g) \/ ProducerNap(g) \/ ProducerWake(g)
  <2>1. /\ UNCHANGED <<queue, hand, fate, todo, cur>>
        /\ prod'[g] \notin {"none", "spawned"}
        /\ \A h \in Gemeente : h # g => prod'[h] = prod[h]
    BY <1>3 DEF ProducerDone, ProducerCrash, ProducerNap, ProducerWake, restOfProducer, TypeOK
  <2>2. QED
    BY <2>1, OwnStill
<1>4. CASE ProducerSkip(g)
  <2>1. /\ UNCHANGED <<queue, hand, fate, todo, prod>> /\ prod[g] = "run"
        /\ cur[g] # NOTASK /\ cur' = [cur EXCEPT ![g] = AltAfter(cur[g])]
    BY <1>4 DEF ProducerSkip, restOfProducer, AtAlternative
  <2>2. Unmade(g)' \subseteq Unmade(g) /\ (cur'[g] # NOTASK => cur'[g][1] = cur[g][1])
    BY <1>0, <2>1, AdvanceFewer
  <2>3. Walk(g)'
    BY <1>0, <2>1, <2>2 DEF Walk
  <2>4. \A h \in Gemeente : h # g => UNCHANGED <<todo[h], cur[h], prod[h]>>
    BY <2>1 DEF TypeOK
  <2>5. QED
    BY <2>1, <2>2, <2>3, <2>4, OwnFewer
<1>5. CASE ProducerPut(g)
  BY <1>5, OwnPut
<1>6. QED
  BY <1>1, <1>2, <1>3, <1>4, <1>5 DEF Producer

\* Every search task has one owner at a time, for any number of workers and
\* adres variants: no search is done twice or handed to two workers (685-694).
THEOREM OneOwner == Spec => []TaskOwnedOnce
<1> DEFINE Inv == TypeOK /\ InOrder /\ OwnInv
<1>1. Init => Inv
  BY TypeInit, InOrderInit, OwnInit
<1>2. Inv /\ [Next]_vars => Inv'
  <2> SUFFICES ASSUME TypeOK, InOrder, OwnInv, [Next]_vars PROVE OwnInv'
    BY TypeStep, InOrderStep
  <2>1. CASE MainStep \/ MainTimeout
    BY <2>1, OwnMain
  <2>2. CASE \E g \in Gemeente : Producer(g)
    BY <2>2, OwnProducer
  <2>3. CASE \E w \in Worker : Works(w)
    BY <2>3, OwnWorks
  <2>4. CASE UNCHANGED vars
    BY <2>4, OwnStill DEF vars
  <2>5. QED
    BY <2>1, <2>2, <2>3, <2>4 DEF Next, Ended
<1>3. Inv => TaskOwnedOnce
  BY DEF OwnInv
<1>4. QED
  BY <1>1, <1>2, <1>3, PTL DEF Spec

\* What a search stores is never taken back: correctie only goes from unknown to
\* not found to corrected, whichever sibling search ends last (533-536, 666).
THEOREM CorrectionStays == Spec => CorrectionKept
<1> DEFINE Inv == TypeOK /\ InOrder
<1> DEFINE Keeps == \A l \in Loc : Rank(row[l].corr) <= Rank(row'[l].corr)
<1>1. Init => Inv
  BY TypeInit, InOrderInit
<1>2. Inv /\ [Next]_vars => Inv'
  BY TypeStep, InOrderStep
<1>3. Inv /\ [Next]_vars => [Keeps]_vars
  <2> SUFFICES ASSUME Inv, Next PROVE Keeps
    OBVIOUS
  <2>0. \A d \in Corr : Rank(d) \in {0, 1, 2} /\ Rank(d) <= Rank(d) /\ Rank(d) <= Rank("true")
    BY DEF Rank, Corr
  <2>1. \A l \in Loc : row[l] \in Row /\ row[l].corr \in Corr
    BY DEF TypeOK, Row
  <2>2. CASE UNCHANGED row
    BY <2>0, <2>1, <2>2
  <2>3. ASSUME NEW w \in Worker, WorkerNoHit(w) PROVE Keeps
    <3>1. row' = row \/ (row[hand[w][1]].corr = "null"
                         /\ row' = [row EXCEPT ![hand[w][1]].corr = "false"])
      BY <2>3 DEF WorkerNoHit, Refresh
    <3>2. ASSUME NEW l \in Loc PROVE Rank(row[l].corr) <= Rank(row'[l].corr)
      <4>0. \A r \in Row : [r EXCEPT !.corr = "false"].corr = "false"
        BY DEF Row
      <4>1. row'[l].corr = row[l].corr \/ (row[l].corr = "null" /\ row'[l].corr = "false")
        <5>1. CASE row' = row \/ l # hand[w][1]
          BY <3>1, <5>1 DEF TypeOK
        <5>2. CASE row' # row /\ l = hand[w][1]
          <6>1. row' = [row EXCEPT ![l] = [row[l] EXCEPT !.corr = "false"]] /\ row[l].corr = "null"
            BY <3>1, <5>2
          <6>2. row'[l] = [row[l] EXCEPT !.corr = "false"]
            BY <6>1 DEF TypeOK
          <6>3. QED
            BY <2>1, <4>0, <6>1, <6>2
        <5>3. QED
          BY <5>1, <5>2
      <4>2. Rank("null") <= Rank("false")
        BY DEF Rank
      <4>3. QED
        BY <2>0, <2>1, <4>1, <4>2
    <3>3. QED
      BY <3>2
  <2>4. ASSUME NEW w \in Worker, WorkerSave(w) PROVE Keeps
    <3>1. PICK v \in Vbo, n \in Vbo \cup {NOID} :
             row' = [row EXCEPT ![hand[w][1]] = Saved(@, v, n)]
      BY <2>4 DEF WorkerSave
    <3>2. \A r \in Row : Saved(r, v, n).corr = "true"
      BY DEF Saved, Row
    <3>3. ASSUME NEW l \in Loc PROVE Rank(row[l].corr) <= Rank(row'[l].corr)
      <4>1. row'[l].corr = row[l].corr \/ row'[l].corr = "true"
        BY <2>1, <3>1, <3>2 DEF TypeOK
      <4>2. QED
        BY <2>0, <2>1, <4>1
    <3>4. QED
      BY <3>3
  <2>5. CASE MainFill
    <3>1. \A l \in Loc : row'[l].corr = row[l].corr
      BY <2>1, <2>5 DEF MainFill, Row
    <3>2. QED
      BY <2>0, <2>1, <3>1
  <2>6. ASSUME NEW g \in Gemeente, Producer(g) PROVE UNCHANGED row
    BY <2>6 DEF Producer, ProducerStart, ProducerFetch, ProducerDone, ProducerCrash,
                ProducerSkip, ProducerPut, ProducerNap, ProducerWake, restOfProducer
  <2>7. ASSUME (MainStep /\ ~MainFill) \/ MainTimeout PROVE UNCHANGED row
    BY <2>7 DEF MainStep, MainNext, MainRunWorkers, MainJoined, MainTimeout, CloseGemeente,
                MainKillStatus, MainAssertNone, restOfMain
  <2>8. ASSUME NEW w \in Worker, Works(w), ~WorkerNoHit(w), ~WorkerSave(w) PROVE UNCHANGED row
    BY <2>8 DEF Works, WorkerStart, WorkerHit, WorkerGiveUp
  <2>9. QED
    BY <2>2, <2>3, <2>4, <2>5, <2>6, <2>7, <2>8 DEF Next, Ended, vars
<1>4. QED
  BY <1>1, <1>2, <1>3, PTL DEF Spec, CorrectionKept
=============================================================================
