----------------------- MODULE LocationSearchJoinProofs -----------------------
(***************************************************************************)
(* What holds of LocationSearch when the jobs of a gemeente are joined and *)
(* after: for every number of gemeenten, workers, locations and variants.  *)
(* The theorems about an empty queue assume Prompt; without it they fail,  *)
(* as a producer can be left on a full queue by workers that have gone.    *)
(***************************************************************************)
EXTENDS LocationSearchProofs, FiniteSetTheorems

Base == TypeOK /\ InOrder /\ OwnInv

\* The invariant behind OneOwner.
LEMMA BaseInit == Init => Base
BY TypeInit, InOrderInit, OwnInit DEF Base

LEMMA BaseStep == Base /\ [Next]_vars => Base'
<1> SUFFICES ASSUME TypeOK, InOrder, OwnInv, [Next]_vars PROVE OwnInv'
  BY TypeStep, InOrderStep DEF Base
<1>1. CASE MainStep \/ MainTimeout
  BY <1>1, OwnMain
<1>2. CASE \E g \in Gemeente : Producer(g)
  BY <1>2, OwnProducer
<1>3. CASE \E w \in Worker : Works(w)
  BY <1>3, OwnWorks
<1>4. CASE UNCHANGED vars
  BY <1>4, OwnStill DEF vars
<1>5. QED
  BY <1>1, <1>2, <1>3, <1>4 DEF Next, Ended
-----------------------------------------------------------------------------
(* What a step does to a row *)

Filled(r) == [r EXCEPT !.geo = BagGeo(r)]

\* A row is left alone, marked as not found when it was unknown, corrected, or given
\* the geometry of the BAG object it names.
RowStep(r, s) ==
    \/ s = r
    \/ r.corr = "null" /\ s = [r EXCEPT !.corr = "false"]
    \/ \E v \in Vbo : \E n \in {v, NOID} : s = Saved(r, v, n)
    \/ s = Filled(r)

LEMMA RowSteps ==
    ASSUME TypeOK, [Next]_vars, NEW l \in Loc
    PROVE  row[l] \in Row /\ RowStep(row[l], row'[l])
<1>0. row \in [Loc -> Row] /\ row[l] \in Row
  BY DEF TypeOK
<1>1. CASE row' = row
  BY <1>0, <1>1 DEF RowStep
<1>2. ASSUME NEW w \in Worker, WorkerNoHit(w) PROVE RowStep(row[l], row'[l])
  <2>1. \/ row' = row
        \/ /\ row[hand[w][1]].corr = "null"
           /\ row' = [row EXCEPT ![hand[w][1]] = [row[hand[w][1]] EXCEPT !.corr = "false"]]
    BY <1>2 DEF WorkerNoHit, Refresh
  <2>2. QED
    BY <1>0, <2>1 DEF RowStep
<1>3. ASSUME NEW w \in Worker, WorkerSave(w) PROVE RowStep(row[l], row'[l])
  <2>1. PICK v \in Vbo : \E n \in {v, NOID} :
           row' = [row EXCEPT ![hand[w][1]] = Saved(row[hand[w][1]], v, n)]
    BY <1>3 DEF WorkerSave
  <2>2. PICK n \in {v, NOID} :
           row' = [row EXCEPT ![hand[w][1]] = Saved(row[hand[w][1]], v, n)]
    BY <2>1
  <2>3. CASE l = hand[w][1]
    <3>1. row'[l] = Saved(row[l], v, n)
      BY <1>0, <2>2, <2>3
    <3>2. QED
      BY <3>1 DEF RowStep
  <2>4. CASE l # hand[w][1]
    BY <1>0, <2>2, <2>4 DEF RowStep
  <2>5. QED
    BY <2>3, <2>4
<1>4. CASE MainFill
  <2>1. row'[l] = Filled(row[l])
    BY <1>4 DEF MainFill, Filled
  <2>2. QED
    BY <1>0, <2>1 DEF RowStep
<1>5. ASSUME NEW g \in Gemeente, Producer(g) PROVE UNCHANGED row
  BY <1>5 DEF Producer, ProducerStart, ProducerFetch, ProducerDone, ProducerCrash,
              ProducerSkip, ProducerPut, ProducerNap, ProducerWake, restOfProducer
<1>6. ASSUME (MainStep /\ ~MainFill) \/ MainTimeout PROVE UNCHANGED row
  BY <1>6 DEF MainStep, MainNext, MainRunWorkers, MainJoined, MainTimeout, CloseGemeente,
              MainKillStatus, MainAssertNone, restOfMain
<1>7. ASSUME NEW w \in Worker, Works(w), ~WorkerNoHit(w), ~WorkerSave(w) PROVE UNCHANGED row
  BY <1>7 DEF Works, WorkerStart, WorkerHit, WorkerGiveUp
<1>8. QED
  BY <1>0, <1>1, <1>2, <1>3, <1>4, <1>5, <1>6, <1>7 DEF Next, Ended, vars

\* What a row that a step has changed looks like.
LEMMA RowFacts ==
    ASSUME NEW r \in Row, NEW s, RowStep(r, s)
    PROVE  /\ s.corr = "null" => r.corr = "null" /\ s.vbid = r.vbid
           /\ s.corr = "null" /\ s.geo = NULL => r.geo = NULL
<1>1. CASE s = r
  BY <1>1
<1>2. CASE s = [r EXCEPT !.corr = "false"]
  BY <1>2 DEF Row
<1>3. ASSUME NEW v \in Vbo, NEW n \in {v, NOID}, s = Saved(r, v, n) PROVE s.corr = "true"
  BY <1>3 DEF Saved, Row
<1>4. CASE s = Filled(r)
  <2>1. s.corr = r.corr /\ s.vbid = r.vbid /\ s.geo = BagGeo(r)
    BY <1>4 DEF Filled, Row
  <2>2. NULL \notin Vbo
    BY ConstAssumption DEF Id
  <2>3. BagGeo(r) \in Vbo \/ BagGeo(r) = r.geo
    BY DEF BagGeo
  <2>4. QED
    BY <2>1, <2>2, <2>3
<1>5. QED
  BY <1>1, <1>2, <1>3, <1>4 DEF RowStep

\* A location that is not invalid, or was given an answer, never becomes invalid.
LEMMA InvalidShrinks ==
    ASSUME TypeOK, [Next]_vars
    PROVE  \A g : Invalid(g)' \subseteq Invalid(g)
<1> SUFFICES ASSUME NEW g, NEW l \in Loc, l \in Invalid(g)' PROVE l \in Invalid(g)
  BY DEF Invalid
<1>1. row[l] \in Row /\ RowStep(row[l], row'[l])
  BY RowSteps
<1>2. GemOf[l] = g /\ row'[l].corr = "null" /\ (row'[l].geo = NULL \/ row'[l].vbid = NULL)
  BY DEF Invalid
<1>3. QED
  BY <1>1, <1>2, RowFacts DEF Invalid

\* A number link names the number and the object that are stored, for any answers of the
\* search api in any order (655-668), on rows of which earlier searches left no other.
THEOREM LinkStays == Spec => []LinkAgrees
<1>1. Init => TypeOK /\ InOrder /\ LinkAgrees
  BY TypeInit, InOrderInit, RowsAssumption DEF Init, LinkAgrees
<1>2. TypeOK /\ InOrder /\ LinkAgrees /\ [Next]_vars => (TypeOK /\ InOrder /\ LinkAgrees)'
  <2> SUFFICES ASSUME TypeOK, InOrder, LinkAgrees, [Next]_vars PROVE LinkAgrees'
    BY TypeStep, InOrderStep
  <2> SUFFICES ASSUME NEW l \in Loc, row'[l].corr = "true", row'[l].link \in Vbo
               PROVE  row'[l].numid = row'[l].link /\ row'[l].vbid = row'[l].link
    BY DEF LinkAgrees
  <2>1. row[l] \in Row /\ RowStep(row[l], row'[l])
    BY RowSteps
  <2>2. CASE row'[l] = row[l]
    BY <2>2 DEF LinkAgrees
  <2>3. CASE row'[l] = [row[l] EXCEPT !.corr = "false"]
    BY <2>1, <2>3 DEF Row
  <2>4. ASSUME NEW v \in Vbo, NEW n \in {v, NOID}, row'[l] = Saved(row[l], v, n)
        PROVE  row'[l].numid = row'[l].link /\ row'[l].vbid = row'[l].link
    <3>1. row'[l].link = n /\ row'[l].vbid = v
      BY <2>1, <2>4 DEF Saved, Row
    <3>2. n # NOID
      BY <3>1, ConstAssumption DEF Id
    <3>3. row'[l].numid = n
      BY <2>1, <2>4, <3>2 DEF Saved, Row
    <3>4. QED
      BY <3>1, <3>2, <3>3
  <2>5. CASE row'[l] = Filled(row[l])
    <3>1. /\ row'[l].corr = row[l].corr /\ row'[l].link = row[l].link
          /\ row'[l].numid = row[l].numid /\ row'[l].vbid = row[l].vbid
      BY <2>1, <2>5 DEF Filled, Row
    <3>2. QED
      BY <3>1 DEF LinkAgrees
  <2>6. QED
    BY <2>1, <2>2, <2>3, <2>4, <2>5 DEF RowStep
<1>3. QED
  BY <1>1, <1>2, PTL DEF Spec
-----------------------------------------------------------------------------
(* The invariants behind an empty queue *)

OfGem(t, g) == GemOf[t[1]] = g

\* A worker starts after the producer of its gemeente had its turn; a producer that is
\* done has no location left; only locations of a gemeente are searched.
Turns ==
    /\ \A w \in Worker : work[w] # "none" => prod[w[1]] # "none"
    /\ \A w \in Worker : work[w] \notin {"none", "ready"} => prod[w[1]] # "spawned"
    /\ main \in {"wait", "join"} => prod[gem] # "none"
    /\ main = "join" => \A w \in Worker : w[1] = gem => work[w] # "none"
    /\ \A g \in Gemeente : prod[g] = "done" => todo[g] = {} /\ cur[g] = NOTASK
    /\ \A t \in Tasks : InWork(t) => GemOf[t[1]] \in Gemeente

\* A producer naps on a queue that is not empty, and a worker that has left saw an
\* empty queue after the producer of its gemeente had made its last task.
Served ==
    /\ \A g \in Gemeente : prod[g] = "nap" => queue # << >>
    /\ \A w \in Worker : work[w] = "exited" =>
          /\ prod[w[1]] \in {"done", "dead"}
          /\ \A t \in Tasks : OfGem(t, w[1]) => t \notin Queued

\* A gemeente that was joined in time was skipped, or all its jobs have ended.
Closed ==
    \A g \in Gemeente : g < gem /\ g \notin cut =>
       \/ prod[g] = "none" /\ \A w \in Worker : w[1] = g => work[w] = "none"
       \/ prod[g] \in {"done", "dead"} /\ \A w \in Worker : w[1] = g => work[w] = "exited"

\* No search of a gemeente is under way once it, and all before it, were joined in time.
Quiet ==
    \A g \in Gemeente : g < gem /\ NoCut(g) =>
       \A t \in Tasks : OfGem(t, g) => ~InWork(t)

JoinInv == Base /\ Turns /\ Served /\ Closed /\ Quiet

\* A producer's step leaves the others and all but the queue alone; what it puts on
\* the queue is of its own gemeente.
LEMMA ProducerFrame ==
    ASSUME Base, NEW g \in Gemeente, Producer(g)
    PROVE  /\ UNCHANGED <<row, work, hand, main, gem, stats, fate, cut>>
           /\ \A h \in Gemeente : h # g => UNCHANGED <<prod[h], todo[h], cur[h]>>
           /\ prod[g] \in {"spawned", "run", "nap"}
           /\ prod'[g] \in {"run", "nap", "done", "dead"}
           /\ prod'[g] = "done" => todo'[g] = {} /\ cur'[g] = NOTASK
           /\ prod'[g] = "nap" => queue # << >>
           /\ queue # << >> => queue' # << >>
           /\ Queued \subseteq Queued' /\ \A t \in Queued' : t \in Queued \/ OfGem(t, g)
<1>0. TypeOK /\ QueueOnce /\ Walk(g) /\ UnmadeOpen
  BY DEF Base, OwnInv, TaskOwnedOnce
<1>1. UNCHANGED <<row, work, hand, main, gem, stats, fate, cut>>
  BY DEF Producer, ProducerStart, ProducerFetch, ProducerDone, ProducerCrash,
         ProducerSkip, ProducerPut, ProducerNap, ProducerWake, restOfProducer
<1>2. \A h \in Gemeente : h # g => UNCHANGED <<prod[h], todo[h], cur[h]>>
  BY <1>0 DEF Producer, ProducerStart, ProducerFetch, ProducerDone, ProducerCrash,
              ProducerSkip, ProducerPut, ProducerNap, ProducerWake, TypeOK
<1>3. /\ prod[g] \in {"spawned", "run", "nap"}
      /\ prod'[g] \in {"run", "nap", "done", "dead"}
  BY <1>0 DEF Producer, ProducerStart, ProducerFetch, ProducerDone, ProducerCrash,
              ProducerSkip, ProducerPut, ProducerNap, ProducerWake, AtAlternative, TypeOK
<1>4. prod'[g] = "done" => todo'[g] = {} /\ cur'[g] = NOTASK
  BY <1>0 DEF Producer, ProducerStart, ProducerFetch, ProducerDone, ProducerCrash,
              ProducerSkip, ProducerPut, ProducerNap, ProducerWake, AtAlternative, TypeOK
<1>5. prod'[g] = "nap" => queue # << >>
  <2>1. prod'[g] = "nap" => Len(queue) >= MAXSIZE
    BY <1>0 DEF Producer, ProducerStart, ProducerFetch, ProducerDone, ProducerCrash,
                ProducerSkip, ProducerPut, ProducerNap, ProducerWake, AtAlternative, TypeOK
  <2>2. ~(0 >= MAXSIZE) /\ Len(<< >>) = 0
    BY ConstAssumption
  <2>3. QED
    BY <2>1, <2>2
<1>6. CASE ProducerPut(g)
  <2> DEFINE c == cur[g]
  <2>1. /\ queue' = Append(queue, c) /\ queue \in Seq(Tasks)
        /\ c # NOTASK /\ c \in Place /\ c[2] <= Len(Alts[c[1]]) /\ Alts[c[1]][c[2]] = "task"
    BY <1>0, <1>6 DEF ProducerPut, AtAlternative, TypeOK
  <2>2. c \in Tasks /\ c[2] \in Nat
    BY <2>1 DEF Tasks, Place
  <2>3. c \in Unmade(g) /\ OfGem(c, g)
    BY <1>0, <2>1, <2>2 DEF Unmade, Walk, OfGem
  <2>4. \A k \in DOMAIN queue : queue[k] # c
    BY <1>0, <2>3 DEF UnmadeOpen, InWork, Queued
  <2>5. \A t \in Queued' : t \in Queued \/ t = c
    BY <1>0, <2>1, <2>2, <2>4, QueueAppend DEF QueueOnce, Queued
  <2>6. queue' # << >> /\ \A k \in DOMAIN queue : k \in DOMAIN queue' /\ queue'[k] = queue[k]
    BY <2>1, <2>2
  <2>7. QED
    BY <1>1, <1>2, <1>3, <1>4, <1>5, <2>3, <2>5, <2>6 DEF Queued
<1>7. CASE ~ProducerPut(g)
  <2>1. queue' = queue
    BY <1>7 DEF Producer, ProducerStart, ProducerFetch, ProducerDone, ProducerCrash,
                ProducerSkip, ProducerNap, ProducerWake
  <2>2. QED
    BY <1>1, <1>2, <1>3, <1>4, <1>5, <2>1 DEF Queued
<1>8. QED
  BY <1>6, <1>7

\* A worker's step leaves producers and other workers alone.
LEMMA WorksFrame ==
    ASSUME TypeOK, NEW w \in Worker, Works(w)
    PROVE  /\ UNCHANGED <<todo, cur, prod, main, gem, cut>> /\ HubFree
           /\ \A v \in Worker : v # w => work'[v] = work[v] /\ hand'[v] = hand[v]
           /\ work[w] \in {"ready", "search", "details"} /\ work'[w] \notin {"none", "ready"}
           /\ work[w] = "ready" => prod[w[1]] # "spawned"
           /\ TakeNext(w) \/ (UNCHANGED <<queue, hand, fate>> /\ work'[w] = "details")
<1>1. UNCHANGED <<todo, cur, prod, main, gem, cut>> /\ HubFree
      /\ work[w] \in {"ready", "search", "details"}
      /\ (work[w] = "ready" => prod[w[1]] # "spawned")
      /\ (TakeNext(w) \/ WorkerHit(w))
  BY DEF Works, WorkerStart, WorkerHit, WorkerNoHit, WorkerSave, WorkerGiveUp, Finish,
         HadTurn, restOfWorker
<1>2. CASE TakeNext(w)
  <2>1. /\ \A v \in Worker : v # w => work'[v] = work[v] /\ hand'[v] = hand[v]
        /\ work'[w] \in {"exited", "search"}
    BY <1>2 DEF TakeNext, TypeOK
  <2>2. QED
    BY <1>1, <1>2, <2>1
<1>3. CASE WorkerHit(w)
  <2>1. /\ \A v \in Worker : v # w => work'[v] = work[v] /\ hand'[v] = hand[v]
        /\ work'[w] = "details" /\ UNCHANGED <<queue, hand, fate>>
    BY <1>3 DEF WorkerHit, TypeOK
  <2>2. QED
    BY <1>1, <2>1
<1>4. QED
  BY <1>1, <1>2, <1>3

\* Taking the next task: nothing comes in, only the old task goes out, a worker leaves
\* on an empty queue only, and the last task is left while a producer naps.
LEMMA Takes ==
    ASSUME TypeOK, TaskOwnedOnce, NEW w \in Worker, TakeNext(w)
    PROVE  /\ Queued' \subseteq Queued
           /\ \A t \in Tasks : InWork(t)' => InWork(t)
           /\ \A t \in Tasks : InWork(t) => InWork(t)' \/ t = hand[w]
           /\ work'[w] = "exited" => queue = << >> /\ queue' = << >>
           /\ queue # << >> /\ Prompt /\ (\E g \in Gemeente : prod[g] = "nap")
                 => queue' # << >>
<1>0. /\ queue \in Seq(Tasks) /\ work \in [Worker -> Work] /\ QueueOnce
      /\ hand \in [Worker -> Tasks \cup {NOTASK}]
  BY DEF TypeOK, TaskOwnedOnce
<1>1. \A t \in Tasks : InWork(t)' => InWork(t)
  BY TakeNextOwns
<1>2. CASE queue = << >>
  <2>1. queue' = queue /\ hand' = [hand EXCEPT ![w] = NOTASK] /\ Queued' = Queued
    BY <1>2 DEF TakeNext, Queued
  <2>2. \A t \in Tasks : InWork(t) => InWork(t)' \/ t = hand[w]
    BY <1>0, <2>1 DEF InWork
  <2>3. QED
    BY <1>1, <1>2, <2>1, <2>2
<1>3. CASE queue # << >>
  <2>1. /\ queue' = Tail(queue) /\ hand' = [hand EXCEPT ![w] = Head(queue)]
        /\ work'[w] = "search"
        /\ ~(Prompt /\ Len(queue) = 1 /\ \E g \in Gemeente : prod[g] = "nap")
    BY <1>0, <1>3 DEF TakeNext
  <2>2. Queued' \subseteq Queued
    BY <1>0, <1>3, <2>1, QueueTail DEF QueueOnce, Queued
  <2>3. \A k \in DOMAIN queue : k = 1 \/ (k - 1 \in DOMAIN Tail(queue) /\ Tail(queue)[k - 1] = queue[k])
    <3>1. /\ DOMAIN queue = 1..Len(queue) /\ Len(queue) \in Nat
          /\ DOMAIN Tail(queue) = 1..(Len(queue) - 1)
      BY <1>0, <1>3
    <3>2. \A j \in DOMAIN Tail(queue) : Tail(queue)[j] = queue[j + 1]
      BY <1>0, <1>3, QueueTail DEF QueueOnce
    <3>3. \A k \in DOMAIN queue : k = 1 \/ (k - 1 \in DOMAIN Tail(queue) /\ (k - 1) + 1 = k)
      BY <3>1
    <3>4. QED
      BY <3>2, <3>3
  <2>4. Head(queue) = queue[1]
    BY <1>0, <1>3
  <2>5. \A t \in Queued : t = Head(queue) \/ t \in Queued'
    BY <2>1, <2>3, <2>4 DEF Queued
  <2>6. \A t \in Tasks : InWork(t) => InWork(t)' \/ t = hand[w]
    <3> SUFFICES ASSUME NEW t \in Tasks, InWork(t), t # hand[w] PROVE InWork(t)'
      OBVIOUS
    <3>1. CASE t \in Queued
      BY <1>0, <2>1, <2>5, <3>1 DEF InWork
    <3>2. CASE \E v \in Worker : hand[v] = t
      BY <1>0, <2>1, <3>2 DEF InWork
    <3>3. QED
      BY <3>1, <3>2 DEF InWork
  <2>7. Len(queue) # 1 => Tail(queue) # << >>
    <3>1. Len(queue) \in Nat /\ Len(Tail(queue)) = Len(queue) - 1
      BY <1>0, <1>3
    <3>2. Len(queue) # 1 => Len(Tail(queue)) # 0
      BY <3>1
    <3>3. QED
      BY <3>2
  <2>8. QED
    BY <1>1, <1>3, <2>1, <2>2, <2>6, <2>7
<1>4. QED
  BY <1>2, <1>3

\* A step of the main greenlet leaves tasks alone.
LEMMA MainFrame ==
    ASSUME MainStep \/ MainTimeout
    PROVE  /\ UNCHANGED <<queue, hand, fate, todo, cur>>
           /\ Queued' = Queued /\ \A t : InWork(t)' <=> InWork(t)
           /\ \A g : Unmade(g)' = Unmade(g)
<1>1. UNCHANGED <<queue, hand, fate, todo, cur>>
  BY DEF MainStep, MainNext, MainRunWorkers, MainJoined, MainTimeout, CloseGemeente,
         MainKillStatus, MainAssertNone, MainFill, restOfMain
<1>2. QED
  BY <1>1 DEF Queued, InWork, Unmade

\* Gemeenten are numbers.
LEMMA Numbers ==
    ASSUME TypeOK
    PROVE  /\ gem \in Nat /\ NGem \in Nat /\ Gemeente \subseteq Nat
           /\ \A g \in Gemeente : 1 <= g /\ g <= NGem
           /\ gem <= NGem + 1 /\ 1 <= gem
           /\ \A w \in Worker : w[1] \in Gemeente
           /\ \A g \in Gemeente : <<g, 1>> \in Worker
BY ConstAssumption DEF TypeOK, Gemeente, Worker

LEMMA JoinInit == Init => JoinInv
<1> SUFFICES ASSUME Init PROVE JoinInv
  OBVIOUS
<1>1. Base /\ TypeOK
  BY BaseInit DEF Base
<1>2. \A t \in Tasks : ~InWork(t)
  BY ConstAssumption DEF Init, InWork, Queued, Tasks
<1>3. Turns /\ Served /\ Closed
  BY <1>1, <1>2, Numbers DEF Init, Turns, Served, Closed
<1>4. Quiet
  BY <1>2 DEF Quiet
<1>5. QED
  BY <1>1, <1>3, <1>4 DEF JoinInv

LEMMA TurnsStep == Base /\ Turns /\ [Next]_vars => Turns'
<1> SUFFICES ASSUME Base, Turns, [Next]_vars PROVE Turns'
  OBVIOUS
<1>0. TypeOK /\ InOrder /\ TaskOwnedOnce
  BY DEF Base, OwnInv
<1>1. ASSUME NEW g \in Gemeente, Producer(g) PROVE Turns'
  <2>1. \A t \in Tasks : InWork(t)' => InWork(t) \/ GemOf[t[1]] = g
    BY <1>1, ProducerFrame DEF InWork, OfGem
  <2>2. /\ UNCHANGED <<work, main, gem>> /\ prod[g] # "none" /\ prod'[g] \notin {"none", "spawned"}
        /\ \A h \in Gemeente : h # g => UNCHANGED <<prod[h], todo[h], cur[h]>>
        /\ prod'[g] = "done" => todo'[g] = {} /\ cur'[g] = NOTASK
    BY <1>1, ProducerFrame
  <2>3. \A w \in Worker : /\ work'[w] # "none" => prod'[w[1]] # "none"
                          /\ work'[w] \notin {"none", "ready"} => prod'[w[1]] # "spawned"
    BY <1>0, <2>2, Numbers DEF Turns
  <2>4. main \in {"wait", "join"} => gem \in Gemeente
    BY <1>0, Numbers DEF TypeOK, Gemeente
  <2>5. main' \in {"wait", "join"} => prod'[gem'] # "none"
    BY <2>2, <2>4 DEF Turns
  <2>6. \A h \in Gemeente : prod'[h] = "done" => todo'[h] = {} /\ cur'[h] = NOTASK
    BY <2>2 DEF Turns
  <2>7. \A t \in Tasks : InWork(t)' => GemOf[t[1]] \in Gemeente
    BY <2>1 DEF Turns
  <2>8. main' = "join" => \A w \in Worker : w[1] = gem' => work'[w] # "none"
    BY <2>2 DEF Turns
  <2>9. QED
    BY <2>3, <2>5, <2>6, <2>7, <2>8 DEF Turns
<1>2. ASSUME NEW w \in Worker, Works(w) PROVE Turns'
  <2>1. \A t \in Tasks : InWork(t)' => InWork(t)
    BY <1>0, <1>2, WorksFrame, Takes DEF InWork, Queued
  <2>2. QED
    BY <1>0, <1>2, <2>1, WorksFrame DEF Turns
<1>3. CASE MainNext
  <2>1. \A t \in Tasks : InWork(t)' => InWork(t)
    BY <1>3, MainFrame DEF MainStep
  <2>2. CASE Invalid(gem) = {}
    <3>1. main = "next" /\ main' = main /\ UNCHANGED <<prod, work, todo, cur>>
      BY <1>3, <2>2 DEF MainNext, restOfMain
    <3>2. QED
      BY <2>1, <3>1 DEF Turns
  <2>3. CASE Invalid(gem) # {}
    <3>1. /\ gem \in Gemeente /\ main = "next" /\ main' = "wait" /\ gem' = gem
          /\ UNCHANGED <<work, todo, cur>> /\ prod'[gem] = "spawned"
          /\ \A g \in Gemeente : g # gem => prod'[g] = prod[g]
      BY <1>0, <1>3, <2>3, Numbers DEF MainNext, restOfMain, TypeOK, Gemeente
    <3>2. \A w \in Worker : w[1] = gem => work[w] = "none"
      BY <1>0, <3>1 DEF InOrder
    <3>3. QED
      BY <1>0, <2>1, <3>1, <3>2, Numbers DEF Turns
  <2>4. QED
    BY <2>2, <2>3
<1>4. CASE MainRunWorkers
  <2>1. \A t \in Tasks : InWork(t)' => InWork(t)
    BY <1>4, MainFrame DEF MainStep
  <2>2. /\ main = "wait" /\ main' = "join" /\ UNCHANGED <<gem, prod, todo, cur>>
        /\ work' = [w \in Worker |-> IF w[1] = gem THEN "ready" ELSE work[w]]
    BY <1>4 DEF MainRunWorkers, restOfMain
  <2>3. QED
    BY <2>1, <2>2 DEF Turns
<1>5. CASE MainJoined \/ MainTimeout \/ MainKillStatus \/ MainAssertNone \/ MainFill
  <2>1. \A t \in Tasks : InWork(t)' => InWork(t)
    BY <1>5, MainFrame DEF MainStep
  <2>2. main' \notin {"wait", "join"} /\ UNCHANGED <<prod, work, todo, cur>>
    BY <1>5 DEF MainJoined, MainTimeout, CloseGemeente, MainKillStatus, MainAssertNone,
                MainFill, restOfMain
  <2>3. QED
    BY <2>1, <2>2 DEF Turns
<1>6. CASE UNCHANGED vars
  BY <1>6 DEF vars, Turns, InWork, Queued
<1>7. QED
  BY <1>1, <1>2, <1>3, <1>4, <1>5, <1>6 DEF Next, MainStep, Ended

LEMMA ServedStep ==
    ASSUME Prompt
    PROVE  Base /\ Turns /\ Served /\ [Next]_vars => Served'
<1> SUFFICES ASSUME Base, Turns, Served, [Next]_vars PROVE Served'
  OBVIOUS
<1>0. TypeOK /\ InOrder /\ TaskOwnedOnce /\ Turns'
  BY TurnsStep DEF Base, OwnInv
<1>1. ASSUME NEW g \in Gemeente, Producer(g) PROVE Served'
  <2>1. \A h \in Gemeente : prod'[h] = "nap" => queue' # << >>
    BY <1>1, ProducerFrame DEF Served
  <2>2. ASSUME NEW w \in Worker, work'[w] = "exited"
        PROVE  /\ prod'[w[1]] \in {"done", "dead"}
               /\ \A t \in Tasks : OfGem(t, w[1]) => t \notin Queued'
    <3>1. work[w] = "exited" /\ w[1] \in Gemeente /\ prod[w[1]] \in {"done", "dead"}
      BY <1>0, <1>1, <2>2, ProducerFrame, Numbers DEF Served
    <3>2. w[1] # g
      BY <1>1, <3>1, ProducerFrame
    <3>3. prod'[w[1]] = prod[w[1]] /\ \A t \in Queued' : t \in Queued \/ OfGem(t, g)
      BY <1>1, <3>1, <3>2, ProducerFrame
    <3>4. QED
      BY <3>1, <3>2, <3>3 DEF Served, OfGem
  <2>3. QED
    BY <2>1, <2>2 DEF Served
<1>2. ASSUME NEW w \in Worker, Works(w) PROVE Served'
  <2>1. Queued' \subseteq Queued
    BY <1>0, <1>2, WorksFrame, Takes DEF Queued
  <2>2. \A h \in Gemeente : prod'[h] = "nap" => queue' # << >>
    BY <1>0, <1>2, WorksFrame, Takes DEF Served
  <2>3. ASSUME NEW v \in Worker, v # w, work'[v] = "exited"
        PROVE  /\ prod'[v[1]] \in {"done", "dead"}
               /\ \A t \in Tasks : OfGem(t, v[1]) => t \notin Queued'
    BY <1>0, <1>2, <2>1, <2>3, WorksFrame DEF Served
  <2>4. ASSUME work'[w] = "exited"
        PROVE  /\ prod'[w[1]] \in {"done", "dead"}
               /\ \A t \in Tasks : OfGem(t, w[1]) => t \notin Queued'
    <3>1. queue = << >> /\ queue' = << >> /\ UNCHANGED prod /\ HubFree
      BY <1>0, <1>2, <2>4, WorksFrame, Takes
    <3>2. w[1] \in Gemeente /\ prod[w[1]] \in Prod
      BY <1>0, Numbers DEF TypeOK
    <3>3. prod[w[1]] \notin {"none", "spawned"}
      BY <1>0, <2>4, <3>1 DEF Turns
    <3>4. prod[w[1]] \notin {"run", "nap"}
      BY <3>1, <3>2 DEF HubFree, Served
    <3>5. QED
      BY <3>1, <3>2, <3>3, <3>4 DEF Prod, Queued
  <2>5. QED
    BY <2>2, <2>3, <2>4 DEF Served
<1>3. CASE MainNext
  <2>1. Queued' = Queued /\ UNCHANGED <<queue, work>>
    BY <1>3, MainFrame DEF MainStep, MainNext
  <2>2. \A g \in Gemeente : prod'[g] = prod[g] \/ (prod[g] = "none" /\ prod'[g] = "spawned")
    BY <1>0, <1>3 DEF MainNext, TypeOK, InOrder
  <2>3. QED
    BY <1>0, <2>1, <2>2, Numbers DEF Served
<1>4. CASE MainRunWorkers
  <2>1. /\ Queued' = Queued /\ UNCHANGED <<queue, prod>>
        /\ work' = [w \in Worker |-> IF w[1] = gem THEN "ready" ELSE work[w]]
    BY <1>4, MainFrame DEF MainStep, MainRunWorkers
  <2>2. QED
    BY <2>1 DEF Served
<1>5. CASE MainJoined \/ MainTimeout \/ MainKillStatus \/ MainAssertNone \/ MainFill
  <2>1. Queued' = Queued /\ UNCHANGED queue
    BY <1>5, MainFrame DEF MainStep
  <2>2. UNCHANGED <<prod, work>>
    BY <1>5 DEF MainJoined, MainTimeout, CloseGemeente, MainKillStatus, MainAssertNone,
                MainFill, restOfMain
  <2>3. QED
    BY <2>1, <2>2 DEF Served
<1>6. CASE UNCHANGED vars
  BY <1>6 DEF vars, Served, Queued
<1>7. QED
  BY <1>1, <1>2, <1>3, <1>4, <1>5, <1>6 DEF Next, MainStep, Ended

LEMMA ClosedStep == Base /\ Closed /\ [Next]_vars => Closed'
<1> SUFFICES ASSUME Base, Closed, [Next]_vars PROVE Closed'
  OBVIOUS
<1>0. TypeOK /\ InOrder
  BY DEF Base
<1>1. ASSUME NEW g \in Gemeente, Producer(g) PROVE Closed'
  <2>1. ~(g < gem /\ g \notin cut)
    BY <1>1, ProducerFrame DEF Closed
  <2>2. QED
    BY <1>1, <2>1, ProducerFrame DEF Closed
<1>2. ASSUME NEW w \in Worker, Works(w) PROVE Closed'
  <2>1. w[1] \in Gemeente /\ ~(w[1] < gem /\ w[1] \notin cut)
    BY <1>0, <1>2, WorksFrame, Numbers DEF Closed
  <2>2. QED
    BY <1>0, <1>2, <2>1, WorksFrame DEF Closed
<1>3. CASE MainNext
  <2>1. main = "next" /\ UNCHANGED <<work, cut>>
    BY <1>3 DEF MainNext
  <2>2. CASE Invalid(gem) = {}
    <3>1. gem' = gem + 1 /\ UNCHANGED prod
      BY <1>3, <2>2 DEF MainNext
    <3>2. \A g \in Gemeente : g < gem' => g < gem \/ g = gem
      BY <1>0, <3>1, Numbers
    <3>3. QED
      BY <1>0, <2>1, <3>1, <3>2 DEF Closed, InOrder
  <2>3. CASE Invalid(gem) # {}
    <3>1. gem' = gem /\ \A g \in Gemeente : g # gem => prod'[g] = prod[g]
      BY <1>0, <1>3, <2>3 DEF MainNext, TypeOK
    <3>2. \A g \in Gemeente : g < gem => g # gem
      BY <1>0, Numbers
    <3>3. QED
      BY <2>1, <3>1, <3>2 DEF Closed
  <2>4. QED
    BY <2>2, <2>3
<1>4. CASE MainRunWorkers
  <2>1. /\ UNCHANGED <<gem, prod, cut>>
        /\ work' = [w \in Worker |-> IF w[1] = gem THEN "ready" ELSE work[w]]
    BY <1>4 DEF MainRunWorkers
  <2>2. \A g \in Gemeente : g < gem => g # gem
    BY <1>0, Numbers
  <2>3. QED
    BY <2>1, <2>2 DEF Closed
<1>5. CASE MainJoined
  <2>1. JobsReady(gem) /\ UNCHANGED <<prod, work, cut>> /\ gem' \in {gem, gem + 1}
    BY <1>5 DEF MainJoined, CloseGemeente
  <2>2. \A g \in Gemeente : g < gem' => g < gem \/ g = gem
    BY <1>0, <2>1, Numbers
  <2>3. QED
    BY <2>1, <2>2 DEF Closed, JobsReady
<1>6. CASE MainTimeout
  <2>1. /\ UNCHANGED <<prod, work>> /\ gem' \in {gem, gem + 1} /\ cut' = cut \cup {gem}
    BY <1>6 DEF MainTimeout, CloseGemeente
  <2>2. \A g \in Gemeente : g < gem' /\ g \notin cut' => g < gem /\ g \notin cut
    BY <1>0, <2>1, Numbers
  <2>3. QED
    BY <2>1, <2>2 DEF Closed
<1>7. CASE MainKillStatus \/ MainAssertNone \/ MainFill
  BY <1>7 DEF MainKillStatus, MainAssertNone, MainFill, Closed
<1>8. CASE UNCHANGED vars
  BY <1>8 DEF vars, Closed
<1>9. QED
  BY <1>1, <1>2, <1>3, <1>4, <1>5, <1>6, <1>7, <1>8 DEF Next, MainStep, Ended

LEMMA QuietStep ==
    ASSUME Prompt
    PROVE  JoinInv /\ [Next]_vars => Quiet'
<1> SUFFICES ASSUME JoinInv, [Next]_vars PROVE Quiet'
  OBVIOUS
<1>0. /\ TypeOK /\ InOrder /\ TaskOwnedOnce /\ Base /\ Turns /\ Served /\ Closed /\ Quiet
      /\ \A g \in Gemeente : Walk(g)
  BY DEF JoinInv, Base, OwnInv
<1>n. ASSUME NEW g \in Gemeente, g < gem, NoCut(g) PROVE g \notin cut
  BY <1>0, <1>n, Numbers DEF NoCut
<1>1. ASSUME NEW g \in Gemeente, Producer(g) PROVE Quiet'
  <2>1. UNCHANGED <<gem, cut>> /\ \A t \in Tasks : InWork(t)' => InWork(t) \/ OfGem(t, g)
    BY <1>0, <1>1, ProducerFrame DEF InWork
  <2>2. ~(g < gem /\ NoCut(g))
    BY <1>0, <1>1, <1>n, ProducerFrame DEF Closed
  <2>3. QED
    BY <1>0, <2>1, <2>2 DEF Quiet, NoCut, OfGem
<1>2. ASSUME NEW w \in Worker, Works(w) PROVE Quiet'
  <2>1. UNCHANGED <<gem, cut>> /\ \A t \in Tasks : InWork(t)' => InWork(t)
    BY <1>0, <1>2, WorksFrame, Takes DEF InWork, Queued
  <2>2. QED
    BY <1>0, <2>1 DEF Quiet, NoCut
<1>3. ASSUME MainStep \/ MainTimeout PROVE Quiet'
  <2>1. \A t \in Tasks : InWork(t)' => InWork(t)
    BY <1>3, MainFrame
  <2>2. gem' \in {gem, gem + 1} /\ cut \subseteq cut'
    BY <1>3 DEF MainStep, MainNext, MainRunWorkers, MainJoined, MainTimeout, CloseGemeente,
                MainKillStatus, MainAssertNone, MainFill
  <2>3. \A g \in Gemeente : NoCut(g)' => NoCut(g)
    BY <2>2 DEF NoCut
  <2>4. CASE gem' = gem
    BY <1>0, <2>1, <2>3, <2>4 DEF Quiet
  <2>5. ASSUME gem \in Gemeente, gem' = gem + 1,
               \A g \in Gemeente : g = gem /\ NoCut(g)' =>
                  \A t \in Tasks : OfGem(t, g) => ~InWork(t)
        PROVE  Quiet'
    <3>1. \A g \in Gemeente : g < gem' => g < gem \/ g = gem
      BY <1>0, <2>5, Numbers
    <3>2. ASSUME NEW g \in Gemeente, g < gem', NoCut(g)', NEW t \in Tasks, OfGem(t, g)
          PROVE  ~InWork(t)'
      <4>1. CASE g < gem
        BY <1>0, <2>1, <2>3, <3>2, <4>1 DEF Quiet
      <4>2. CASE g = gem
        BY <2>1, <2>5, <3>2, <4>2
      <4>3. QED
        BY <3>1, <3>2, <4>1, <4>2
    <3>3. QED
      BY <3>2 DEF Quiet, OfGem
  <2>6. CASE MainNext /\ gem' # gem
    <3>1. gem \in Gemeente /\ main = "next" /\ gem' = gem + 1
      BY <1>0, <2>2, <2>6, Numbers DEF MainNext, Gemeente
    <3>2. \A t \in Tasks : OfGem(t, gem) => ~InWork(t)
      BY <1>0, <3>1 DEF InOrder, Walk, OfGem
    <3>3. QED
      BY <2>5, <3>1, <3>2
  <2>7. CASE MainTimeout /\ gem' # gem
    <3>1. gem \in Gemeente /\ gem \in cut' /\ gem' = gem + 1
      BY <1>0, <2>2, <2>7, Numbers DEF MainTimeout, TypeOK, Gemeente
    <3>2. \A g \in Gemeente : g = gem => ~NoCut(g)'
      BY <1>0, <3>1, Numbers DEF NoCut
    <3>3. QED
      BY <2>5, <3>1, <3>2
  <2>8. CASE MainJoined /\ gem' # gem
    <3>1. gem \in Gemeente /\ gem' = gem + 1 /\ cut' = cut /\ JobsReady(gem)
      BY <1>0, <2>2, <2>8, Numbers DEF MainJoined, TypeOK, Gemeente
    <3>2. ASSUME NEW g \in Gemeente, g = gem, NoCut(g)', NEW t \in Tasks, OfGem(t, g)
          PROVE  ~InWork(t)
      <4>1. t \notin Queued
        <5>1. <<gem, 1>> \in Worker /\ work[<<gem, 1>>] = "exited"
          BY <1>0, <3>1, Numbers DEF JobsReady
        <5>2. QED
          BY <1>0, <3>2, <5>1 DEF Served
      <4>2. ASSUME NEW v \in Worker, hand[v] = t PROVE FALSE
        <5>1. work[v] \in {"search", "details"} /\ v[1] \in Gemeente
          BY <1>0, <4>2, ConstAssumption, Numbers DEF TypeOK, Tasks
        <5>2. CASE v[1] = gem
          BY <3>1, <5>1, <5>2 DEF JobsReady
        <5>3. CASE v[1] < gem
          <6>1. v[1] \notin cut
            BY <1>0, <3>1, <3>2, <5>1, <5>3, Numbers DEF NoCut
          <6>2. QED
            BY <1>0, <5>1, <5>3, <6>1 DEF Closed
        <5>4. CASE gem < v[1]
          BY <1>0, <5>1, <5>4 DEF InOrder
        <5>5. QED
          BY <1>0, <5>1, <5>2, <5>3, <5>4, Numbers
      <4>3. QED
        BY <4>1, <4>2 DEF InWork
    <3>3. QED
      BY <2>5, <3>1, <3>2
  <2>9. CASE MainRunWorkers \/ MainKillStatus \/ MainAssertNone \/ MainFill
    BY <2>4, <2>9 DEF MainRunWorkers, MainKillStatus, MainAssertNone, MainFill
  <2>10. QED
    BY <1>3, <2>4, <2>6, <2>7, <2>8, <2>9 DEF MainStep
<1>4. CASE UNCHANGED vars
  BY <1>0, <1>4 DEF vars, Quiet, NoCut, InWork, Queued
<1>5. QED
  BY <1>1, <1>2, <1>3, <1>4 DEF Next, Ended

LEMMA JoinStep == Prompt => (JoinInv /\ [Next]_vars => JoinInv')
BY BaseStep, TurnsStep, ServedStep, ClosedStep, QuietStep DEF JoinInv

\* After joinall came back in time for every gemeente so far, nothing of them is queued
\* or under way, and no producer of theirs sleeps (978, 1007).
THEOREM JoinedIsDrained == Prompt => (Spec => []DrainedWhenJoined)
<1> SUFFICES ASSUME Prompt PROVE Spec => []DrainedWhenJoined
  OBVIOUS
<1>1. Init => JoinInv
  BY JoinInit
<1>2. JoinInv /\ [Next]_vars => JoinInv'
  BY JoinStep
<1>3. JoinInv => DrainedWhenJoined
  <2> SUFFICES ASSUME JoinInv, NEW g \in 1..(gem - 1), NoCut(g)
               PROVE  /\ prod[g] # "nap"
                      /\ \A t \in Queued \cup {hand[w] : w \in Worker} :
                             t # NOTASK => GemOf[t[1]] # g
    BY DEF DrainedWhenJoined
  <2>1. TypeOK /\ Closed /\ Quiet /\ g \in Gemeente /\ g < gem /\ g \notin cut
    BY Numbers DEF JoinInv, Base, NoCut, Gemeente
  <2>2. prod[g] # "nap"
    BY <2>1 DEF Closed
  <2>3. ASSUME NEW t \in Queued \cup {hand[w] : w \in Worker}, t # NOTASK
        PROVE  t \in Tasks /\ InWork(t)
    BY <2>1, <2>3 DEF TypeOK, Queued, InWork
  <2>4. QED
    BY <2>1, <2>2, <2>3 DEF Quiet, OfGem
<1>4. QED
  BY <1>1, <1>2, <1>3, PTL DEF Spec

Working == {"ready", "search", "details"}

\* While main waits for the jobs of a gemeente whose producer sleeps on a full queue,
\* every worker of it is still there to empty the queue: the producer is never left
\* waiting for workers that have gone (685, 916), as long as one nap is shorter than
\* the workers need for a full queue.
NapIsServed ==
    Prompt /\ main = "join" /\ prod[gem] = "nap" =>
       queue # << >> /\ \A w \in Worker : w[1] = gem => work[w] \in Working

\* While main waits for a gemeente whose producer naps on a full queue, all its workers are
\* there and the queue is not empty (685, 916).
THEOREM NapsAreServed == Prompt => (Spec => []NapIsServed)
<1> SUFFICES ASSUME Prompt PROVE Spec => []NapIsServed
  OBVIOUS
<1>1. Init => JoinInv
  BY JoinInit
<1>2. JoinInv /\ [Next]_vars => JoinInv'
  BY JoinStep
<1>3. JoinInv => NapIsServed
  <2> SUFFICES ASSUME JoinInv, main = "join", prod[gem] = "nap"
               PROVE  queue # << >> /\ \A w \in Worker : w[1] = gem => work[w] \in Working
    BY DEF NapIsServed
  <2>1. TypeOK /\ Turns /\ Served /\ gem \in Gemeente
    BY Numbers DEF JoinInv, Base, TypeOK, Gemeente
  <2>2. QED
    BY <2>1 DEF Turns, Served, TypeOK, Work, Working
<1>4. QED
  BY <1>1, <1>2, <1>3, PTL DEF Spec
-----------------------------------------------------------------------------
(* How searches end *)

\* A search that had an answer has left its mark in the row.
Marked == \A t \in Tasks : fate[t] \in {"saved", "notfound"} => row[t[1]].corr # "null"

\* Once the producer has had its turn, every search of an invalid location of its gemeente
\* is still to be made, under way, or over.
Attempted ==
    \A g \in Gemeente : prod[g] \notin {"none", "spawned"} =>
       \A t \in Tasks : t[1] \in Invalid(g) =>
          t \in Unmade(g) \/ InWork(t) \/ fate[t] # "open"

\* A step ends at most one search, that of a worker; without a hit, or with one that is
\* saved, the row is marked.
LEMMA FateStep ==
    ASSUME TypeOK, NEW w \in Worker, Works(w)
    PROVE  \/ UNCHANGED <<fate, stats>>
              /\ (\A t \in Tasks : TaskOwnedOnce /\ InWork(t) => InWork(t)')
           \/ \E f \in {"saved", "notfound", "gaveup"} :
                 /\ hand[w] \in Tasks /\ fate' = [fate EXCEPT ![hand[w]] = f]
                 /\ f = "saved" => stats' = [stats EXCEPT !.correcties = @ + 1]
                 /\ f # "saved" => UNCHANGED stats
                 /\ f # "gaveup" => row'[hand[w][1]].corr # "null"
<1>0. work[w] \in {"search", "details"} => hand[w] \in Tasks
  BY DEF TypeOK
<1>0a. \A t \in Tasks : t[1] \in Loc
  BY DEF Tasks
<1>0b. row \in [Loc -> Row]
  BY DEF TypeOK
<1>1. CASE WorkerStart(w)
  <2>1. UNCHANGED <<fate, stats>> /\ TakeNext(w) /\ hand[w] = NOTASK
    BY <1>1 DEF WorkerStart, TypeOK
  <2>2. \A t \in Tasks : t # NOTASK
    BY ConstAssumption DEF Tasks
  <2>3. QED
    BY <2>1, <2>2, Takes
<1>2. CASE WorkerHit(w)
  BY <1>2 DEF WorkerHit, InWork, Queued
<1>3. CASE WorkerNoHit(w)
  <2>1. /\ hand[w] \in Tasks /\ fate' = [fate EXCEPT ![hand[w]] = "notfound"] /\ UNCHANGED stats
    BY <1>0, <1>3 DEF WorkerNoHit, Finish
  <2>2. row'[hand[w][1]].corr # "null"
    <3>1. hand[w][1] \in Loc /\ row[hand[w][1]] \in Row
      BY <1>0a, <1>0b, <2>1
    <3>2. CASE row[hand[w][1]].corr = "null"
      <4>1. row'[hand[w][1]] = [row[hand[w][1]] EXCEPT !.corr = "false"]
        BY <1>0b, <1>3, <3>1, <3>2 DEF WorkerNoHit, Refresh
      <4>2. QED
        BY <3>1, <4>1 DEF Row
    <3>3. CASE row[hand[w][1]].corr # "null"
      BY <1>3, <3>3 DEF WorkerNoHit, Refresh
    <3>4. QED
      BY <3>2, <3>3
  <2>3. QED
    BY <2>1, <2>2
<1>4. CASE WorkerSave(w)
  <2>1. /\ hand[w] \in Tasks /\ fate' = [fate EXCEPT ![hand[w]] = "saved"]
        /\ stats' = [stats EXCEPT !.correcties = @ + 1]
    BY <1>0, <1>4 DEF WorkerSave, Finish
  <2>2. row'[hand[w][1]].corr # "null"
    <3>1. hand[w][1] \in Loc /\ row[hand[w][1]] \in Row
      BY <1>0a, <1>0b, <2>1
    <3>2. PICK v \in Vbo, n \in Vbo \cup {NOID} :
             row' = [row EXCEPT ![hand[w][1]] = Saved(row[hand[w][1]], v, n)]
      BY <1>4 DEF WorkerSave
    <3>3. row'[hand[w][1]] = Saved(row[hand[w][1]], v, n)
      BY <1>0b, <3>1, <3>2
    <3>4. QED
      BY <3>1, <3>3 DEF Saved, Row
  <2>3. QED
    BY <2>1, <2>2
<1>5. CASE WorkerGiveUp(w)
  BY <1>0, <1>5 DEF WorkerGiveUp, Finish
<1>6. QED
  BY <1>1, <1>2, <1>3, <1>4, <1>5 DEF Works

\* Every step that is not a worker's leaves the fates alone.
LEMMA FateElse ==
    ASSUME [Next]_vars, \A w \in Worker : ~Works(w)
    PROVE  UNCHANGED fate
BY DEF Next, Ended, vars, MainStep, MainNext, MainRunWorkers, MainJoined, MainTimeout,
       CloseGemeente, MainKillStatus, MainAssertNone, MainFill, restOfMain,
       Producer, ProducerStart, ProducerFetch, ProducerDone, ProducerCrash,
       ProducerSkip, ProducerPut, ProducerNap, ProducerWake, restOfProducer

LEMMA MarkedInit == Init => Marked
BY DEF Init, Marked

LEMMA MarkedStep == TypeOK /\ Marked /\ [Next]_vars => Marked'
<1> SUFFICES ASSUME TypeOK, Marked, [Next]_vars, NEW t \in Tasks,
                    fate'[t] \in {"saved", "notfound"}
             PROVE  row'[t[1]].corr # "null"
  BY DEF Marked
<1>1. t[1] \in Loc
  BY DEF Tasks
<1>2. CASE fate'[t] = fate[t]
  <2>1. row[t[1]].corr # "null"
    BY <1>2 DEF Marked
  <2>2. QED
    BY <1>1, <2>1, RowSteps, RowFacts
<1>3. CASE fate'[t] # fate[t]
  <2>1. PICK w \in Worker : Works(w)
    BY <1>3, FateElse
  <2>2. PICK f \in {"saved", "notfound", "gaveup"} :
           /\ hand[w] \in Tasks /\ fate' = [fate EXCEPT ![hand[w]] = f]
           /\ f # "gaveup" => row'[hand[w][1]].corr # "null"
    BY <1>3, <2>1, FateStep
  <2>3. t = hand[w] /\ fate'[t] = f
    BY <1>3, <2>2 DEF TypeOK
  <2>4. QED
    BY <2>2, <2>3
<1>4. QED
  BY <1>2, <1>3

\* Going on to the next variant leaves the producer all tasks but the one it was at.
LEMMA AdvanceLeaves ==
    ASSUME TypeOK, NEW g \in Gemeente, cur[g] # NOTASK,
           todo' = todo, cur' = [cur EXCEPT ![g] = AltAfter(cur[g])],
           NEW t \in Unmade(g), t # cur[g]
    PROVE  t \in Unmade(g)'
<1> DEFINE c == cur[g]
<1>1. c \in Place /\ t \in Tasks /\ cur'[g] = AltAfter(c)
  BY DEF TypeOK, Unmade
<1>2. CASE t[1] \in todo[g]
  BY <1>1, <1>2 DEF Unmade
<1>3. CASE c[1] = t[1] /\ c[2] <= t[2]
  <2>1. /\ c = <<c[1], c[2]>> /\ t = <<t[1], t[2]>> /\ c[2] \in Nat /\ t[2] \in Nat
        /\ t[1] \in Loc /\ t[2] <= Len(Alts[t[1]])
    BY <1>1 DEF Place, Tasks
  <2>2. c[2] # t[2]
    BY <1>3, <2>1
  <2>3. Len(Alts[t[1]]) \in Nat
    BY <2>1, AltsLen
  <2>4. c[2] < Len(Alts[c[1]]) /\ c[2] + 1 <= t[2]
    BY <1>3, <2>1, <2>2, <2>3
  <2>5. cur'[g] = <<t[1], c[2] + 1>>
    BY <1>1, <1>3, <2>4 DEF AltAfter
  <2>6. c[2] + 1 \in 1..5
    BY <2>1, <2>4, <1>1 DEF Tasks
  <2>7. cur'[g] # NOTASK
    BY <2>1, <2>5, <2>6, ConstAssumption
  <2>8. QED
    BY <1>1, <2>4, <2>5, <2>7 DEF Unmade
<1>4. QED
  BY <1>2, <1>3 DEF Unmade

LEMMA AttemptedProducer ==
    ASSUME Base, Attempted, NEW g \in Gemeente, Producer(g), [Next]_vars
    PROVE  Attempted'
<1>0. TypeOK
  BY DEF Base
<1>1. /\ UNCHANGED <<hand, fate>> /\ Queued \subseteq Queued'
      /\ \A h \in Gemeente : h # g => UNCHANGED <<prod[h], todo[h], cur[h]>>
  BY ProducerFrame
<1>2. \A t \in Tasks : InWork(t) => InWork(t)'
  BY <1>1 DEF InWork
<1>3. \A h \in Gemeente : h # g => Unmade(h)' = Unmade(h)
  BY <1>1 DEF Unmade
<1>4. ASSUME NEW t \in Tasks, t[1] \in Invalid(g)', prod'[g] \notin {"none", "spawned"}
      PROVE  t \in Unmade(g)' \/ InWork(t)' \/ fate'[t] # "open"
  <2>1. t[1] \in Invalid(g)
    BY <1>0, <1>4, InvalidShrinks
  <2>2. CASE ProducerStart(g)
    <3>1. todo'[g] = Invalid(g)
      BY <1>0, <2>2 DEF ProducerStart, TypeOK
    <3>2. QED
      BY <2>1, <3>1 DEF Unmade
  <2>3. CASE ~ProducerStart(g)
    <3>1. prod[g] \in {"run", "nap"}
      BY <1>0, <2>3 DEF Producer, ProducerFetch, ProducerDone, ProducerCrash, ProducerSkip,
                        ProducerPut, ProducerNap, ProducerWake, AtAlternative
    <3>2. t \in Unmade(g) \/ InWork(t) \/ fate[t] # "open"
      BY <2>1, <3>1 DEF Attempted
    <3>3. ASSUME t \in Unmade(g) PROVE t \in Unmade(g)' \/ InWork(t)'
      <4>1. CASE ProducerFetch(g)
        <5>1. PICK l \in todo[g] : /\ todo' = [todo EXCEPT ![g] = @ \ {l}]
                                   /\ cur' = [cur EXCEPT ![g] = <<l, 1>>]
          BY <4>1 DEF ProducerFetch
        <5>2. todo'[g] = todo[g] \ {l} /\ cur'[g] = <<l, 1>> /\ cur[g] = NOTASK /\ l \in Loc
          BY <1>0, <4>1, <5>1 DEF TypeOK, ProducerFetch
        <5>3. t[1] \in todo[g] /\ 1 <= t[2]
          BY <3>3, <5>2 DEF Unmade, Tasks
        <5>4. <<l, 1>> # NOTASK
          BY <5>2, ConstAssumption
        <5>5. QED
          BY <5>2, <5>3, <5>4 DEF Unmade
      <4>2. CASE ProducerSkip(g)
        <5>1. /\ cur[g] # NOTASK /\ todo' = todo /\ cur' = [cur EXCEPT ![g] = AltAfter(cur[g])]
              /\ Alts[cur[g][1]][cur[g][2]] = "skip"
          BY <4>2 DEF ProducerSkip, AtAlternative
        <5>2. t # cur[g]
          BY <5>1 DEF Tasks
        <5>3. QED
          BY <1>0, <3>3, <5>1, <5>2, AdvanceLeaves
      <4>3. CASE ProducerPut(g)
        <5>1. /\ cur[g] # NOTASK /\ todo' = todo /\ cur' = [cur EXCEPT ![g] = AltAfter(cur[g])]
              /\ queue' = Append(queue, cur[g]) /\ queue \in Seq(Tasks)
          BY <1>0, <4>3 DEF ProducerPut, AtAlternative, TypeOK
        <5>2. CASE t = cur[g]
          <6>1. Len(queue) + 1 \in DOMAIN queue' /\ queue'[Len(queue) + 1] = t
            BY <5>1, <5>2
          <6>2. QED
            BY <6>1 DEF InWork, Queued
        <5>3. CASE t # cur[g]
          BY <1>0, <3>3, <5>1, <5>3, AdvanceLeaves
        <5>4. QED
          BY <5>2, <5>3
      <4>4. CASE ProducerDone(g) \/ ProducerCrash(g) \/ ProducerNap(g) \/ ProducerWake(g)
        BY <3>3, <4>4 DEF ProducerDone, ProducerCrash, ProducerNap, ProducerWake, Unmade
      <4>5. QED
        BY <2>3, <4>1, <4>2, <4>3, <4>4 DEF Producer
    <3>4. QED
      BY <1>1, <1>2, <3>2, <3>3
  <2>4. QED
    BY <2>2, <2>3
<1>5. ASSUME NEW h \in Gemeente, h # g, prod'[h] \notin {"none", "spawned"},
             NEW t \in Tasks, t[1] \in Invalid(h)'
      PROVE  t \in Unmade(h)' \/ InWork(t)' \/ fate'[t] # "open"
  <2>1. t[1] \in Invalid(h) /\ prod[h] \notin {"none", "spawned"}
    BY <1>0, <1>1, <1>5, InvalidShrinks
  <2>2. QED
    BY <1>1, <1>2, <1>3, <1>5, <2>1 DEF Attempted
<1>6. QED
  BY <1>4, <1>5 DEF Attempted

LEMMA AttemptedStep == Base /\ Attempted /\ [Next]_vars => Attempted'
<1> SUFFICES ASSUME Base, Attempted, [Next]_vars PROVE Attempted'
  OBVIOUS
<1>0. TypeOK /\ InOrder /\ TaskOwnedOnce
  BY DEF Base, OwnInv
<1>1. CASE \E g \in Gemeente : Producer(g)
  BY <1>1, AttemptedProducer
<1>2. ASSUME \A g \in Gemeente : prod'[g] \notin {"none", "spawned"}
                                     => prod[g] \notin {"none", "spawned"},
             \A g \in Gemeente : Unmade(g)' = Unmade(g),
             \A t \in Tasks : InWork(t) => InWork(t)' \/ fate'[t] # "open",
             \A t \in Tasks : fate[t] # "open" => fate'[t] # "open"
      PROVE  Attempted'
  BY <1>0, <1>2, InvalidShrinks DEF Attempted
<1>3. ASSUME NEW w \in Worker, Works(w) PROVE Attempted'
  <2>1. UNCHANGED prod /\ \A g \in Gemeente : Unmade(g)' = Unmade(g)
    BY <1>0, <1>3, WorksFrame DEF Unmade
  <2>2. CASE UNCHANGED fate /\ \A t \in Tasks : InWork(t) => InWork(t)'
    BY <1>2, <2>1, <2>2
  <2>3. ASSUME NEW f \in {"saved", "notfound", "gaveup"}, hand[w] \in Tasks,
               fate' = [fate EXCEPT ![hand[w]] = f]
        PROVE  Attempted'
    <3>1. fate'[hand[w]] # "open" /\ \A t \in Tasks : t # hand[w] => fate'[t] = fate[t]
      BY <1>0, <2>3 DEF TypeOK
    <3>2. \A t \in Tasks : InWork(t) => InWork(t)' \/ t = hand[w]
      BY <1>0, <1>3, WorksFrame, Takes DEF InWork, Queued
    <3>3. QED
      BY <1>2, <2>1, <3>1, <3>2
  <2>4. QED
    BY <1>0, <1>3, <2>2, <2>3, FateStep
<1>4. CASE MainStep \/ MainTimeout
  <2>1. \A g \in Gemeente : prod'[g] = prod[g] \/ prod'[g] = "spawned"
    BY <1>0, <1>4 DEF MainStep, MainNext, MainRunWorkers, MainJoined, MainTimeout,
         CloseGemeente, MainKillStatus, MainAssertNone, MainFill, TypeOK
  <2>2. UNCHANGED fate /\ (\A t \in Tasks : InWork(t) => InWork(t)')
        /\ \A g \in Gemeente : Unmade(g)' = Unmade(g)
    BY <1>4, MainFrame
  <2>3. QED
    BY <1>2, <2>1, <2>2
<1>5. CASE UNCHANGED vars
  BY <1>2, <1>5 DEF vars, Unmade, InWork, Queued
<1>6. QED
  BY <1>1, <1>3, <1>4, <1>5 DEF Next, Ended

\* A location that is still "never attempted" in a gemeente that was joined in time, with
\* a producer that ran to its end, had all its searches broken off (532-536).
THEOREM UnattemptedGaveUp == Prompt => (Spec => []UnattemptedOnlyByGivingUp)
<1> SUFFICES ASSUME Prompt PROVE Spec => []UnattemptedOnlyByGivingUp
  OBVIOUS
<1> DEFINE Inv == JoinInv /\ Marked /\ Attempted
<1>1. Init => Inv
  <2>1. Init => Attempted
    BY DEF Init, Attempted
  <2>2. QED
    BY <2>1, JoinInit, MarkedInit
<1>2. Inv /\ [Next]_vars => Inv'
  BY JoinStep, MarkedStep, AttemptedStep DEF JoinInv, Base
<1>3. Inv => UnattemptedOnlyByGivingUp
  <2> SUFFICES ASSUME Inv, NEW g \in 1..(gem - 1), NoCut(g), prod[g] = "done",
                      NEW t \in Tasks, t[1] \in Invalid(g)
               PROVE  fate[t] = "gaveup"
    BY DEF UnattemptedOnlyByGivingUp
  <2>1. TypeOK /\ Turns /\ Quiet /\ g \in Gemeente /\ g < gem
    BY Numbers DEF JoinInv, Base, Gemeente
  <2>2. OfGem(t, g) /\ row[t[1]].corr = "null"
    BY DEF Invalid, OfGem
  <2>3. ~InWork(t)
    BY <2>1, <2>2 DEF Quiet
  <2>4. t \notin Unmade(g)
    BY <2>1 DEF Turns, Unmade
  <2>5. fate[t] # "open"
    BY <2>1, <2>3, <2>4 DEF Attempted
  <2>6. fate[t] \notin {"saved", "notfound"}
    BY <2>2 DEF Marked
  <2>7. QED
    BY <2>1, <2>5, <2>6 DEF TypeOK, Fate
<1>4. QED
  BY <1>1, <1>2, <1>3, PTL DEF Spec
-----------------------------------------------------------------------------
(* The counts of corrections and of invalid locations *)

\* As long as no joinall is cut off, the running count is that of the present gemeente.
Counted ==
    cut = {} =>
       /\ \A g \in Gemeente : g < gem => stats.per[g] = Cardinality(SavesOf(g))
       /\ main # "failed" => /\ \A g \in Gemeente : gem <= g => stats.per[g] = 0
                             /\ stats.correcties = Cardinality(SavesOf(gem))

\* Whatever is counted was saved, and a closed gemeente has few invalid locations.
CountedSaved ==
    stats.correcties > 0 \/ (\E g \in Gemeente : stats.per[g] > 0)
       => \E t \in Tasks : fate[t] = "saved"

FewInvalid ==
    /\ \A g \in Gemeente : g < gem => Cardinality(Invalid(g)) < MAXINVALID
    /\ main = "kill" => gem > NGem
    /\ main = "done" => gem > NGem /\ AnyCorrected

LEMMA TasksFinite ==
    /\ IsFiniteSet(Tasks) /\ \A g : IsFiniteSet(SavesOf(g)) /\ Cardinality(SavesOf(g)) \in Nat
    /\ \A g : IsFiniteSet(Invalid(g)) /\ Cardinality(Invalid(g)) \in Nat
<1>0. IsFiniteSet(1..5)
  <2>1. \A m, n \in Int : IsFiniteSet(m..n)
    BY FS_Interval
  <2>2. 1 \in Int /\ 5 \in Int
    OBVIOUS
  <2>3. QED
    BY <2>1, <2>2, Zenon
<1>1. IsFiniteSet(Loc \X (1..5))
  BY <1>0, RowsAssumption, FS_Product
<1>2. Tasks \subseteq Loc \X (1..5)
  BY DEF Tasks
<1>3. IsFiniteSet(Tasks)
  BY <1>1, <1>2, FS_Subset
<1>4. \A g : SavesOf(g) \subseteq Tasks /\ Invalid(g) \subseteq Loc
  BY DEF SavesOf, Invalid
<1>5. \A g : IsFiniteSet(SavesOf(g)) /\ IsFiniteSet(Invalid(g))
  BY <1>3, <1>4, RowsAssumption, FS_Subset
<1>6. QED
  BY <1>3, <1>5, FS_CardinalityType

\* Nothing was saved for a gemeente whose producer has not run.
LEMMA NoSaves ==
    ASSUME NEW g \in Gemeente, Walk(g), prod[g] = "none"
    PROVE  SavesOf(g) = {}
BY DEF Walk, SavesOf

LEMMA CountedInit == Init => Counted
<1> SUFFICES ASSUME Init PROVE Counted
  OBVIOUS
<1>1. SavesOf(gem) = {} /\ Cardinality({}) = 0
  BY FS_EmptySet DEF Init, SavesOf
<1>2. /\ gem = 1 /\ stats.correcties = 0 /\ \A g \in Gemeente : stats.per[g] = 0
      /\ \A g \in Gemeente : ~(g < gem)
  BY TypeInit, Numbers DEF Init
<1>3. QED
  BY <1>1, <1>2 DEF Counted

LEMMA CountedStep ==
    ASSUME Prompt
    PROVE  JoinInv /\ Counted /\ [Next]_vars => Counted'
<1> SUFFICES ASSUME JoinInv, Counted, [Next]_vars, cut' = {} PROVE Counted'
  BY DEF Counted
<1>0. /\ TypeOK /\ InOrder /\ Base /\ Turns /\ Quiet /\ InWorkOpen
      /\ \A g \in Gemeente : Walk(g)
  BY DEF JoinInv, Base, OwnInv, TaskOwnedOnce
<1>s. UNCHANGED fate => \A g : SavesOf(g)' = SavesOf(g)
  BY DEF SavesOf
<1>1. CASE UNCHANGED <<stats, fate, gem, main, cut>>
  BY <1>1 DEF Counted, SavesOf
<1>2. ASSUME NEW g \in Gemeente, Producer(g) PROVE Counted'
  BY <1>0, <1>1, <1>2, ProducerFrame
<1>3. ASSUME NEW w \in Worker, Works(w) PROVE Counted'
  <2>1. UNCHANGED <<gem, main, cut>> /\ cut = {} /\ main # "failed"
    BY <1>0, <1>3, WorksFrame DEF HubFree, Live
  <2>2. CASE UNCHANGED <<stats, fate>>
    BY <1>1, <2>1, <2>2
  <2>3. ASSUME NEW f \in {"saved", "notfound", "gaveup"}, hand[w] \in Tasks,
               fate' = [fate EXCEPT ![hand[w]] = f],
               f = "saved" => stats' = [stats EXCEPT !.correcties = @ + 1],
               f # "saved" => UNCHANGED stats
        PROVE  Counted'
    <3> DEFINE t == hand[w]
    <3>1. InWork(t) /\ fate[t] = "open"
      BY <1>0, <2>3 DEF InWork, InWorkOpen
    <3>2. OfGem(t, gem) /\ gem \in Gemeente
      <4>1. GemOf[t[1]] \in Gemeente
        BY <1>0, <2>3, <3>1 DEF Turns
      <4>2. ~(GemOf[t[1]] < gem)
        BY <1>0, <2>1, <2>3, <3>1, <4>1 DEF Quiet, NoCut, OfGem
      <4>3. ~(gem < GemOf[t[1]])
        BY <1>0, <2>3, <3>1, <4>1 DEF InOrder, Walk
      <4>4. QED
        BY <1>0, <4>1, <4>2, <4>3, Numbers DEF OfGem
    <3>3. CASE f = "saved"
      <4>1. fate' = [fate EXCEPT ![t] = "saved"] /\ fate \in [Tasks -> Fate]
        BY <1>0, <2>3, <3>3 DEF TypeOK
      <4>2. SavesOf(gem)' = SavesOf(gem) \cup {t}
        BY <2>1, <2>3, <3>2, <4>1 DEF SavesOf, OfGem
      <4>3. t \notin SavesOf(gem)
        BY <3>1 DEF SavesOf
      <4>4. Cardinality(SavesOf(gem)') = Cardinality(SavesOf(gem)) + 1
        BY <4>2, <4>3, TasksFinite, FS_AddElement
      <4>5. \A g \in Gemeente : g < gem => SavesOf(g)' = SavesOf(g)
        BY <1>0, <3>2, <4>1, Numbers DEF SavesOf, OfGem
      <4>6. stats'.correcties = stats.correcties + 1 /\ stats'.per = stats.per
        BY <1>0, <2>3, <3>3 DEF TypeOK
      <4>7. QED
        BY <2>1, <4>4, <4>5, <4>6 DEF Counted
    <3>4. CASE f # "saved"
      <4>1. \A g : SavesOf(g)' = SavesOf(g)
        BY <1>0, <2>3, <3>1, <3>4 DEF SavesOf, TypeOK
      <4>2. SavesOf(gem)' = SavesOf(gem)
        BY <2>1, <4>1
      <4>3. QED
        BY <2>1, <2>3, <3>4, <4>1, <4>2 DEF Counted
    <3>5. QED
      BY <3>3, <3>4
  <2>4. QED
    BY <1>0, <1>3, <2>2, <2>3, FateStep
<1>4. ASSUME gem \in Gemeente, gem' = gem + 1, UNCHANGED fate, cut = {}, main # "failed",
             stats'.per[gem] = Cardinality(SavesOf(gem)), stats'.correcties = 0,
             \A g \in Gemeente : g # gem => stats'.per[g] = stats.per[g]
      PROVE  Counted'
  <2>1. \A g \in Gemeente : g < gem + 1 => stats'.per[g] = Cardinality(SavesOf(g))
    <3>1. \A g \in Gemeente : g < gem + 1 => g < gem \/ g = gem
      BY <1>0, Numbers
    <3>2. QED
      BY <1>0, <1>4, <3>1, Numbers DEF Counted
  <2>2. \A g \in Gemeente : gem + 1 <= g => stats'.per[g] = 0
    <3>1. \A g \in Gemeente : gem + 1 <= g => gem <= g /\ g # gem
      BY <1>0, Numbers
    <3>2. QED
      BY <1>4, <3>1 DEF Counted
  <2>3. SavesOf(gem + 1) = {}
    <3>1. CASE gem + 1 \in Gemeente
      BY <1>0, <3>1, NoSaves, Numbers DEF InOrder
    <3>2. CASE gem + 1 \notin Gemeente
      <4>1. \A t \in Tasks : GemOf[t[1]] <= NGem /\ GemOf[t[1]] \in Nat
        BY ConstAssumption DEF Tasks
      <4>2. gem + 1 > NGem
        BY <1>0, <3>2, Numbers DEF Gemeente
      <4>3. QED
        BY <1>0, <4>1, <4>2, Numbers DEF SavesOf
    <3>3. QED
      BY <3>1, <3>2
  <2>4. \A g : SavesOf(g)' = SavesOf(g)
    BY <1>4, <1>s
  <2>5. SavesOf(gem)' = SavesOf(gem + 1)
    BY <1>4 DEF SavesOf
  <2>6. stats'.correcties = Cardinality(SavesOf(gem)')
    BY <1>4, <2>3, <2>5, FS_EmptySet
  <2>7. QED
    BY <1>4, <2>1, <2>2, <2>4, <2>6 DEF Counted
<1>5. CASE MainNext
  <2>1. UNCHANGED <<stats, fate, cut>> /\ main = "next" /\ cut = {} /\ main' # "failed"
    BY <1>5 DEF MainNext, restOfMain
  <2>2. CASE gem' = gem
    <3>1. SavesOf(gem)' = SavesOf(gem) /\ \A g : SavesOf(g)' = SavesOf(g)
      BY <2>1, <2>2 DEF SavesOf
    <3>2. QED
      BY <2>1, <2>2, <3>1 DEF Counted
  <2>3. CASE gem' # gem
    <3>1. gem \in Gemeente /\ gem' = gem + 1 /\ SavesOf(gem) = {}
      BY <1>0, <1>5, <2>1, <2>3, NoSaves, Numbers DEF MainNext, InOrder, Gemeente
    <3>2. gem <= gem
      BY <1>0, Numbers
    <3>3. Cardinality(SavesOf(gem)) = 0 /\ stats.correcties = 0 /\ stats.per[gem] = 0
      BY <2>1, <3>1, <3>2, FS_EmptySet DEF Counted
    <3>4. QED
      BY <1>4, <2>1, <3>1, <3>3
  <2>4. QED
    BY <2>2, <2>3
<1>6. CASE MainJoined
  <2>1. /\ gem \in Gemeente /\ cut = {} /\ main = "join" /\ UNCHANGED fate /\ CloseGemeente
    BY <1>0, <1>6, Numbers DEF MainJoined, CloseGemeente, restOfMain, TypeOK, Gemeente
  <2>2. /\ stats'.per[gem] = stats.correcties /\ stats'.correcties = 0
        /\ \A g \in Gemeente : g # gem => stats'.per[g] = stats.per[g]
    BY <1>0, <2>1 DEF CloseGemeente, TypeOK
  <2>3. stats.correcties = Cardinality(SavesOf(gem))
    BY <2>1 DEF Counted
  <2>4. CASE gem' = gem + 1
    BY <1>4, <2>1, <2>2, <2>3, <2>4
  <2>5. CASE gem' # gem + 1
    <3>1. main' = "failed" /\ gem' = gem
      BY <2>1, <2>5 DEF CloseGemeente
    <3>2. \A g \in Gemeente : g < gem => g # gem
      BY <1>0, Numbers
    <3>3. \A g : SavesOf(g)' = SavesOf(g)
      BY <1>s, <2>1
    <3>4. QED
      BY <2>1, <2>2, <3>1, <3>2, <3>3 DEF Counted
  <2>6. QED
    BY <2>4, <2>5
<1>7. CASE MainTimeout
  BY <1>7 DEF MainTimeout
<1>8. CASE MainRunWorkers \/ MainKillStatus \/ MainAssertNone \/ MainFill
  <2>1. UNCHANGED <<stats, fate, gem, cut>> /\ main # "failed"
    BY <1>8 DEF MainRunWorkers, MainKillStatus, MainAssertNone, MainFill, restOfMain
  <2>2. SavesOf(gem)' = SavesOf(gem) /\ \A g : SavesOf(g)' = SavesOf(g)
    BY <2>1 DEF SavesOf
  <2>3. QED
    BY <2>1, <2>2 DEF Counted
<1>9. CASE UNCHANGED vars
  BY <1>1, <1>9 DEF vars
<1>10. QED
  BY <1>2, <1>3, <1>5, <1>6, <1>7, <1>8, <1>9 DEF Next, MainStep, Ended

\* The counts that are stored per gemeente are those of its own corrections, as long as no
\* joinall is cut off (1017).
THEOREM StatsAreRight == Prompt => (Spec => []StatsPerGemeente)
<1> SUFFICES ASSUME Prompt PROVE Spec => []StatsPerGemeente
  OBVIOUS
<1>1. Init => JoinInv /\ Counted
  BY JoinInit, CountedInit
<1>2. JoinInv /\ Counted /\ [Next]_vars => (JoinInv /\ Counted)'
  BY JoinStep, CountedStep
<1>3. JoinInv /\ Counted => StatsPerGemeente
  BY Numbers DEF JoinInv, Base, Counted, StatsPerGemeente, Gemeente
<1>4. QED
  BY <1>1, <1>2, <1>3, PTL DEF Spec

LEMMA CountedSavedStep == Base /\ CountedSaved /\ [Next]_vars => CountedSaved'
<1> SUFFICES ASSUME Base, CountedSaved, [Next]_vars PROVE CountedSaved'
  OBVIOUS
<1>0. TypeOK /\ InWorkOpen
  BY DEF Base, OwnInv, TaskOwnedOnce
<1>1. CASE UNCHANGED <<stats, fate>>
  BY <1>1 DEF CountedSaved
<1>2. ASSUME NEW g \in Gemeente, Producer(g) PROVE CountedSaved'
  BY <1>1, <1>2, ProducerFrame
<1>3. ASSUME NEW w \in Worker, Works(w) PROVE CountedSaved'
  <2>1. ASSUME NEW f \in {"saved", "notfound", "gaveup"}, hand[w] \in Tasks,
               fate' = [fate EXCEPT ![hand[w]] = f], f # "saved" => UNCHANGED stats
        PROVE  CountedSaved'
    <3>1. fate'[hand[w]] = f /\ \A t \in Tasks : t # hand[w] => fate'[t] = fate[t]
      BY <1>0, <2>1 DEF TypeOK
    <3>2. fate[hand[w]] = "open"
      BY <1>0, <2>1 DEF InWorkOpen, InWork
    <3>3. CASE f = "saved"
      BY <2>1, <3>1, <3>3 DEF CountedSaved
    <3>4. CASE f # "saved"
      BY <2>1, <3>1, <3>2, <3>4 DEF CountedSaved
    <3>5. QED
      BY <3>3, <3>4
  <2>2. QED
    BY <1>0, <1>1, <1>3, <2>1, FateStep
<1>4. ASSUME CloseGemeente, main = "join" PROVE CountedSaved'
  <2>1. /\ gem \in Gemeente /\ UNCHANGED fate /\ stats'.correcties = 0
        /\ stats'.per[gem] = stats.correcties
        /\ \A g \in Gemeente : g # gem => stats'.per[g] = stats.per[g]
    BY <1>0, <1>4, Numbers DEF CloseGemeente, restOfMain, TypeOK, Gemeente
  <2>2. QED
    BY <2>1 DEF CountedSaved
<1>5. CASE MainJoined \/ MainTimeout
  BY <1>4, <1>5 DEF MainJoined, MainTimeout
<1>6. CASE MainNext \/ MainRunWorkers \/ MainKillStatus \/ MainAssertNone \/ MainFill
  BY <1>1, <1>6 DEF MainNext, MainRunWorkers, MainKillStatus, MainAssertNone, MainFill, restOfMain
<1>7. CASE UNCHANGED vars
  BY <1>1, <1>7 DEF vars
<1>8. QED
  BY <1>2, <1>3, <1>5, <1>6, <1>7 DEF Next, MainStep, Ended

LEMMA FewInvalidStep == TypeOK /\ FewInvalid /\ [Next]_vars => FewInvalid'
<1> SUFFICES ASSUME TypeOK, FewInvalid, [Next]_vars PROVE FewInvalid'
  OBVIOUS
<1>1. \A g \in Gemeente : g < gem => Cardinality(Invalid(g)') < MAXINVALID
  <2> SUFFICES ASSUME NEW g \in Gemeente, g < gem PROVE Cardinality(Invalid(g)') < MAXINVALID
    OBVIOUS
  <2>1. Invalid(g)' \subseteq Invalid(g) /\ IsFiniteSet(Invalid(g)) /\ Cardinality(Invalid(g)) \in Nat
    BY InvalidShrinks, TasksFinite
  <2>2. Cardinality(Invalid(g)') <= Cardinality(Invalid(g)) /\ IsFiniteSet(Invalid(g)')
    BY <2>1, FS_Subset
  <2>3. Cardinality(Invalid(g)') \in Nat
    BY <2>2, FS_CardinalityType
  <2>4. Cardinality(Invalid(g)) < MAXINVALID /\ MAXINVALID \in Nat
    BY ConstAssumption DEF FewInvalid
  <2>5. QED
    BY <2>1, <2>2, <2>3, <2>4
<1>2. ASSUME gem \in Gemeente, gem' = gem + 1, UNCHANGED row,
             Cardinality(Invalid(gem)) < MAXINVALID
      PROVE  \A g \in Gemeente : g < gem' => Cardinality(Invalid(g)') < MAXINVALID
  <2>1. \A g \in Gemeente : g < gem' => g < gem \/ g = gem
    BY <1>2, Numbers
  <2>2. \A g : Invalid(g)' = Invalid(g)
    BY <1>2 DEF Invalid
  <2>3. QED
    BY <1>1, <1>2, <2>1, <2>2
<1>3. CASE UNCHANGED <<gem, main, stats>>
  BY <1>1, <1>3 DEF FewInvalid, AnyCorrected
<1>4. ASSUME NEW g \in Gemeente, Producer(g) PROVE UNCHANGED <<gem, main, stats>>
  BY <1>4 DEF Producer, ProducerStart, ProducerFetch, ProducerDone, ProducerCrash,
              ProducerSkip, ProducerPut, ProducerNap, ProducerWake, restOfProducer
<1>5. ASSUME NEW w \in Worker, Works(w) PROVE FewInvalid'
  BY <1>1, <1>5, WorksFrame DEF FewInvalid, HubFree, Live
<1>6. CASE MainNext
  <2>1. CASE gem' = gem
    BY <1>1, <1>6, <2>1 DEF MainNext, FewInvalid
  <2>2. CASE gem' # gem
    <3>1. /\ gem \in Gemeente /\ gem' = gem + 1 /\ UNCHANGED row /\ main' = "next"
          /\ Invalid(gem) = {}
      BY <1>6, <2>2, Numbers DEF MainNext, restOfMain, Gemeente
    <3>2. Cardinality(Invalid(gem)) < MAXINVALID
      BY <3>1, RowsAssumption, FS_EmptySet
    <3>3. QED
      BY <1>2, <3>1, <3>2 DEF FewInvalid
  <2>3. QED
    BY <2>1, <2>2
<1>7. CASE MainJoined \/ MainTimeout
  <2>1. gem \in Gemeente /\ UNCHANGED row /\ CloseGemeente
    BY <1>7, Numbers DEF MainJoined, MainTimeout, CloseGemeente, restOfMain, TypeOK, Gemeente
  <2>2. CASE gem' = gem
    BY <1>1, <2>1, <2>2, Numbers DEF CloseGemeente, FewInvalid
  <2>3. CASE gem' # gem
    <3>1. gem' = gem + 1 /\ main' = "next" /\ Cardinality(Invalid(gem)) < MAXINVALID
      BY <2>1, <2>3 DEF CloseGemeente
    <3>2. QED
      BY <1>2, <2>1, <3>1 DEF FewInvalid
  <2>4. QED
    BY <2>2, <2>3
<1>8. CASE MainRunWorkers \/ MainKillStatus \/ MainAssertNone \/ MainFill
  BY <1>1, <1>8 DEF MainRunWorkers, MainKillStatus, MainAssertNone, MainFill, restOfMain,
                    FewInvalid, AnyCorrected
<1>9. CASE UNCHANGED vars
  BY <1>3, <1>9 DEF vars
<1>10. QED
  BY <1>3, <1>4, <1>5, <1>6, <1>7, <1>8, <1>9 DEF Next, MainStep, Ended

\* A run that ends well has corrected something, and left few locations unattempted in
\* every gemeente, also when what was left running went on after it was closed (1025, 1037).
THEOREM DoneIsCorrected == Spec => []DoneMeansCorrected
<1> DEFINE Inv == Base /\ CountedSaved /\ FewInvalid
<1>1. Init => Inv
  <2> SUFFICES ASSUME Init PROVE CountedSaved /\ FewInvalid
    BY BaseInit
  <2>1. \A g \in Gemeente : stats.per[g] = 0 /\ ~(g < gem)
    BY TypeInit, Numbers DEF Init
  <2>2. QED
    BY <2>1 DEF Init, CountedSaved, FewInvalid
<1>2. Inv /\ [Next]_vars => Inv'
  BY BaseStep, CountedSavedStep, FewInvalidStep DEF Base
<1>3. Inv => DoneMeansCorrected
  <2> SUFFICES ASSUME Inv, main = "done" PROVE DoneMeansCorrected
    BY DEF DoneMeansCorrected
  <2>1. TypeOK /\ gem > NGem /\ AnyCorrected
    BY DEF Base, FewInvalid
  <2>2. \A g \in Gemeente : g < gem
    BY <2>1, Numbers
  <2>3. QED
    BY <2>1, <2>2 DEF CountedSaved, FewInvalid, AnyCorrected, DoneMeansCorrected
<1>4. QED
  BY <1>1, <1>2, <1>3, PTL DEF Spec
=============================================================================
