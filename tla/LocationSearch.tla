---------------------------- MODULE LocationSearch ----------------------------
(***************************************************************************)
(* `run_import --search`: guess() of improve_location_with_search.py,      *)
(* followed by fill_location_with_bag().                                   *)
(*                                                                         *)
(* For every gemeente the main greenlet spawns one producer, which turns   *)
(* the invalid locations into search tasks on a bounded queue, and WORKERS *)
(* workers, which take tasks, ask the search api and write the answer into *)
(* the hr_locatie row.  The main greenlet joins them for at most an hour.  *)
(*                                                                         *)
(* gevent is cooperative and psycopg2 is not patched, so greenlets switch  *)
(* only where the code waits: on an http answer, in gevent.sleep and in    *)
(* joinall.  An action is what one greenlet does between two such points.  *)
(* HubFree says that no greenlet is in the middle of such a stretch; it    *)
(* lets the producer and main be written as several short actions.         *)
(***************************************************************************)
EXTENDS Integers, Sequences, FiniteSets

CONSTANTS
    Loc,        \* rows of hr_locatie
    NGem,       \* Len(GEMEENTEN): gemeenten are handled in the order 1..NGem
    GemOf,      \* Loc -> 0..NGem, what volledig_adres ends with; 0: no
                \* gemeente of the list, or an adres starting with "Postbus"
    Alts,       \* Loc -> what create_search_for_addr makes of every alternative
                \* of the adres: "task", "skip" (no street) or "crash" (no number),
                \* see Kinds of AddressParsing
    WORKERS,    \* workers spawned for every gemeente
    MAXSIZE,    \* SEARCHES_QUEUE.maxsize
    MAXINVALID, \* 1000, bound of the assert that closes a gemeente
    Vbo,        \* BAG objects the search api may answer with; a number of an
                \* object is named after the object it belongs to
    OldId,      \* identifications in the dump that the BAG does not know
    DumpRows,   \* rows the conversion, or an earlier search, can have left
    Prompt,     \* TRUE: the workers never empty a full queue within the one nap
                \* (2.3 s) the producer takes when it finds the queue full
    NULL, NOID, NOTASK

VARIABLES
    row,    \* Loc -> the stored row of hr_locatie
    obj,    \* Loc -> correctie of the object all tasks of the location share
    todo,   \* gemeente -> locations its producer has yet to fetch
    cur,    \* gemeente -> <<location, alternative>> its producer is at, or NOTASK
    prod,   \* gemeente -> state of its producer
    queue,  \* SEARCHES_QUEUE
    work,   \* worker -> state
    hand,   \* worker -> task it works on, or NOTASK
    main,   \* where guess() is
    gem,    \* gemeente guess() is at
    stats,  \* STATS: the running count of corrections, and one per gemeente
    fate,   \* history: task -> how its search ended
    cut     \* history: gemeenten whose joinall timed out

vars == <<row, obj, todo, cur, prod, queue, work, hand, main, gem, stats, fate, cut>>

Gemeente == 1..NGem
Worker   == Gemeente \X (1..WORKERS)
Corr     == {"null", "true", "false"}
Id       == Vbo \cup OldId
Row      == [corr : Corr, vbid : Id \cup {NULL}, numid : Id \cup {NULL},
             link : Id \cup {NULL, NOID}, geo : Id \cup {NULL}]

\* alternative_qs makes at most five alternatives: two "remove" variants, the
\* woonboot variant, the adres itself and one spelled-out ordinal
Tasks == {t \in Loc \X (1..5) : t[2] <= Len(Alts[t[1]]) /\ Alts[t[1]][t[2]] = "task"}

ASSUME ConstAssumption ==
    /\ NGem \in Nat \ {0} /\ WORKERS \in Nat \ {0} /\ MAXINVALID \in Nat
    /\ MAXSIZE \in Nat \ {0, 1} /\ Prompt \in BOOLEAN
    /\ GemOf \in [Loc -> 0..NGem]
    /\ \A l \in Loc : /\ Alts[l] \in Seq({"task", "skip", "crash"})
                      /\ Len(Alts[l]) \in 1..5
    /\ DumpRows \subseteq Row
    /\ Vbo \cap OldId = {} /\ NULL \notin Id /\ NOID \notin Id /\ NULL # NOID
    /\ NOTASK \notin Loc \X (1..5)

\* The table is finite, 1000 is a positive bound, and a link that an earlier search
\* left agrees with what that search stored, see LinkAgrees
ASSUME RowsAssumption ==
    /\ IsFiniteSet(Loc) /\ MAXINVALID > 0
    /\ \A r \in DumpRows : r.corr = "true" /\ r.link \in Vbo =>
                               r.numid = r.link /\ r.vbid = r.link
-----------------------------------------------------------------------------
\* create_qs_of_invalid_locations, a query run anew at each use
Invalid(g) == {l \in Loc : /\ GemOf[l] = g
                           /\ row[l].geo = NULL \/ row[l].vbid = NULL
                           /\ row[l].corr = "null"}

Live == main \notin {"done", "failed"}

HubFree == Live /\ main # "next" /\ \A g \in Gemeente : prod[g] # "run"

Init == /\ row \in [Loc -> DumpRows]
        /\ obj  = [l \in Loc |-> row[l].corr]
        /\ todo = [g \in Gemeente |-> {}]
        /\ cur  = [g \in Gemeente |-> NOTASK]
        /\ prod = [g \in Gemeente |-> "none"]
        /\ queue = << >>
        /\ work = [w \in Worker |-> "none"]
        /\ hand = [w \in Worker |-> NOTASK]
        /\ main = "next" /\ gem = 1
        /\ stats = [correcties |-> 0, per |-> [g \in Gemeente |-> 0]]
        /\ fate = [t \in Tasks |-> "open"]
        /\ cut = {}
-----------------------------------------------------------------------------
(* The producer: create_improve_locations_tasks and create_search_for_addr *)

restOfProducer == <<row, work, hand, main, gem, stats, fate, cut>>

\* the greenlet gets the hub for the first time and runs the query
ProducerStart(g) ==
    /\ prod[g] = "spawned" /\ HubFree
    /\ prod' = [prod EXCEPT ![g] = "run"]
    /\ todo' = [todo EXCEPT ![g] = Invalid(g)]
    /\ UNCHANGED <<cur, obj, queue>> /\ UNCHANGED restOfProducer

\* the next location of the iterator, in whatever order the database gives
ProducerFetch(g) ==
    /\ prod[g] = "run" /\ cur[g] = NOTASK
    /\ \E l \in todo[g] :
          /\ todo' = [todo EXCEPT ![g] = @ \ {l}]
          /\ cur' = [cur EXCEPT ![g] = <<l, 1>>]
    /\ UNCHANGED <<prod, obj, queue>> /\ UNCHANGED restOfProducer

ProducerDone(g) ==
    /\ prod[g] = "run" /\ cur[g] = NOTASK /\ todo[g] = {}
    /\ prod' = [prod EXCEPT ![g] = "done"]
    /\ UNCHANGED <<todo, cur, obj, queue>> /\ UNCHANGED restOfProducer

\* mutant: one past the last alternative
AltAfterOffByOne(c) == IF c[2] <= Len(Alts[c[1]]) THEN <<c[1], c[2] + 1>> ELSE NOTASK

\* the alternative after c of the same location, if there is one
AltAfter(c) == IF c[2] < Len(Alts[c[1]]) THEN <<c[1], c[2] + 1>> ELSE NOTASK

AtAlternative(g, kind) == /\ prod[g] = "run" /\ cur[g] # NOTASK
                          /\ Alts[cur[g][1]][cur[g][2]] = kind

\* int(tokens[huisnummer_i]) raises: the greenlet dies, and with it the iterator
ProducerCrash(g) ==
    /\ AtAlternative(g, "crash")
    /\ prod' = [prod EXCEPT ![g] = "dead"]
    /\ UNCHANGED <<todo, cur, obj, queue>> /\ UNCHANGED restOfProducer

\* no street: correctie is set on the object, which is not saved
ProducerSkip(g) ==
    /\ AtAlternative(g, "skip")
    /\ obj' = [obj EXCEPT ![cur[g][1]] = "false"]
    /\ cur' = [cur EXCEPT ![g] = AltAfter(@)]
    /\ UNCHANGED <<todo, prod, queue>> /\ UNCHANGED restOfProducer

ProducerPut(g) ==
    /\ AtAlternative(g, "task") /\ Len(queue) < MAXSIZE
    /\ queue' = Append(queue, cur[g])
    /\ cur' = [cur EXCEPT ![g] = AltAfter(@)]
    /\ UNCHANGED <<todo, prod, obj>> /\ UNCHANGED restOfProducer

\* while SEARCHES_QUEUE.full(): gevent.sleep(2.3)
ProducerNap(g) ==
    /\ AtAlternative(g, "task") /\ Len(queue) >= MAXSIZE
    /\ prod' = [prod EXCEPT ![g] = "nap"]
    /\ UNCHANGED <<todo, cur, obj, queue>> /\ UNCHANGED restOfProducer

ProducerWake(g) ==
    /\ prod[g] = "nap" /\ HubFree /\ Len(queue) < MAXSIZE
    /\ prod' = [prod EXCEPT ![g] = "run"]
    /\ UNCHANGED <<todo, cur, obj, queue>> /\ UNCHANGED restOfProducer

Producer(g) == \/ ProducerStart(g) \/ ProducerFetch(g) \/ ProducerDone(g)
               \/ ProducerCrash(g) \/ ProducerSkip(g) \/ ProducerPut(g)
               \/ ProducerNap(g) \/ ProducerWake(g)
-----------------------------------------------------------------------------
(* The workers: async_determine_rd_coordinates around a SearchTask *)

\* mutant: look at the head without removing it
TakeNextPeek(w) ==
    /\ queue # << >>
    /\ work' = [work EXCEPT ![w] = "search"]
    /\ hand' = [hand EXCEPT ![w] = Head(queue)]
    /\ UNCHANGED queue

\* `while not SEARCHES_QUEUE.empty(): get()`; the search starts with a request
TakeNext(w) ==
    IF queue = << >>
    THEN /\ work' = [work EXCEPT ![w] = "exited"]
         /\ hand' = [hand EXCEPT ![w] = NOTASK]
         /\ UNCHANGED queue
    ELSE /\ ~(Prompt /\ Len(queue) = 1 /\ \E g \in Gemeente : prod[g] = "nap")
         /\ work' = [work EXCEPT ![w] = "search"]
         /\ hand' = [hand EXCEPT ![w] = Head(queue)]
         /\ queue' = Tail(queue)

restOfWorker == <<todo, cur, prod, main, gem, cut>>

\* greenlets start in the order in which they were spawned
HadTurn(g) == prod[g] # "spawned"

\* the producer of the gemeente was spawned before it and runs first
WorkerStart(w) ==
    /\ HubFree /\ work[w] = "ready" /\ HadTurn(w[1])
    /\ TakeNext(w)
    /\ UNCHANGED <<row, obj, stats, fate>> /\ UNCHANGED restOfWorker

\* get_search_response has a hit; the worker goes on to ask for its details
WorkerHit(w) ==
    /\ HubFree /\ work[w] = "search"
    /\ work' = [work EXCEPT ![w] = "details"]
    /\ UNCHANGED <<row, obj, queue, hand, stats, fate>> /\ UNCHANGED restOfWorker

\* the task is over, with result f, and the worker looks for the next one
Finish(w, f) ==
    /\ fate' = [fate EXCEPT ![hand[w]] = f]
    /\ TakeNext(w)
    /\ UNCHANGED restOfWorker

\* no hit at all, or no answer after RETRIES requests, which looks the same:
\* refresh_from_db, and save "not corrected" unless something was stored
\* (mutants: no guard at all; and the guard inverted)
GuardDropped(l) == "null"
GuardInverted(l) == IF row[l].corr = "null" THEN "false" ELSE "null"
Refresh(l) == row[l].corr

WorkerNoHit(w) ==
    /\ HubFree /\ work[w] = "search"
    /\ LET l == hand[w][1] IN
          IF Refresh(l) = "null"
          THEN /\ obj' = [obj EXCEPT ![l] = "false"]
               /\ row' = [row EXCEPT ![l].corr = "false"]
          ELSE /\ obj' = [obj EXCEPT ![l] = Refresh(l)]
               /\ UNCHANGED row
    /\ UNCHANGED stats
    /\ Finish(w, "notfound")

\* mutant: an identification that is there is left alone
SavedKeepsNumber(r, v, n) ==
    [r EXCEPT !.corr = "true", !.vbid = v, !.geo = v, !.link = n,
              !.numid = IF n = NOID \/ @ # NULL THEN @ ELSE n]

\* save_corrected_geo_infomation of object v with number n, NOID if none is found
Saved(r, v, n) == [r EXCEPT !.corr = "true", !.vbid = v, !.geo = v, !.link = n,
                            !.numid = IF n = NOID THEN @ ELSE n]

WorkerSave(w) ==
    /\ HubFree /\ work[w] = "details"
    /\ \E v \in Vbo : \E n \in {v, NOID} :
          row' = [row EXCEPT ![hand[w][1]] = Saved(@, v, n)]
    /\ obj' = [obj EXCEPT ![hand[w][1]] = "true"]
    /\ stats' = [stats EXCEPT !.correcties = @ + 1]
    /\ Finish(w, "saved")

\* details without a usable point: logged only.  Or an exception in the search
\* or in get_details_for_vbo, bag_id missing for one: logged by the worker
WorkerGiveUp(w) ==
    /\ HubFree /\ work[w] \in {"search", "details"}
    /\ UNCHANGED <<row, obj, stats>>
    /\ Finish(w, "gaveup")

Works(w) == \/ WorkerStart(w) \/ WorkerHit(w) \/ WorkerNoHit(w)
            \/ WorkerSave(w) \/ WorkerGiveUp(w)
-----------------------------------------------------------------------------
(* The main greenlet: guess, wait_for_filled_queue and run_workers *)

restOfMain == <<row, obj, todo, cur, queue, hand, fate>>

\* the head of the loop over GEMEENTEN
MainNext ==
    /\ main = "next" /\ gem <= NGem
    /\ IF Invalid(gem) = {}
       THEN /\ gem' = gem + 1
            /\ UNCHANGED <<main, prod>>
       ELSE /\ prod' = [prod EXCEPT ![gem] = "spawned"]
            /\ main' = "wait"
            /\ UNCHANGED gem
    /\ UNCHANGED <<work, stats, cut>> /\ UNCHANGED restOfMain

\* the queue is filled, or main has slept, and the producer has had its turn
MainRunWorkers ==
    /\ main = "wait" /\ HubFree
    /\ queue # << >> \/ HadTurn(gem)
    /\ work' = [w \in Worker |-> IF w[1] = gem THEN "ready" ELSE work[w]]
    /\ main' = "join"
    /\ UNCHANGED <<prod, gem, stats, cut>> /\ UNCHANGED restOfMain

\* mutant: only the producer is joined
JobsReadyProducer(g) == prod[g] \in {"done", "dead"}

JobsReady(g) == /\ prod[g] \in {"done", "dead"}
                /\ \A w \in Worker : w[1] = g => work[w] = "exited"

\* mutant: the running count is not reset
CloseNoReset ==
    /\ stats' = [stats EXCEPT !.per[gem] = stats.correcties]
    /\ IF Cardinality(Invalid(gem)) < MAXINVALID
       THEN main' = "next" /\ gem' = gem + 1
       ELSE main' = "failed" /\ UNCHANGED gem
    /\ UNCHANGED <<prod, work>> /\ UNCHANGED restOfMain

\* after joinall: store and reset the count, assert, go on with the next gemeente
CloseGemeente ==
    /\ stats' = [stats EXCEPT !.per[gem] = stats.correcties, !.correcties = 0]
    /\ IF Cardinality(Invalid(gem)) < MAXINVALID
       THEN main' = "next" /\ gem' = gem + 1
       ELSE main' = "failed" /\ UNCHANGED gem
    /\ UNCHANGED <<prod, work>> /\ UNCHANGED restOfMain

MainJoined ==
    /\ main = "join" /\ HubFree /\ JobsReady(gem)
    /\ CloseGemeente /\ UNCHANGED cut

\* mutant: joinall without a timeout
NoTimeout == main = "join" /\ HubFree /\ ~JobsReady(gem) /\ UNCHANGED vars

\* gevent.Timeout(3600, exception=False): the jobs are left running
MainTimeout ==
    /\ main = "join" /\ HubFree /\ ~JobsReady(gem)
    /\ CloseGemeente /\ cut' = cut \cup {gem}

\* killing status_job lets the other greenlets run once more
MainKillStatus ==
    /\ main = "next" /\ gem > NGem
    /\ main' = "kill"
    /\ UNCHANGED <<prod, work, gem, stats, cut>> /\ UNCHANGED restOfMain

\* mutant: the assert is gone
AnyCorrectedDropped == TRUE

AnyCorrected == \E g \in Gemeente : stats.per[g] > 0

MainAssertNone ==
    /\ main = "kill" /\ HubFree /\ ~AnyCorrected
    /\ main' = "failed"
    /\ UNCHANGED <<prod, work, gem, stats, cut>> /\ UNCHANGED restOfMain

\* fill_location_with_bag: the number, if any, decides which BAG object is used
BagGeo(r) == CASE r.numid \in Vbo -> r.numid
               [] r.numid = NULL /\ r.vbid \in Vbo -> r.vbid
               [] OTHER -> r.geo

MainFill ==
    /\ main = "kill" /\ HubFree /\ AnyCorrected
    /\ row' = [l \in Loc |-> [row[l] EXCEPT !.geo = BagGeo(row[l])]]
    /\ main' = "done"
    /\ UNCHANGED <<obj, todo, cur, queue, hand, fate>>
    /\ UNCHANGED <<prod, work, gem, stats, cut>>

MainStep == \/ MainNext \/ MainRunWorkers \/ MainJoined
            \/ MainKillStatus \/ MainAssertNone \/ MainFill

\* the process has ended, and every greenlet with it
Ended == ~Live /\ UNCHANGED vars

Next == \/ MainStep \/ MainTimeout
        \/ \E g \in Gemeente : Producer(g)
        \/ \E w \in Worker : Works(w)
        \/ Ended

Spec == Init /\ [][Next]_vars

(***************************************************************************)
(* Fairness.  gevent resumes every greenlet whose answer or timer is there.*)
(* A request ends: it has a timeout of 27 s and at most RETRIES attempts.  *)
(***************************************************************************)
GreenletFairness ==
    /\ WF_vars(MainStep)
    /\ \A g \in Gemeente : WF_vars(Producer(g))
    /\ \A w \in Worker : WF_vars(Works(w))

\* and the timer of joinall fires
FairSpec == Spec /\ GreenletFairness /\ WF_vars(MainTimeout)
-----------------------------------------------------------------------------
(* Properties *)

Prod  == {"none", "spawned", "run", "nap", "done", "dead"}
Work  == {"none", "ready", "search", "details", "exited"}
Fate  == {"open", "notfound", "saved", "gaveup"}
Place == Loc \X (1..5)

\* Every variable stays in its range.
TypeOK ==
    /\ row \in [Loc -> Row] /\ obj \in [Loc -> Corr]
    /\ todo \in [Gemeente -> SUBSET Loc]
    /\ cur \in [Gemeente -> Place \cup {NOTASK}]
    /\ \A g \in Gemeente : cur[g] # NOTASK => cur[g][2] <= Len(Alts[cur[g][1]])
    /\ prod \in [Gemeente -> Prod]
    /\ queue \in Seq(Tasks)
    /\ work \in [Worker -> Work] /\ hand \in [Worker -> Tasks \cup {NOTASK}]
    /\ \A w \in Worker : hand[w] # NOTASK <=> work[w] \in {"search", "details"}
    /\ main \in {"next", "wait", "join", "kill", "done", "failed"}
    /\ gem \in 1..(NGem + 1) /\ (main \in {"wait", "join"} => gem <= NGem)
    /\ stats \in [correcties : Nat, per : [Gemeente -> Nat]]
    /\ fate \in [Tasks -> Fate] /\ cut \in SUBSET Gemeente

Queued == {queue[k] : k \in DOMAIN queue}

\* Tasks the producer of g has yet to put on the queue.
Unmade(g) == {t \in Tasks : \/ t[1] \in todo[g]
                            \/ /\ cur[g] # NOTASK
                               /\ cur[g][1] = t[1] /\ cur[g][2] <= t[2]}

InWork(t) == t \in Queued \/ \E w \in Worker : hand[w] = t

QueueOnce     == \A j, k \in DOMAIN queue : queue[j] = queue[k] => j = k
HandOnce      == \A w, v \in Worker : hand[w] # NOTASK /\ hand[w] = hand[v] => w = v
HandNotQueued == \A w \in Worker : hand[w] \notin Queued
InWorkOpen    == \A t \in Tasks : InWork(t) => fate[t] = "open"
UnmadeOpen    == \A g \in Gemeente : \A t \in Unmade(g) : ~InWork(t) /\ fate[t] = "open"

\* A search task is at one place at a time: still with the producer, once in the
\* queue, or with one worker, and never again after it has ended.  What joinall leaves
\* behind of one gemeente, an hour later, shares the queue with the next (1014): its
\* producer still puts, and workers take tasks of both, but no location is searched
\* twice for one adres.
TaskOwnedOnce == QueueOnce /\ HandOnce /\ HandNotQueued /\ InWorkOpen /\ UnmadeOpen

NoCut(g) == \A h \in 1..g : h \notin cut

\* When joinall came back in time for every gemeente so far, it has waited until
\* all search tasks were done (978): no search of a closed gemeente is queued or
\* under way and its producer is not asleep on a full queue.
DrainedWhenJoined ==
    \A g \in 1..(gem - 1) : NoCut(g) =>
       /\ prod[g] # "nap"
       /\ \A t \in Queued \cup {hand[w] : w \in Worker} : t # NOTASK => GemOf[t[1]] # g

\* A location that is still "never attempted" after its gemeente was closed in
\* time, with a producer that ran to its end, had all its searches broken off by
\* an exception or a missing point: a search without a hit leaves its mark in the
\* row, however many siblings with the same object ended before it (532-536).
UnattemptedOnlyByGivingUp ==
    \A g \in 1..(gem - 1) : NoCut(g) /\ prod[g] = "done" =>
       \A t \in Tasks : t[1] \in Invalid(g) => fate[t] = "gaveup"

SavesOf(g) == {t \in Tasks : GemOf[t[1]] = g /\ fate[t] = "saved"}

\* STATS[gemeente] holds the corrections of that gemeente, as the comment of 1017
\* says, as long as no joinall was cut off.
StatsPerGemeente ==
    cut = {} => \A g \in 1..(gem - 1) : stats.per[g] = Cardinality(SavesOf(g))

\* A search run that ends well has corrected something (the assert of 1037), and
\* left fewer than MAXINVALID never-attempted locations in every gemeente (1025):
\* what still runs after a gemeente is closed never undoes that.
DoneMeansCorrected ==
    main = "done" => /\ \E t \in Tasks : fate[t] = "saved"
                     /\ \A g \in Gemeente : Cardinality(Invalid(g)) < MAXINVALID

Rank(c) == CASE c = "null" -> 0 [] c = "false" -> 1 [] c = "true" -> 2

\* Whatever the order in which the searches of one location end, the stored
\* correctie only goes from unknown to not found to corrected: a sibling search
\* without a hit does not take a correction back (533-536).
CorrectionKept == [][\A l \in Loc : Rank(row[l].corr) <= Rank(row'[l].corr)]_vars

\* A number link that is not ".../None/" names the number that is stored, and the
\* object it belongs to, also when an earlier search of the same location stored
\* another one (655-660).
LinkAgrees ==
    \A l \in Loc : row[l].corr = "true" /\ row[l].link \in Vbo =>
                      row[l].numid = row[l].link /\ row[l].vbid = row[l].link

\* guess() ends, whatever the workers and the producer do to each other.
Terminates == <>~Live
-----------------------------------------------------------------------------
(* What comments and docstrings of the code say, and the code does not do *)

\* 773: "For all items found in qs. Improve the location and start tasks".
AllLocationsSearched ==
    \A g \in 1..(gem - 1) : NoCut(g) =>
       \A t \in Tasks : t[1] \in Invalid(g) => fate[t] # "open"
=============================================================================
