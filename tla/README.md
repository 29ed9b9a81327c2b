# The handelsregister import in TLA+

The repository serves the *handelsregister* (the register of companies) of
Amsterdam as an API.  Nearly all of its logic that can go wrong over time is in the
import that fills the database and the search index: a script that runs a dozen
processes, some of them side by side, over tables that every one of them commits to
row by row.  This directory models that import, checks the models with TLC on small
instances and proves the main results with TLAPS for all values of the constants.

Paths below are relative to `src/web/handelsregister/` unless they begin with
`.jenkins-import/` or `README.md`, which are in `src/web/` and `src/`.

## 1. The system

`.jenkins-import/import.sh` starts with an empty database, and runs

1. the importer container: `docker-import.sh`, which downloads and loads the dump,
   converts it (B), loads and validates the sbi codes (C), searches the addresses
   (A), fills the geo table (E), fills the dataselectie table with three processes
   (D), and compares counts with targets (F); at the end `build_index --reset`;
2. three containers that build the elastic index (G), for which it waits;
3. backups of the database and of the index, which the APIs (H) then serve.

The components, the state each keeps, and what makes it correct:

| | component | state | operations | hard part | correct when |
|-|-----------|-------|------------|-----------|--------------|
| A | Location search, `datasets/hr/improve_location_with_search.py` and `fill_location_with_bag` of `datasets/build_hr_data.py` | rows of `hr_locatie` (identifications, link, geometry, `correctie`), a bounded queue `SEARCHES_QUEUE`, the counter `STATS`, objects in memory shared by the tasks of a location | `guess`, its producer, its workers, a timer | cooperative greenlets; a full queue and workers that leave when it is empty; requests that fail; siblings of one location that end in any order; jobs that survive the timer | each search has one owner, corrections are not taken back, links agree with what is stored, the run ends, and "done" means something was corrected |
| B | HR conversion, `sql_steps` of `build_hr_data.py`, schema in `datasets/hr/models.py` | the `hr_*` tables | about 40 SQL statements in a fixed order | every statement commits on its own; foreign keys; kills and reruns on what was left | a run that ends well leaves a function of the dump; one that cannot do so says so |
| C | SBI codes, `datasets/sbicodes/load_sbi_codes.py`, `validate_codes.py` | the hierarchy with its question-and-answer (QA) places, code and link of each activiteit | load, five repair loops, link | rows are read once and then repaired one by one; a process that dies; reloads | repairs depend on the dump alone, links agree with codes |
| D | Dataselectie, `datasets/build_ds_data.py` and the end of `docker-import.sh` | table `hr_dataselectie`, `tracking['last_id']` of each process | start, store a page, die; the script's wait | paging by last id over rows that may be skipped; three processes on one table | complete when the script says YAY! |
| E | Geo table and views, `fill_geo_table` of `build_hr_data.py`, `geo_views/migrate.py` | `hr_geovestigingen`, views | one delete, two joins | not atomic | equal to the join of the current tables |
| F | Import validation, `datasets/hr/handelsregister_stats.py` | none | counts against targets | bounds | |
| G | Index build, `search/index.py`, `build_index.py`, `.jenkins-import/import.sh` | the elastic index, offset of each part | reset, index a batch, fail; the script's wait | integer division into parts; two queries; bulk that fails half way | exactly the rows of both queries when the script goes on |
| H | APIs: `datasets/hr/views.py`, `search/views.py`, `search/queries.py`, `search/input_analyzer.py`, `health/`, `datasets/sbicodes/views.py` | none (they read) | lists, detail, type-ahead, search | paging over two sources; parsing | |
| I | Around it: `get_mks_dumps.py`, `loaddumps.sh`, `datasets/kvkdump/`, `create_csv_sql.py`, settings, docker and jenkins files, migrations, tests | | | | |

How they interact: B, C, A, E and D follow one another in one script with `set -e`,
through the tables.  C repairs rows B wrote and links rows to a hierarchy of its own.
A takes the rows of `hr_locatie` B left without geometry.  E, D and G read what A, B
and C left.  D's processes share a table and G's share an index; both are waited for
by a shell script that turns exit statuses into a verdict.  H reads only.

A, B, C, D and G have modules of their own.  E, F and the script that runs everything
are one module, `ImportPipeline`, in which A to D are what they leave behind.  H and
most of I are not modelled (section 7): they read, format, or move files.

## 2. Modules

| module | models | uses |
|--------|--------|------|
| `LocationSearch` | A: `guess()` with its greenlets, and `fill_location_with_bag` | |
| `AddressParsing` | A: what a written adres is parsed to: variants, number, suffix, postcode | |
| `SearchTask` | A: one search with all its requests, from the parsed adres to what is saved | `AddressParsing`, `SearchAbs` |
| `SearchAbs` | what one search promises, which is what a worker of `LocationSearch` does with it | |
| `ImportPipeline` | the script, the commands of `run_import` by hand, E and F | |
| `DataSelectie` | D: the processes `--partial=k/n` and the script that waits | `StoreAbs` |
| `IndexBuild` | G: reset, three containers, the script that waits | `StoreAbs` |
| `StoreAbs` | what D and G both promise: wanted rows are stored, none is taken away, success is reported of a complete store only | |
| `SbiCodes` | C: `--cbs_sbi` and `--cbs_sbi_validate`, killed, retried and repeated | |
| `SbiTrees` | C: how both trees of sbi codes are made from the pages of sbi.cbs.nl | |
| `HrImport` | B: `run_import`, killed and rerun | |
| `MC...` | constants for TLC, and assumptions about them | the module it is named after |
| `...Proofs` | theorems and their proofs | the module it is named after, TLAPS |

`PROJECT.json` maps every definition to the lines it stands for.

### LocationSearch

| model | code (`improve_location_with_search.py`) |
|-------|------|
| `row[l]` | a row of `hr_locatie`: `correctie`, `bag_vbid`, `bag_numid`, the link `bag_nummeraanduiding`, and the BAG object its geometry comes from |
| `obj[l]` | `correctie` of the model object which the producer and all tasks of the location share |
| `todo`, `cur`, `prod` | iterator, present address variant and state of `create_improve_locations_tasks` of a gemeente |
| `queue` | `SEARCHES_QUEUE` |
| `work`, `hand` | a worker of `run_workers` and the `SearchTask` it has |
| `main`, `gem`, `stats` | where `guess()` is, the gemeente, `STATS` |
| `fate`, `cut` | history: how each search ended, and whose `joinall` was cut off |

gevent is cooperative.  `manage_gevent.py` imports `grequests`, which patches sockets
but not threads, and psycopg2 is not patched, so a greenlet is never interrupted by a
database call: it switches in an http request, in `gevent.sleep` and in `joinall`.  An
action is the stretch between two of these; longer stretches of the producer are cut
into short actions that run with everything else locked out (`HubFree`).  Only the
database iterator and the queue are visible in between.

What an adres is parsed to is here the constant `Alts`: for every variant it says
whether it becomes a task, is skipped because it has no street, or makes the producer
raise because it has no number.  `AltsAssumption` of `MCLocationSearch` says, with the
operators of `AddressParsing`, that the values of the runs are those of adressen that
can be written.  Which hit is chosen is left open: a search ends in any of the ways of
`SearchAbs`, and `SearchTask` is shown to implement `SearchAbs`.  A failed request and
an answer without hits are one action here (`WorkerNoHit`), because they are one case in the
code (297-314, 532-541); `SearchTask` tells them apart.

### AddressParsing and SearchTask

An adres is a sequence of words, a word a sequence of the tokens of `clean_tokenize`.
`alternative_qs`, `is_straat_huisnummer`, `determine_relevant_huisnummers`,
`normalize_toevoeging` and the others have the names of the code; `kind` is what
`create_search_for_addr` does with a variant, an exception included, and `SearchData`
the arguments of the task it makes.  `task` is one of these for an adres of `Written`.

| model | code |
|-------|------|
| `req`, `i`, `tries` | the request that is out, the number of `get_search_response` it is for, failed attempts in `get_response` |
| `StraatAnswer`, `PostcodeAnswer`, `P6Answer` | the three searches for a hit (470-531) |
| `filter_hits`, `look_in_hits` | the choice among the hits (401-460) |
| `NumAnswer`, `VboAnswer`, `AdressenAnswer` | `get_details_for_vbo` and the save that follows (583-668) |
| `num`, `level`, `vbid`, `numid` | the hit, `correctie_level`, what is stored |
| `At`, `AtPostcode`, `AtP6`, `Asked` | what the BAG has exactly for a search, and for the one that is out |
| `lost`, `via` | history: the searches that had no answer although the BAG has what they ask for, and the search that gave the hit |

The api is what the code relies on: an answer holds every address of the BAG that has
exactly what was asked for, and any other addresses with the number, in any order.

### ImportPipeline

`script` and `place` are `docker-import.sh` and the command it is at, `cmd` and `at` the
command that runs and its position between two commits.  `ManualCommand` gives any
command by hand while the script is not running; `Kill` ends a command anywhere;
`NewDatabase` is `import.sh`, which makes new containers.  `loc`, `code`, `hier`, `ds`
are what the commands have left in the tables the geo table is joined from; `VesRows`
and `MacRows` are the two joins (`build_hr_data.py` 743-897) and `map` the bag of rows
in the geo table, since an insert can store a row twice.  `TableCounts`
and `SubCounts` are those checks of `handelsregister_stats.py` that can fail
`--validate_import`, and `stats` the file of counts every command reads when it is
imported.  A validation of codes leaves those it has no place for (`Repaired`).

### DataSelectie

`at[k]` is the query process `k` is paging through, `last_id[k]` is
`tracking['last_id']`, `table` the stored uids and `shell` the verdict.  A page is one
`bulk_create`, which is a transaction: it is stored whole or raises a unique violation
(`StorePage`).  Rows whose serializer raises `TypeError` are the constant `TypeErr`.
Ids are numbers here; in the code those of a vestiging are strings and those of a
maatschappelijke activiteit decimals, and all that is used is that each kind is
totally ordered by the database and has a remainder (`id % denominator`, computed
after a cast in the query).

### IndexBuild

A document is `<<query, offset>>`; `by` records who indexed it.  `start_index`,
`chunk_size` and `end_part` are the integer arithmetic of `batch_qs`.  `IndexBatch` is
one call of `helpers.bulk`; `BatchFails` leaves any prefix of the batch in the index, and
`Dies` is a container that ends outside of a batch, with an empty range included.
`main` is `import.sh`: it resets the index, starts the parts, waits, and counts the
ones that failed.

### SbiCodes

`step` is the loop the process is in, `todo` the rows that loop read and has not
handled.  `CleanKey`, `DeleteOld`, `CreateRow`, `LoadDone` are the load; `Read`,
`FixMissingZero`, `FixAmbiguous`, `FixManual`, `FixKaring`, `FixDefault` and `Update`
the validation, in that order, each row a transaction.  `Crash` kills the process
between two of them, `Retry` runs the step again, `Reload` and `Revalidate` repeat it on
a finished database.  The hierarchy, the places in the QA tree, and what the edit distance between
descriptions decides are constants.  `HierAssumption` states the facts of
`section_tree.json` (1436 codes) that the repairs rely on: none starts with `00`, so
that a repaired code is not repaired again.

`SbiTrees` gives the hierarchy and the places of the run from small pages of the same
shape.  The assumptions of `MCSbiCodes`, which TLC evaluates before the run, say that the
lists are the same in whatever order the codes of a letter come and begin with the letter, that
the asserts stop a load with a code or an id that two letters have, and that the kept
files give what was downloaded unless two answers share the name of a file
(`load_qa_sub_sub_sections` names it after the place in the section and the first word).
No two of the 65 fixtures of answers do.

### HrImport

A table is its set of keys, a foreign key or many-to-many table a set of pairs; the
constraints (`Consistent`) are checked after every statement, as PostgreSQL does.
`Steps` is the list of `sql_steps()`.  `Delete` does what Django's collector does with
the `on_delete` of each relation.  A run is killed after any statement, or ends when a
statement violates a primary key or a reference; the next run starts on what is there.

## 3. Runs

Sizes are distinct states with TLC.

| run | expects | states | what it shows |
|-----|---------|--------|---------------|
| `search` | pass | 900,022 | with two gemeenten, two workers each and a queue of two, under all interleavings: see below |
| `search_live` | pass | 396,604 | `guess()` ends under fairness, also when a producer naps on a full queue whose workers have left |
| `search_crash` | violation of `AllLocationsSearched` | | one address without a number ends the producer with a `ValueError`, and the locations behind it are never searched |
| `search_task` | pass | 105,770 | seven kinds of adres, every BAG of up to three addresses around it, every answer, requests that fail or are lost for good |
| `pipeline` | pass | 281,879 | two scripts and two commands by hand, killed anywhere, with new databases in between, and a file of counts that may be torn |
| `dataselectie` | pass | 5,031 | one part and three, over any leftovers |
| `ds_skip` | violation of `ShellEnds` | | a full page of rows that are skipped is read for ever |
| `index` | pass | 123,422 | all row counts up to seven, for three parts and batches of two, with containers that die anywhere |
| `sbi` | pass | 175,071 | load and validation with kills, retries, reloads |
| `sbi_twice` | violation of `Finishes` | | a vestiging that has one code in two activiteiten stops every validation |
| `hr` | pass | 105,344 | up to three runs of the conversion, killed anywhere |
| `hr_plaatsen` | violation of `InGivenPlaatsStays` | | a vestiging in Beverwijk is deleted |

Each property of a passing run has a mutant in `PROJECT.json`: a definition of the model changed the way a bug
would change the code, under which TLC finds the property violated.  The mutants stand
next to the definitions they replace.

### What the properties say

*LocationSearch.*  `TaskOwnedOnce`: a search is with its producer, once in the queue,
or with one worker, and never comes back after it has ended, also when the workers of a
later gemeente take what an earlier one left in the queue (1014).  `DrainedWhenJoined`: when `joinall` comes back in time, nothing
of that gemeente is queued or under way.  `UnattemptedOnlyByGivingUp`: a location that
still counts as never attempted, in a gemeente whose producer came to its end and whose
`joinall` came back in time, had every search broken off by an exception.  `StatsPerGemeente`: the counter that is stored and reset per gemeente is
right as long as no `joinall` was cut off.  `DoneMeansCorrected`: "done" implies that
something was corrected and few locations are left per gemeente, also after later
greenlets have run on.  `CorrectionKept` (an action property): the stored `correctie`
only goes from unknown to not found to corrected.  `LinkAgrees`: a number link that
names an object agrees with the stored number and object, also when two variants of one
address both had a hit.  `Terminates`: liveness.

*SearchTask.*  `NearestFound`: a search takes the street at the nearest of its numbers for
which the BAG has an address, or an earlier number by postcode, and says "not found" only if
there is none; a request that was lost for good hides the one thing it asked for and nothing
else, so that a lost answer for one number changes nothing for the others.  `WrittenFound`:
if the first request was answered, it takes the very address that was written if the BAG
has it, whatever else the api answers with and whatever else is lost.
`LevelTells`: from the stored level one can tell which search found the hit, although it
is a sum of three things.  `Implements`: it ends in one of the ways a worker of
`LocationSearch` knows, within the attempts its requests have, and what is saved of
number and object belongs together.

*ImportPipeline.*  `MapIsOneFill`: the map is empty, the vestigingen, or all of one join,
no row twice, whatever was killed.  `DoneMeansFresh`: a script that ends well leaves a map
that is the join of the tables as they are, repaired codes, a complete hierarchy and a
complete dataselectie, whatever earlier scripts, kills and commands by hand left; it
holds because `set -e` stops the script where something old would be mixed in.
`HalfMapNoticed` (an action property): validation never accepts a map without its
maatschappelijke activiteiten, as long as these are more than what may lack of the target
(5000 rows), which the run assumes of the data.  `TornStops` (an action property): once the
file of counts was torn by a kill, no step changes a table and no script ends well until
there is a new database, since every command reads it before it does anything.

*DataSelectie.*  `PagedUpToLast`: everything serialisable up to `last_id` is stored,
whatever rows were skipped.  `YayComplete`, `YayExact`: what YAY! means.  `Implements`:
`StoreAbs` under the refinement mapping given there.  `ShellEnds`: liveness.

*IndexBuild.*  `OneWriter`: no document comes from two parts.  `YayExact`, `Implements`, `Ends` as above.

*SbiCodes.*  `LinkAgrees`: at every moment a link names the code of its activiteit.
`RepairedAtEnd`: the repaired codes are a function of the dump, wherever processes were
killed and however often they were run.  `PlacedAtEnd`, `QaKept`: the QA tree is completed
and never overwritten.  `Finishes`: every load and validation ends.

*HrImport.*  `DoneExact`: every table after a run that ends well, as a function of the
dump.  `EndsWellIffPassable`: a rerun ends well exactly when nothing was inserted into a
table the conversion only adds to; any later rerun is refused by a constraint and
two imports are never mixed.  `RerunOrphans`: a run on a database with vestigingen never ends
well and has lost every address by then (its first statement deletes the locations, which
sets them to null), while the locations themselves are those of the dump again: that is why
such a database has to be emptied first, as `import.sh` does.

### Bounds, and why they are enough

*Search*: two gemeenten are needed for jobs that survive a timer to meet the next
gemeente; two workers and two variants of one address for siblings and for competition
over the queue; a queue of two for "full", with `MAXINVALID` 2 so that both outcomes of the assert
occur.  `DumpRows` has a row with unknown identifications and one an earlier search
gave up.  `search_live` has one worker and five tasks for a queue of two: the producer
naps more than once and can be left behind.
`search_crash` has `MAXINVALID` 3, so that the run is not ended by that assert.
*Search task*: three addresses in the BAG are enough for a hit with a competitor in
another street, one with a longer suffix, and one at a neighbouring number or with only
the postcode; two attempts, so that a request fails once and goes on, or fails for good.
`Written` has an adres of every kind the parsing tells apart.
*Pipeline*: two scripts, so that one meets what another left, and two commands by hand, since one
may undo what the other did (`clearsearch` after `search`); three locations, one to be
searched, one in the BAG, one outside of Amsterdam; the target is one row more than the
vestigingen can give; an activiteit whose code is repaired, one whose code is right and one
whose code has no place.
*Dataselectie*: 13 ids, pages of two, parts of zero to five rows: full, partial and
empty last pages, skipped rows at the end of a page and at the end of a query, and an
item whose uid a leftover row already has.
*Index*: three parts and up to seven rows: fewer rows than parts, every remainder,
and batches that end before, at and after the end of a part.
*SBI*: two activiteiten of one vestiging and one of another, and an orphan whose vestiging was deleted;
codes of every kind the loops tell apart; one kill (every state a second kill can
start from is reached by the first), any number of retries and reloads.
*HR*: two activiteiten and three vestigingen, with and without each optional part; three
runs, since a third run meets the tables a killed second run left.

### Fairness

Safety runs assume none.  `search_live`: gevent resumes every greenlet whose answer or
timer is there (weak fairness per greenlet); a request ends, because it has a timeout of
27 s and a bound on its attempts; the timer of `joinall` fires.  Nothing is assumed of
the order.  `search_task`: a request that is out is answered, fails or times out (5 s to
connect, 27 s to answer), so the search goes on.  `dataselectie` and `index`: a process that runs goes on, and the shell waits
for it; dying is never forced.  `sbi`: a process that runs goes on and one
that failed is started again; a kill is not forced.

`CHECK_DEADLOCK FALSE` stands only in the two configurations of `HrImport` and in that of
`ImportPipeline`, where the number of runs (`MaxRuns`), of scripts (`MaxScripts`) and of
commands by hand (`MaxManual`) is bounded: the system may rest after the last of them.  The other models have no deadlock: they end
in states that stutter explicitly, guarded by the outcome.

## 4. Proofs

All proofs are checked by `tlapm`; they assume the named `ASSUME`s of the component
and, where it is said, `Prompt`.  They hold for any number of rows, parts, workers, batches, runs and kills.

| module | theorems | argument |
|--------|----------|----------|
| `LocationSearchProofs` | `TypeCorrect`, `OneOwner`, `CorrectionStays` | `TypeOK` is inductive with `InOrder` (nothing of a gemeente runs before its turn).  `TaskOwnedOnce` needs `Walk`: a producer is within its own gemeente, the location it is at is not among those to come, and before it starts no task of it exists.  Without it a task could be made twice.  `CorrectionStays` is a step argument: only a search without a hit writes "not corrected", and only over unknown. |
| `LocationSearchJoinProofs` | `LinkStays`, `DoneIsCorrected`, and under `Prompt`: `JoinedIsDrained`, `NapsAreServed`, `UnattemptedGaveUp`, `StatsAreRight` | see below |
| `SearchTaskProofs` | `TypeCorrect`, `NearestIsFound`, `WrittenIsFound`, `LevelIsTelling`, `TaskImplements` | the choice among the hits first: `look_in_hits` of a non-empty answer is not empty and stays in the street when it can.  A hit as it was written comes first, since it is among the first two options.  Then the invariants: for every number before the present one the BAG has no address, or the request for that number is among the lost ones (`Passed`); and each search keeps its range of levels. |
| `HrImportProofs` | `TypeCorrect`, `DoneIsExact`, `EndsWellExactlyIfPassable`, `RerunLosesAddresses` | see below |
| `ImportPipelineProofs` | `TypeCorrect`, `OneFill`, `DoneIsFresh`, `TornStopsAll` | a fill is alone with the tables (`Fill`), so that `snap` stays the join of the present ones until it ends.  `Behind` says for every place of the script what the commands before it have settled; none of the later ones changes it, and no command by hand runs meanwhile (`Running`).  `Torn`: when the file is torn a command is at its end as it starts, and a script at its first. |
| `DataSelectieProofs` | `TypeCorrect`, `PagingLosesNothing`, `YayMeansComplete`, `YayMeansExact`, `ImportImplements` | a page is a prefix of the rest of a query (`PageIsPrefix`), and one that is not full is all of it (`ShortPageIsAll`); both rest on cardinalities of finite sets of numbers.  `YayMeansComplete` adds that the remainders cover all ids (`PartsCover`) and that verdicts are final (`AllOk`).  The refinement: a step that takes nothing away is a `Store`, and YAY! of a complete table is `Succeed`. |
| `IndexBuildProofs` | `TypeCorrect`, `NoDocumentTwice`, `NothingSkipped`, `IndexIsExact`, `BuildImplements` | arithmetic first: ranges are in order (`PartsDisjoint`) and cover every row (`PartsCover`), from lemmas on products and integer division; then `Owned` (a document is in the range of its writer) and `IndexedUpTo` (no gap before a part's position), which stands in the proof module. |
| `SbiCodesProofs` | `TypeCorrect`, `LinksAgree`, `RepairsSettle`, `KaringPlaces`, `QaStays` | the invariant `IInv`: the types, what each loop may rely on (`StepInv`), `SameRepair` (a repair does not change what a code is repaired to), and `LinkSettled` (only a code that needs no repair any more is linked).  The last is needed because `update_activiteiten` fills links that are null and never corrects one: that a link stays right on a database that is validated again follows only from codes being settled. |

A surprise of the last proof: in the first loop a repair may hit another activiteit than the one its
row came from (`get` asks for vestiging and code, and rows are handled in any order), which is
harmless because it has the same code; in the second loop that would matter, as the
decision depends on the description, and the invariant shows that it cannot happen.

*What `joinall` leaves.*  `LocationSearchJoinProofs` proves `JoinInv`, of five parts: `Base`
(types, order, and every task in one place), `Turns` (workers come after their producer, and a
producer that is done has nothing left), `Served` (a producer naps on a queue that is not
empty, and a worker that left saw an empty queue after the last task was put), `Closed` (a
gemeente that was joined in time was skipped, or all its greenlets have ended) and `Quiet`
(nothing of such a gemeente is queued or under way).  Under `Prompt` a producer cannot be
left on a full queue, and without it `DrainedWhenJoined` is false: the workers empty the
queue during a nap and leave, and the last task stays for the next gemeente.
So these theorems have `Prompt` as a hypothesis: five workers do not empty a queue of
1500 searches in 2.3 seconds.  `UnattemptedOnlyByGivingUp` adds which rows were marked
(`Marked`, `Attempted`), `StatsPerGemeente` counts corrections (`Counted`).  `LinkAgrees` and `DoneMeansCorrected` need no
`Prompt`.  `NapIsServed` (a producer on a full queue never waits for workers that have gone)
is stated in the proof module.

*What a conversion leaves.*  `DoneExact` says nothing of a run before its end, so it is far
from inductive.  `HrImportProofs` proves `IInv`, which adds `Base` and `Progress`.  `Base`
holds at every moment, also after a kill or a refusal: the tables are consistent, hold rows
of the dump only, and an activiteit refers to its onderneming.  `Progress` holds while a
run goes on, and says for each of the 42 places between its 41 statements what the ones before
have left: the tables that are emptied and filled again (`Replaced`), those that are only added
to (`Added`: what they began with, and apart from that what is due by now), the vestigingen,
and what refers to a vestiging (`OfVes`) or an activiteit (`OfMac`).  There is one lemma for
each sort of statement.  Two arguments carry the theorems:

- an INSERT of all the rows the dump has for a table, into a table with rows of the dump
  only, succeeds only when the table is empty.  So a run that ends well began without rows
  in any table it only adds to, and every table is exact;
- conversely, on `Passable` tables every statement fits (the `...Fit` lemmas: no key is
  there yet, and everything the rows refer to is), so a run that is refused did not start
  on `Passable` tables.

`RerunLosesAddresses` adds that every vestiging refers to its activiteit (`VesLinked`).  On a
database with vestigingen the DELETE of the locations takes all addresses away; then either the
DELETE of the ondernemingen is refused, since it cascades to an activiteit that a vestiging
refers to, or that activiteit has no onderneming, stays, and is in the way of the INSERT of
the activiteiten.  Which of the two depends on the dump; that nothing has an
address afterwards does not.  `ImportPipeline` rests on both: `MksConvert` makes an empty
database full (`EndsWellExactlyIfPassable`) and orphans any other that has vestigingen, as a
filled one has.  "No constraint refuses a run on an empty database" is said of dumps that are
well formed (`DumpOK`: keys and references as the tables of the dump have them).

Assumptions worth naming: `RowsAssumption` (the table is finite; a link that an earlier
search stored agrees with its row, the same that `LinkAgrees` shows of this one);
`TaskAssumption` (facts about what the parsing gives: at most eight numbers, at most 125 options for a
suffix, the suffix as written first).  The parsing is made of folds, out of the prover's
reach; TLC evaluates these facts for the adressen of the run.  `PipelineAssumption`
types the constants, and says that a validation gives a code an official one in its place
or leaves it.

Only model-checked: liveness (`Terminates`, `ShellEnds`, `Ends`, `Finishes`, and that a
search of `SearchTask` ends), since TLAPS does not prove fairness or `ENABLED`;
and `HalfMapNoticed`, which counts the rows of a bag, a sum by recursion over its elements
and so a fact by induction over data, and holds only as long as the vestigingen alone stay
below the target less 5000, which the data decide and the code does not.

## 5. Findings

The four runs that end in a violation are disagreements of the code with its own comments or
messages.  Their details are in `PROJECT.json`:
`int()` of the first word of an adres in which `is_straat_huisnummer` finds no number ends
the producer (A); paging that does not advance over
skipped rows (D); `get` of a code that occurs twice (C); two missing commas in the list
of plaatsen (B).

Differences that have no run of their own:

- The comment at `improve_location_with_search.py` 60 gives the number of workers as a
  maximum of simultaneous requests; after a timer, workers of one gemeente run beside those of the next, and their
  corrections are counted for it.
- The assert at 1025 counts locations never attempted, not those still without geometry.
- `fill_location_with_bag` takes the geometry of the number if there is one, the
  search that of the object; they can be of two answers.
- A dataselectie import in parts does not empty the table (218-219), so it fails on a
  database that was imported before.
- `fix_bad_sbi_door_karing_goes` reads solutions for codes outside the hierarchy
  (463-465), which the join at 472 never yields.
- The assert of `set_partial_config` (`build_index.py` 66) compares with `<=` after the
  numerator was reduced by one, so `--partial=4/3` passes and indexes rows of part 3 again.
- Section codes of the QA tree are asserted to be new, those of the answers below are
  not (`load_sbi_codes.py` 395, 428).
- A second `run_import --search` with nothing left to search fails its last assert (1037).
- The suffix of a number is split into single characters before its options are made
  (`determine_toevoegingen`), so that "143 F26" is looked for as "f 2 6" and "f26" and never as "f 26".
- A small number with a floor, as in "3-2", passes `dubbele_nummer_check` and is searched
  as the two numbers 3 and 2.
- An adres without a number takes the digits of its postcode for one, if nothing else
  in it is a number.
- An ordinal is replaced wherever it stands, also in the suffix ("1e" in "33 1e").
- A request that had no answer counts as one without hits (297-314): the search goes on
  to the neighbouring numbers, and the row can be corrected to one of these.  `NearestFound`
  says how far that goes: only what the lost request asked for can be missed.
- Within one kind of search the levels overlap: an exact hit at the sixth option has the
  level of a beginning at the first.  A suffix with more than 125 options, of some hundred characters, would reach into the next kind.
- `correctie = False` is set on the object in 905 and not saved there.
- `--clearsearch`, "Clear hr_locate from search api results", also empties the
  identifications and the geometry that rows without a correction had from the dump, and leaves their
  `bag_nummeraanduiding`.
- `check_sub_counts` refuses a count of zero: an import without any vestiging that
  lacks a geometry fails its validation.
- In that query (173-180) `AND` binds more than `OR`, so that ended vestigingen count by
  bezoekadres only.
- A later `--search`, `--clearsearch` or `--bagfix` by hand leaves the geo table as it was.
- A command that is killed while it writes `/tmp/stats.json` makes every later command
  fail until the file is removed, since the file is read on import.
- `README.md`, "SBI CODES", updates the hierarchy without `--cbs_sbi_validate`, while
  the load clears all links to it.

## 6. Hazards

`PROJECT.json`, `hazards`, lists what is hard to test in this code, at its line, with the properties
that watch it.  Those without a property say why.

## 7. Not modelled, and why

- H: the apis read.  The list of a pand is cut from two sources with a page number of its
  own (`datasets/hr/views.py` 184-233); it has no state, and nothing else depends on
  what it shows.  `search/` turns a query string into elastic queries.
- The download and unpacking of dumps, docker, jenkins, settings, migrations, csv: I/O and
  configuration without state of their own.
- Serializers, the elastic mapping and query texts: formatting.  The views over the geo
  table select by category.
- In B, column values other than keys, references, end dates and owners.
- In C, the two csv files with places of codes, which are constants.
- `--status` and `--testsearch`, which print.

Abstractions inside the models:

- `AddressParsing`: the variant for a woonboot is of an adres that ends in "ab", which no
  adres that is searched for does, as it ends in a gemeente; ordinals inside a postcode are
  left alone.
- `SearchTask`: an answer of the api always holds the addresses that match exactly; the
  real api cuts its answers off at a page.
- `ImportPipeline`: a conversion that was broken off is only followed by a new
  database, as in `import.sh`; `HrImport` has the reruns.  A search corrects or rejects
  one location at a time, without the rest of `LocationSearch`.
- `ImportPipeline`, validation: the counts of the views over the geo table, each of which
  has to be near a target of its own, are left out.  They can only refuse more, so that a
  map that is never accepted here is not accepted there.
- `ImportPipeline`, dataselectie: `Wanted` is every inscription that has not ended.  The
  rows that are skipped when they cannot be serialised are in `DataSelectie`; the filter on
  the plaats of a maatschappelijke activiteit is data.

## 8. Plan

Done: the pipeline with geo table and validation, the parsing and the search of one
adres, the invariants of `LocationSearch` about `joinall`, and the proofs of every safety
property but `HalfMapNoticed`.  Left:

1. `ApiPaging`: the list that is cut from two sources.
2. A proof that the conversion in `ImportPipeline` is an abstraction of `HrImport`, step by
   step; so far it rests on the two theorems named in section 4.

## 9. Running it

    tlc -config LocationSearch.cfg MCLocationSearch
    tlapm LocationSearchProofs.tla

and so on for the other configurations; `PROJECT.json` lists the pairs.
