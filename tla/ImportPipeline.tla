---------------------------- MODULE ImportPipeline ----------------------------
(***************************************************************************)
(* The steps of docker-import.sh after the dump is loaded, each of them a  *)
(* `manage.py run_import --<option>`, and the same commands given by hand, *)
(* as the README describes, in any order.  Every statement commits on its  *)
(* own, so a command that is killed leaves what it did so far; the script  *)
(* stops at the first command that fails (set -e).                         *)
(*                                                                         *)
(* The conversion, the search, the sbi codes and the dataselectie have     *)
(* modules of their own; here they are what they leave in the tables that  *)
(* the geo table and the validation read.  New here are the geo table      *)
(* (_build_joined_geo_table_locations), clear_autocorrect, the counts of   *)
(* handelsregister_stats.py and the order of it all.                       *)
(***************************************************************************)
EXTENDS Integers, Sequences, FiniteSets, Bags

CONSTANTS
    Ves, Mac,     \* vestigingen and maatschappelijke activiteiten of the dump
    Loc,          \* rows of hr_locatie
    Bezoek, Post, \* Ves \cup Mac -> Loc \cup {NULL}
    Ended,        \* those with a datum_einde
    Acts,         \* Ves \cup Mac -> their activiteiten
    RawCode,      \* activiteit -> its sbi code in the dump
    Repaired,     \* activiteit -> what cbs_sbi_validate makes of it: an official code,
                  \* or its own when there is none to put in its place
    Official,     \* the sbi codes of section_tree.json
    Dump,         \* Loc -> its row in the dump
    InAdam,       \* locations in Amsterdam
    MaxMissing,   \* upper bound of check_sub_counts
    MaxInvalid,   \* bound of the assert in guess()
    GeoTarget, TOL, \* target count of hr_geovestigingen; 5000, what may lack of it
    MaxManual, MaxScripts, \* bounds: commands by hand, and runs of the script
    NOACT,        \* the outer join with no activiteit
    NULL, OLD, BAG \* no value; an identification the BAG does not have; one it has

VARIABLES
    hr,     \* the converted tables: "empty", "partial", "full", or "orphaned"
            \* when the inscriptions have lost their addresses
    loc,    \* Loc -> [id, geo, corr]
    code,   \* activiteit -> sbi_code
    hier,   \* codes in sbicodes_sbicodehierarchy
    map,    \* hr_geovestigingen: a bag of rows
    ds,     \* inscriptions in hr_dataselectie
    stats,  \* /tmp/stats.json: "ok" or "torn"
    cmd, at, \* the command that runs, or "none", and where it is
    script, place, \* docker-import.sh, and the command it is at
    count,  \* [manual, scripts]: what was given so far, for the bounds
    snap    \* history: rows the last --geovestigingen was to store

tables == <<hr, loc, code, hier, map, ds>>
control == <<script, place, count>>
vars == <<hr, loc, code, hier, map, ds, stats, cmd, at, script, place, count, snap>>

Insc == Ves \cup Mac
Act  == DOMAIN RawCode
Row  == [id : {NULL, OLD, BAG}, geo : {NULL, OLD, BAG}, corr : {"null", "true", "false"}]

Script == <<"mks", "cbs_sbi", "cbs_sbi_validate", "search", "geovestigingen",
            "dataselectie", "validate_import">>

Manual == {Script[k] : k \in DOMAIN Script} \cup {"bag", "clearsearch"}

ASSUME PipelineAssumption ==
    /\ Ves \cap Mac = {} /\ IsFiniteSet(Insc) /\ IsFiniteSet(Act)
    /\ Bezoek \in [Insc -> Loc \cup {NULL}] /\ Post \in [Insc -> Loc \cup {NULL}]
    /\ Acts \in [Insc -> SUBSET Act] /\ NOACT \notin Act
    /\ RawCode \in [Act -> {RawCode[a] : a \in Act}]
    /\ Repaired \in [Act -> Official \cup {RawCode[a] : a \in Act}]
    /\ \A a \in Act : Repaired[a] \in Official \cup {RawCode[a]}
    /\ Dump \in [Loc -> Row] /\ \A l \in Loc : Dump[l].corr = "null"
    /\ NULL # OLD /\ NULL # BAG
    /\ IsFiniteSet(Loc) /\ NULL \notin Loc /\ InAdam \subseteq Loc
    /\ MaxMissing \in Nat /\ MaxInvalid \in Nat /\ GeoTarget \in Nat /\ TOL \in Nat
-----------------------------------------------------------------------------
(* What the join of the present tables holds *)

Rows == IF hr = "empty" THEN {} ELSE Loc

Addresses(e) == IF hr = "full" THEN {Bezoek[e], Post[e]} \ {NULL} ELSE {}

GeoRow(e, a, l) ==
    [of |-> e, act |-> a, code |-> IF a = NOACT THEN NULL ELSE code[a],
     placed |-> a # NOACT /\ code[a] \in hier,
     type |-> IF Bezoek[e] = l THEN "B" ELSE "P", geo |-> loc[l].geo]

OnMap(e) == {l \in Addresses(e) : loc[l].geo # NULL}

\* insert_sql_ves: an inner join with the hierarchy
VesRows == UNION {{GeoRow(e, a, l) : a \in {b \in Acts[e] : code[b] \in hier}, l \in OnMap(e)} :
                      e \in Ves \ Ended}

\* insert_sql_mac: outer joins, and only locations in Amsterdam
MacRows == UNION {{GeoRow(e, a, l) : a \in IF Acts[e] = {} THEN {NOACT} ELSE Acts[e],
                                     l \in OnMap(e) \cap InAdam} :
                      e \in Mac \ Ended}

Wanted == IF hr = "full" THEN Insc \ Ended ELSE {}
-----------------------------------------------------------------------------
(* The script and the operator *)

Empty == /\ hr = "empty" /\ loc = Dump /\ code = RawCode /\ hier = {}
         /\ map = EmptyBag /\ ds = {} /\ stats = "ok"

Init == /\ Empty /\ cmd = "none" /\ at = "start"
        /\ script = "idle" /\ place = 1
        /\ count = [manual |-> 0, scripts |-> 0]
        /\ snap = [ves |-> {}, mac |-> {}]

Idle == cmd = "none" /\ script # "running"

\* import.sh removes the containers, with their volumes and /tmp, and makes new ones
NewDatabase ==
    /\ Idle /\ ~Empty
    /\ hr' = "empty" /\ loc' = Dump /\ code' = RawCode /\ hier' = {}
    /\ map' = EmptyBag /\ ds' = {} /\ stats' = "ok"
    /\ script' = "idle" /\ snap' = [ves |-> {}, mac |-> {}]
    /\ UNCHANGED <<cmd, at, place, count>>

ScriptStart ==
    /\ Idle /\ count.scripts < MaxScripts /\ hr # "partial"
    /\ script' = "running" /\ place' = 1
    /\ count' = [count EXCEPT !.scripts = @ + 1]
    /\ UNCHANGED <<cmd, at, stats, snap>> /\ UNCHANGED tables

\* mutant: a file that cannot be read is passed over
BeginAnyway(c) == cmd' = c /\ at' = "start"

\* every command imports handelsregister_stats, which reads /tmp/stats.json
Begin(c) == cmd' = c /\ at' = IF stats = "ok" THEN "start" ELSE "fails"

ScriptNext ==
    /\ script = "running" /\ cmd = "none"
    /\ \/ /\ place <= Len(Script) /\ Begin(Script[place]) /\ UNCHANGED script
       \/ /\ place > Len(Script) /\ script' = "done" /\ UNCHANGED <<cmd, at>>
    /\ UNCHANGED <<place, count, stats, snap>> /\ UNCHANGED tables

\* a command by hand, also before the conversion; what a conversion that was broken
\* off leaves is only replaced
ManualCommand ==
    /\ Idle /\ count.manual < MaxManual /\ hr # "partial"
    /\ \E c \in Manual : Begin(c)
    /\ script' = "idle" /\ count' = [count EXCEPT !.manual = @ + 1]
    /\ UNCHANGED <<place, stats, snap>> /\ UNCHANGED tables

Succeeds == /\ cmd' = "none" /\ at' = "start"
            /\ place' = IF script = "running" THEN place + 1 ELSE place
            /\ UNCHANGED <<script, count>>

\* mutant: no `set -e`
GoesOn == script

Stops == IF script = "running" THEN "failed" ELSE script

\* an exception or an assert ends the command, and with it the script
Fails == /\ cmd' = "none" /\ at' = "start" /\ script' = Stops
         /\ place' = (IF Stops = "running" THEN place + 1 ELSE place)
         /\ UNCHANGED count

To(step) == at' = step /\ UNCHANGED <<cmd, script, place, count>>

At(c, step) == cmd = c /\ at = step

\* killed between two statements; the file is written without care for that
Kill ==
    /\ cmd # "none" /\ Fails
    /\ stats' \in IF at = "stats" \/ At("mks", "bag") THEN {"ok", "torn"} ELSE {stats}
    /\ hr' = IF At("mks", "convert") THEN "partial" ELSE hr
    /\ UNCHANGED <<loc, code, hier, map, ds, snap>>

\* json.load of half a file
BeginFails == /\ cmd # "none" /\ at = "fails" /\ Fails
              /\ UNCHANGED <<stats, snap>> /\ UNCHANGED tables

\* log_rapport_counts ends most commands
WriteStats == /\ cmd # "none" /\ at = "stats" /\ Succeeds
              /\ UNCHANGED <<stats, snap>> /\ UNCHANGED tables
-----------------------------------------------------------------------------
(* fill_stelselpedia, fill_location_with_bag, clear_autocorrect, guess *)

MksStart == /\ At("mks", "start") /\ To("convert")
            /\ UNCHANGED <<stats, snap>> /\ UNCHANGED tables

\* HrImport: a conversion on what an earlier one left replaces the locations,
\* takes the addresses of the inscriptions away and is refused by a constraint
MksConvert ==
    /\ At("mks", "convert")
    /\ loc' = Dump
    /\ IF hr = "empty" THEN hr' = "full" /\ To("bag")
                       ELSE hr' = "orphaned" /\ Fails
    /\ UNCHANGED <<code, hier, map, ds, stats, snap>>

\* fill_location_with_bag, at the end of the conversion and of the search, or alone
FillWithBag ==
    /\ cmd \in {"mks", "search", "bag"} /\ at = IF cmd = "bag" THEN "start" ELSE "bag"
    /\ loc' = [l \in Loc |-> IF l \in Rows /\ loc[l].id = BAG
                             THEN [loc[l] EXCEPT !.geo = BAG] ELSE loc[l]]
    /\ To(IF cmd = "mks" THEN "assert" ELSE "stats")
    /\ UNCHANGED <<hr, code, hier, map, ds, stats, snap>>

\* the database is a new one, so nothing can be on the map
MksAssert == /\ At("mks", "assert")
             /\ IF map = EmptyBag THEN To("stats") ELSE Fails
             /\ UNCHANGED <<stats, snap>> /\ UNCHANGED tables

\* mutant: one column is left as it was
ClearedKeepsCorr(r) == [r EXCEPT !.id = NULL, !.geo = NULL]

\* also of rows that no search has corrected, and of what the dump had in them
Cleared(r) == [r EXCEPT !.id = NULL, !.geo = NULL, !.corr = "null"]

ClearSearch ==
    /\ At("clearsearch", "start")
    /\ loc' = [l \in Loc |-> IF loc[l].corr = "null" THEN loc[l] ELSE Cleared(loc[l])]
    /\ Succeeds
    /\ UNCHANGED <<hr, code, hier, map, ds, stats, snap>>

\* LocationSearch: the locations that no search was attempted for
Invalid == {l \in Rows : loc[l].corr = "null" /\ (loc[l].geo = NULL \/ loc[l].id = NULL)}

SearchOne ==
    /\ cmd = "search" /\ at \in {"start", "found"}
    /\ \E l \in Invalid :
          \/ /\ loc' = [loc EXCEPT ![l] = [id |-> BAG, geo |-> BAG, corr |-> "true"]]
             /\ To("found")
          \/ /\ loc' = [loc EXCEPT ![l].corr = "false"]
             /\ To(at)
    /\ UNCHANGED <<hr, code, hier, map, ds, stats, snap>>

\* searches may be left over; too many of them, or no correction at all, is an error
SearchEnd ==
    /\ cmd = "search" /\ at \in {"start", "found"}
    /\ IF at = "found" /\ Cardinality(Invalid) < MaxInvalid THEN To("bag") ELSE Fails
    /\ UNCHANGED <<stats, snap>> /\ UNCHANGED tables
-----------------------------------------------------------------------------
(* The sbi codes, see SbiCodes *)

SbiClear == /\ At("cbs_sbi", "start") /\ hier' = {} /\ To("load")
            /\ UNCHANGED <<hr, loc, code, map, ds, stats, snap>>

SbiLoad ==
    /\ At("cbs_sbi", "load")
    /\ \/ \E c \in Official \ hier : hier' = hier \cup {c} /\ To("load")
       \/ hier = Official /\ Succeeds /\ UNCHANGED hier
    /\ UNCHANGED <<hr, loc, code, map, ds, stats, snap>>

\* the repairs read the hierarchy: what is not in it is not found
Repairable == {a \in Act : hr # "empty" /\ code[a] # Repaired[a] /\ Repaired[a] \in hier}

SbiRepair ==
    /\ At("cbs_sbi_validate", "start")
    /\ \/ \E a \in Repairable : code' = [code EXCEPT ![a] = Repaired[a]] /\ To("start")
       \/ Repairable = {} /\ Succeeds /\ UNCHANGED code
    /\ UNCHANGED <<hr, loc, hier, map, ds, stats, snap>>
-----------------------------------------------------------------------------
(* fill_geo_table: one delete and two inserts, with nothing that binds them *)

GeoNoCodes == /\ At("geovestigingen", "start") /\ hier = {} /\ Fails
              /\ UNCHANGED <<stats, snap>> /\ UNCHANGED tables

\* mutant: the table is not emptied
KeptRows == map

NoRows == EmptyBag

GeoDelete ==
    /\ At("geovestigingen", "start") /\ hier # {}
    /\ map' = NoRows /\ snap' = [ves |-> VesRows, mac |-> MacRows] /\ To("ves")
    /\ UNCHANGED <<hr, loc, code, hier, ds, stats>>

GeoVes == /\ At("geovestigingen", "ves")
          /\ map' = map (+) SetToBag(VesRows) /\ To("mac")
          /\ UNCHANGED <<hr, loc, code, hier, ds, stats, snap>>

GeoMac == /\ At("geovestigingen", "mac")
          /\ map' = map (+) SetToBag(MacRows) /\ To("stats")
          /\ UNCHANGED <<hr, loc, code, hier, ds, stats, snap>>
-----------------------------------------------------------------------------
(* --dataselectie, see DataSelectie, and --validate_import *)

\* by hand in one part, which empties the table; the script's three parts do not
DsStart ==
    /\ At("dataselectie", "start")
    /\ ds' = (IF script = "running" THEN ds ELSE {})
    /\ IF script = "running" /\ ds \cap Wanted # {} THEN Fails ELSE To("store")
    /\ UNCHANGED <<hr, loc, code, hier, map, stats, snap>>

DsStore ==
    /\ At("dataselectie", "store")
    /\ \/ \E S \in SUBSET (Wanted \ ds) : S # {} /\ ds' = ds \cup S /\ To("store")
       \/ Wanted \subseteq ds /\ Succeeds /\ UNCHANGED ds
    /\ UNCHANGED <<hr, loc, code, hier, map, stats, snap>>

\* mutant: a count only has to be positive
AnyCount == map # EmptyBag /\ hr # "empty" /\ ds # {}

\* check_table_counts, of hr_geovestigingen and of the tables that are sets here; the
\* links that an orphaned conversion has lost are in none of these counts
TableCounts == /\ BagCardinality(map) >= GeoTarget - TOL /\ map # EmptyBag
               /\ hr # "empty" /\ Cardinality(ds) >= Cardinality(Insc \ Ended) - TOL /\ ds # {}

MissingOf(e) == {l \in Addresses(e) \cap InAdam : loc[l].geo = NULL}
NoGeo == {x \in Ves \X Loc :
             x[2] \in MissingOf(x[1]) /\ (x[1] \notin Ended \/ x[2] = Bezoek[x[1]])}
NoGeoBezoek == {x \in NoGeo : x[1] \notin Ended /\ x[2] = Bezoek[x[1]]}

\* check_sub_counts: strictly between 0 and the bound, so that none missing is an error
SubCounts == \A S \in {NoGeo, NoGeoBezoek} : 0 < Cardinality(S) /\ Cardinality(S) < MaxMissing

Accept == /\ At("validate_import", "start") /\ TableCounts /\ SubCounts /\ To("stats")
          /\ UNCHANGED <<stats, snap>> /\ UNCHANGED tables

Reject == /\ At("validate_import", "start") /\ ~(TableCounts /\ SubCounts) /\ Fails
          /\ UNCHANGED <<stats, snap>> /\ UNCHANGED tables

Command == \/ BeginFails \/ WriteStats
           \/ MksStart \/ MksConvert \/ MksAssert \/ FillWithBag
           \/ ClearSearch \/ SearchOne \/ SearchEnd
           \/ SbiClear \/ SbiLoad \/ SbiRepair
           \/ GeoNoCodes \/ GeoDelete \/ GeoVes \/ GeoMac
           \/ DsStart \/ DsStore \/ Accept \/ Reject

Next == Command \/ Kill \/ ScriptNext \/ ScriptStart \/ ManualCommand \/ NewDatabase

Spec == Init /\ [][Next]_vars

\* a command that runs goes on, and the shell with the next one
FairSpec == Spec /\ WF_vars(Command) /\ WF_vars(ScriptNext)
-----------------------------------------------------------------------------
(* Properties *)

\* Every variable stays in its range, and a location that was corrected has a point.
TypeOK ==
    /\ hr \in {"empty", "partial", "full", "orphaned"}
    /\ loc \in [Loc -> Row] /\ \A l \in Loc : loc[l].corr = "true" => loc[l].geo # NULL
    /\ code \in [Act -> Official \cup {RawCode[a] : a \in Act}]
    /\ \A a \in Act : code[a] \in {RawCode[a], Repaired[a]}
    /\ hier \subseteq Official /\ IsABag(map) /\ ds \subseteq Insc
    /\ stats \in {"ok", "torn"} /\ cmd \in Manual \cup {"none"}
    /\ at \in {"start", "fails", "convert", "bag", "assert", "stats", "found", "load", "ves", "mac", "store"}
    /\ script \in {"idle", "running", "done", "failed"}
    /\ place \in 1..(Len(Script) + 1)
    /\ count \in [manual : Nat, scripts : Nat]
    /\ DOMAIN snap = {"ves", "mac"}

\* The map is one fill of the geo table: nothing, the vestigingen, or all of what the
\* tables held when it began, every row once; also after commands that were killed,
\* and whatever was changed in the tables since (743, 820, 897).
MapIsOneFill == map \in {EmptyBag, SetToBag(snap.ves), SetToBag(snap.ves) (+) SetToBag(snap.mac)}

Whole == map = SetToBag(VesRows) (+) SetToBag(MacRows)

\* A script that ends well leaves a map that is the join of the tables as they are now,
\* with every code as the validation makes it and a complete hierarchy, although it stops and starts on
\* whatever earlier scripts, commands by hand and kills have left (set -e, and the
\* order of the steps in docker-import.sh 18-60).
DoneMeansFresh ==
    script = "done" => /\ Whole /\ hier = Official /\ code = [a \in Act |-> Repaired[a]]
                       /\ ds = Insc \ Ended

\* --validate_import does not accept a map of which the fill was broken off after
\* the vestigingen: without the maatschappelijke activiteiten it is too small (129).
HalfMapNoticed ==
    [][Accept => map = SetToBag(snap.ves) (+) SetToBag(snap.mac)]_vars

\* A file of counts that was broken off (handelsregister_stats.py 344) is read by every
\* later command as it starts (16-21): until a new database nothing is done any more,
\* no table is changed and no script ends well, whatever is run or killed.
TornStops ==
    [][stats = "torn" =>
          Empty' \/ (UNCHANGED <<hr, loc, code, hier, map, ds, stats>> /\ script' # "done")]_vars
=============================================================================
