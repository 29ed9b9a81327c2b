------------------------- MODULE ImportPipelineProofs -------------------------
(***************************************************************************)
(* Theorems about ImportPipeline, for every dump, every hierarchy and any  *)
(* number of scripts, commands by hand and kills.                          *)
(***************************************************************************)
EXTENDS ImportPipeline, TLAPS

-----------------------------------------------------------------------------
(* Bags *)

LEMMA SetIsBag == ASSUME NEW S PROVE IsABag(SetToBag(S))
BY SMT DEF IsABag, SetToBag

LEMMA SumIsBag ==
    ASSUME NEW B, NEW C, IsABag(B), IsABag(C)
    PROVE  IsABag(B (+) C)
BY SMT DEF IsABag, (+)

\* What is inserted into an empty table is all there is.
LEMMA EmptyPlus == ASSUME NEW S PROVE EmptyBag (+) SetToBag(S) = SetToBag(S)
BY SMT DEF EmptyBag, SetToBag, (+)

-----------------------------------------------------------------------------
\* The join is a function of the tables it reads.
LEMMA RowsSame ==
    ASSUME UNCHANGED <<hr, loc, code, hier>>
    PROVE  VesRows' = VesRows /\ MacRows' = MacRows
BY DEF VesRows, MacRows, OnMap, Addresses, GeoRow

-----------------------------------------------------------------------------
(* The invariant *)

\* A fill of the geo table that is under way has kept to the rows it is to store, which
\* are those of the tables as they are, since nothing else runs beside it.
Fill ==
    /\ at \in {"ves", "mac"} => /\ cmd = "geovestigingen"
                               /\ snap = [ves |-> VesRows, mac |-> MacRows]
    /\ at = "ves" => map = EmptyBag
    /\ at = "mac" => map = SetToBag(snap.ves)

\* The script is at the command that runs, and the file of counts is written by the
\* commands that end with it.
Running ==
    /\ script = "running" /\ cmd # "none" => place \in 1..7 /\ cmd = Script[place]
    /\ script = "done" => cmd = "none"
    /\ cmd # "none" /\ at = "stats" =>
           cmd \in {"mks", "search", "bag", "geovestigingen", "validate_import"}

\* What the commands that have ended before the present one have left: all that the
\* later ones rely on, and none of it is changed by one of them.
RepairedCodes == [a \in Act |-> Repaired[a]]
Behind(p) ==
    /\ p >= 2 => hr = "full"
    /\ p >= 3 => hier = Official
    /\ p >= 4 => code = RepairedCodes
    /\ p >= 6 => Whole
    /\ p >= 7 => ds = Insc \ Ended

Progress ==
    /\ cmd = "mks" /\ at \in {"bag", "assert", "stats"} => hr = "full"
    /\ cmd = "geovestigingen" /\ at = "stats" => Whole
    /\ ds \subseteq Insc \ Ended
    /\ script = "running" => Behind(place)
    /\ script = "done" => Behind(8)
-----------------------------------------------------------------------------
(* Types *)

ControlOK ==
    /\ stats \in {"ok", "torn"} /\ cmd \in Manual \cup {"none"}
    /\ at \in {"start", "fails", "convert", "bag", "assert", "stats", "found", "load", "ves", "mac", "store"}
    /\ script \in {"idle", "running", "done", "failed"}
    /\ place \in 1..(Len(Script) + 1)
    /\ count \in [manual : Nat, scripts : Nat]

TablesOK ==
    /\ hr \in {"empty", "partial", "full", "orphaned"}
    /\ loc \in [Loc -> Row] /\ \A l \in Loc : loc[l].corr = "true" => loc[l].geo # NULL
    /\ code \in [Act -> Official \cup {RawCode[a] : a \in Act}]
    /\ \A a \in Act : code[a] \in {RawCode[a], Repaired[a]}
    /\ hier \subseteq Official /\ IsABag(map) /\ ds \subseteq Insc
    /\ DOMAIN snap = {"ves", "mac"}

LEMMA TypeParts == TypeOK <=> ControlOK /\ TablesOK
BY DEF TypeOK, ControlOK, TablesOK

LEMMA SevenCommands ==
    /\ Len(Script) = 7
    /\ Script[1] = "mks" /\ Script[2] = "cbs_sbi" /\ Script[3] = "cbs_sbi_validate"
    /\ Script[4] = "search" /\ Script[5] = "geovestigingen" /\ Script[6] = "dataselectie"
    /\ Script[7] = "validate_import"
BY DEF Script

LEMMA ScriptIsManual == \A k \in 1..7 : Script[k] \in Manual /\ Script[k] # "none"
BY SevenCommands DEF Manual, Script

\* The control part keeps its range, and a script that runs is where its command is.
LEMMA ControlStep ==
    ASSUME ControlOK, Running, [Next]_vars
    PROVE  ControlOK' /\ Running'
<1> USE SevenCommands, ScriptIsManual DEF ControlOK, Running
<1>1. CASE BeginFails
    BY <1>1 DEF BeginFails, To, At, Succeeds, Fails, Stops, Begin, Idle, tables
<1>2. CASE WriteStats
    BY <1>2 DEF WriteStats, To, At, Succeeds, Fails, Stops, Begin, Idle, tables
<1>3. CASE MksStart
    BY <1>3 DEF MksStart, To, At, Succeeds, Fails, Stops, Begin, Idle, tables
<1>4. CASE MksConvert
    BY <1>4 DEF MksConvert, To, At, Succeeds, Fails, Stops, Begin, Idle, tables
<1>5. CASE MksAssert
    BY <1>5 DEF MksAssert, To, At, Succeeds, Fails, Stops, Begin, Idle, tables
<1>6. CASE FillWithBag
    BY <1>6 DEF FillWithBag, To, At, Succeeds, Fails, Stops, Begin, Idle, tables
<1>7. CASE ClearSearch
    BY <1>7 DEF ClearSearch, To, At, Succeeds, Fails, Stops, Begin, Idle, tables
<1>8. CASE SearchOne
    BY <1>8 DEF SearchOne, To, At, Succeeds, Fails, Stops, Begin, Idle, tables
<1>9. CASE SearchEnd
    BY <1>9 DEF SearchEnd, To, At, Succeeds, Fails, Stops, Begin, Idle, tables
<1>10. CASE SbiClear
    BY <1>10 DEF SbiClear, To, At, Succeeds, Fails, Stops, Begin, Idle, tables
<1>11. CASE SbiLoad
    BY <1>11 DEF SbiLoad, To, At, Succeeds, Fails, Stops, Begin, Idle, tables
<1>12. CASE SbiRepair
    BY <1>12 DEF SbiRepair, To, At, Succeeds, Fails, Stops, Begin, Idle, tables
<1>13. CASE GeoNoCodes
    BY <1>13 DEF GeoNoCodes, To, At, Succeeds, Fails, Stops, Begin, Idle, tables
<1>14. CASE GeoDelete
    BY <1>14 DEF GeoDelete, To, At, Succeeds, Fails, Stops, Begin, Idle, tables
<1>15. CASE GeoVes
    BY <1>15 DEF GeoVes, To, At, Succeeds, Fails, Stops, Begin, Idle, tables
<1>16. CASE GeoMac
    BY <1>16 DEF GeoMac, To, At, Succeeds, Fails, Stops, Begin, Idle, tables
<1>17. CASE DsStart
    BY <1>17 DEF DsStart, To, At, Succeeds, Fails, Stops, Begin, Idle, tables
<1>18. CASE DsStore
    BY <1>18 DEF DsStore, To, At, Succeeds, Fails, Stops, Begin, Idle, tables
<1>19. CASE Accept
    BY <1>19 DEF Accept, To, At, Succeeds, Fails, Stops, Begin, Idle, tables
<1>20. CASE Reject
    BY <1>20 DEF Reject, To, At, Succeeds, Fails, Stops, Begin, Idle, tables
<1>21. CASE Kill
    BY <1>21 DEF Kill, To, At, Succeeds, Fails, Stops, Begin, Idle, tables
<1>22. CASE ScriptNext
    BY <1>22 DEF ScriptNext, To, At, Succeeds, Fails, Stops, Begin, Idle, tables
<1>23. CASE ScriptStart
    BY <1>23 DEF ScriptStart, To, At, Succeeds, Fails, Stops, Begin, Idle, tables
<1>24. CASE ManualCommand
    BY <1>24 DEF ManualCommand, To, At, Succeeds, Fails, Stops, Begin, Idle, tables
<1>25. CASE NewDatabase
    BY <1>25 DEF NewDatabase, To, At, Succeeds, Fails, Stops, Begin, Idle, tables
<1>26. CASE UNCHANGED vars
    BY <1>26 DEF vars, tables, To, At, Succeeds, Fails, Stops, Begin, Idle, tables
<1> QED
    BY <1>1, <1>2, <1>3, <1>4, <1>5, <1>6, <1>7, <1>8, <1>9, <1>10, <1>11, <1>12, <1>13, <1>14, <1>15, <1>16, <1>17, <1>18, <1>19, <1>20, <1>21, <1>22, <1>23, <1>24, <1>25, <1>26 DEF Next, Command

LEMMA EmptyIsBag == IsABag(EmptyBag)
BY SetIsBag DEF EmptyBag

\* The tables keep their range: where a search, a fill or a conversion writes a
\* location, one that counts as corrected has a point.
LEMMA TablesStep ==
    ASSUME TablesOK, [Next]_vars
    PROVE  TablesOK'
<1> USE DEF TablesOK
<1>1. CASE BeginFails
    BY <1>1 DEF BeginFails, tables
<1>2. CASE WriteStats
    BY <1>2 DEF WriteStats, tables
<1>3. CASE MksStart
    BY <1>3 DEF MksStart, tables
<1>4. CASE MksConvert
    BY <1>4, PipelineAssumption DEF MksConvert, Row, tables
<1>5. CASE MksAssert
    BY <1>5 DEF MksAssert, tables
<1>6. CASE FillWithBag
    BY <1>6, PipelineAssumption DEF FillWithBag, Row, Rows, tables
<1>7. CASE ClearSearch
    BY <1>7 DEF ClearSearch, Row, Cleared, tables
<1>8. CASE SearchOne
    <2>1. PICK l \in Invalid :
             \/ loc' = [loc EXCEPT ![l] = [id |-> BAG, geo |-> BAG, corr |-> "true"]]
             \/ loc' = [loc EXCEPT ![l].corr = "false"]
        BY <1>8 DEF SearchOne
    <2>2. l \in Loc
        BY <2>1 DEF Invalid, Rows
    <2>3. NULL # BAG
        BY PipelineAssumption
    <2>4. loc' \in [Loc -> Row] /\ \A m \in Loc : loc'[m].corr = "true" => loc'[m].geo # NULL
        <3>1. CASE loc' = [loc EXCEPT ![l] = [id |-> BAG, geo |-> BAG, corr |-> "true"]]
            BY <3>1, <2>2, <2>3 DEF Row
        <3>2. CASE loc' = [loc EXCEPT ![l].corr = "false"]
            BY <3>2, <2>2 DEF Row
        <3> QED
            BY <3>1, <3>2, <2>1
    <2> QED
        BY <2>4, <1>8 DEF SearchOne
<1>9. CASE SearchEnd
    BY <1>9 DEF SearchEnd, tables
<1>10. CASE SbiClear
    BY <1>10 DEF SbiClear, tables
<1>11. CASE SbiLoad
    BY <1>11 DEF SbiLoad, tables
<1>12. CASE SbiRepair
    BY <1>12, PipelineAssumption DEF SbiRepair, Repairable, tables
<1>13. CASE GeoNoCodes
    BY <1>13 DEF GeoNoCodes, tables
<1>14. CASE GeoDelete
    BY <1>14, EmptyIsBag DEF GeoDelete, NoRows, tables
<1>15. CASE GeoVes
    BY <1>15, SetIsBag, SumIsBag DEF GeoVes, tables
<1>16. CASE GeoMac
    BY <1>16, SetIsBag, SumIsBag DEF GeoMac, tables
<1>17. CASE DsStart
    BY <1>17 DEF DsStart, Insc, tables
<1>18. CASE DsStore
    BY <1>18 DEF DsStore, Wanted, tables
<1>19. CASE Accept
    BY <1>19 DEF Accept, tables
<1>20. CASE Reject
    BY <1>20 DEF Reject, tables
<1>21. CASE Kill
    BY <1>21 DEF Kill, At, tables
<1>22. CASE ScriptNext
    BY <1>22 DEF ScriptNext, tables
<1>23. CASE ScriptStart
    BY <1>23 DEF ScriptStart, tables
<1>24. CASE ManualCommand
    BY <1>24 DEF ManualCommand, tables
<1>25. CASE NewDatabase
    BY <1>25, PipelineAssumption, EmptyIsBag DEF NewDatabase, Row, tables
<1>26. CASE UNCHANGED vars
    BY <1>26 DEF vars, tables, tables
<1> QED
    BY <1>1, <1>2, <1>3, <1>4, <1>5, <1>6, <1>7, <1>8, <1>9, <1>10, <1>11, <1>12, <1>13, <1>14, <1>15, <1>16, <1>17, <1>18, <1>19, <1>20, <1>21, <1>22, <1>23, <1>24, <1>25, <1>26 DEF Next, Command

-----------------------------------------------------------------------------
(* The geo table *)

\* Between its three statements a fill is alone with the tables.
LEMMA FillStep ==
    ASSUME Fill, [Next]_vars
    PROVE  Fill'
<1>a. at' \notin {"ves", "mac"} => Fill'
    BY DEF Fill
<1>b. cmd = "none" => at \notin {"ves", "mac"}
    BY DEF Fill
<1>1. CASE BeginFails
    BY <1>1, <1>a, <1>b DEF BeginFails, To, At, Succeeds, Fails, Begin, Idle
<1>2. CASE WriteStats
    BY <1>2, <1>a, <1>b DEF WriteStats, To, At, Succeeds, Fails, Begin, Idle
<1>3. CASE MksStart
    BY <1>3, <1>a, <1>b DEF MksStart, To, At, Succeeds, Fails, Begin, Idle
<1>4. CASE MksConvert
    BY <1>4, <1>a, <1>b DEF MksConvert, To, At, Succeeds, Fails, Begin, Idle
<1>5. CASE MksAssert
    BY <1>5, <1>a, <1>b DEF MksAssert, To, At, Succeeds, Fails, Begin, Idle
<1>6. CASE FillWithBag
    BY <1>6, <1>a, <1>b DEF FillWithBag, To, At, Succeeds, Fails, Begin, Idle
<1>7. CASE ClearSearch
    BY <1>7, <1>a, <1>b DEF ClearSearch, To, At, Succeeds, Fails, Begin, Idle
<1>8. CASE SearchOne
    BY <1>8, <1>a, <1>b DEF SearchOne, To, At, Succeeds, Fails, Begin, Idle
<1>9. CASE SearchEnd
    BY <1>9, <1>a, <1>b DEF SearchEnd, To, At, Succeeds, Fails, Begin, Idle
<1>10. CASE SbiClear
    BY <1>10, <1>a, <1>b DEF SbiClear, To, At, Succeeds, Fails, Begin, Idle
<1>11. CASE SbiLoad
    BY <1>11, <1>a, <1>b DEF SbiLoad, To, At, Succeeds, Fails, Begin, Idle
<1>12. CASE SbiRepair
    BY <1>12, <1>a, <1>b DEF SbiRepair, To, At, Succeeds, Fails, Begin, Idle
<1>13. CASE GeoNoCodes
    BY <1>13, <1>a, <1>b DEF GeoNoCodes, To, At, Succeeds, Fails, Begin, Idle
<1>14. CASE GeoDelete
    <2>1. VesRows' = VesRows /\ MacRows' = MacRows
        BY <1>14, RowsSame DEF GeoDelete
    <2> QED
        BY <1>14, <2>1 DEF GeoDelete, Fill, To, At, NoRows
<1>15. CASE GeoVes
    <2>1. VesRows' = VesRows /\ MacRows' = MacRows
        BY <1>15, RowsSame DEF GeoVes
    <2>2. map' = SetToBag(snap.ves)
        BY <1>15, EmptyPlus DEF GeoVes, Fill, At
    <2> QED
        BY <1>15, <2>1, <2>2 DEF GeoVes, Fill, To, At
<1>16. CASE GeoMac
    BY <1>16, <1>a, <1>b DEF GeoMac, To, At, Succeeds, Fails, Begin, Idle
<1>17. CASE DsStart
    BY <1>17, <1>a, <1>b DEF DsStart, To, At, Succeeds, Fails, Begin, Idle
<1>18. CASE DsStore
    BY <1>18, <1>a, <1>b DEF DsStore, To, At, Succeeds, Fails, Begin, Idle
<1>19. CASE Accept
    BY <1>19, <1>a, <1>b DEF Accept, To, At, Succeeds, Fails, Begin, Idle
<1>20. CASE Reject
    BY <1>20, <1>a, <1>b DEF Reject, To, At, Succeeds, Fails, Begin, Idle
<1>21. CASE Kill
    BY <1>21, <1>a, <1>b DEF Kill, To, At, Succeeds, Fails, Begin, Idle
<1>22. CASE ScriptNext
    BY <1>22, <1>a, <1>b DEF ScriptNext, To, At, Succeeds, Fails, Begin, Idle
<1>23. CASE ScriptStart
    BY <1>23, <1>a, <1>b DEF ScriptStart, To, At, Succeeds, Fails, Begin, Idle
<1>24. CASE ManualCommand
    BY <1>24, <1>a, <1>b DEF ManualCommand, To, At, Succeeds, Fails, Begin, Idle
<1>25. CASE NewDatabase
    BY <1>25, <1>a, <1>b DEF NewDatabase, To, At, Succeeds, Fails, Begin, Idle
<1>26. CASE UNCHANGED vars
    BY <1>26, RowsSame DEF vars, tables, Fill
<1> QED
    BY <1>1, <1>2, <1>3, <1>4, <1>5, <1>6, <1>7, <1>8, <1>9, <1>10, <1>11, <1>12, <1>13, <1>14, <1>15, <1>16, <1>17, <1>18, <1>19, <1>20, <1>21, <1>22, <1>23, <1>24, <1>25, <1>26 DEF Next, Command

\* Whatever is on the map was put there by one fill, from its start.
LEMMA OneFillStep ==
    ASSUME MapIsOneFill, Fill, [Next]_vars
    PROVE  MapIsOneFill'
<1> USE DEF MapIsOneFill
<1>1. CASE BeginFails
    BY <1>1 DEF BeginFails, tables
<1>2. CASE WriteStats
    BY <1>2 DEF WriteStats, tables
<1>3. CASE MksStart
    BY <1>3 DEF MksStart, tables
<1>4. CASE MksConvert
    BY <1>4 DEF MksConvert, tables
<1>5. CASE MksAssert
    BY <1>5 DEF MksAssert, tables
<1>6. CASE FillWithBag
    BY <1>6 DEF FillWithBag, tables
<1>7. CASE ClearSearch
    BY <1>7 DEF ClearSearch, tables
<1>8. CASE SearchOne
    BY <1>8 DEF SearchOne, tables
<1>9. CASE SearchEnd
    BY <1>9 DEF SearchEnd, tables
<1>10. CASE SbiClear
    BY <1>10 DEF SbiClear, tables
<1>11. CASE SbiLoad
    BY <1>11 DEF SbiLoad, tables
<1>12. CASE SbiRepair
    BY <1>12 DEF SbiRepair, tables
<1>13. CASE GeoNoCodes
    BY <1>13 DEF GeoNoCodes, tables
<1>14. CASE GeoDelete
    BY <1>14 DEF GeoDelete, NoRows, tables
<1>15. CASE GeoVes
    BY <1>15, EmptyPlus DEF GeoVes, Fill, At, tables
<1>16. CASE GeoMac
    BY <1>16 DEF GeoMac, Fill, At, tables
<1>17. CASE DsStart
    BY <1>17 DEF DsStart, tables
<1>18. CASE DsStore
    BY <1>18 DEF DsStore, tables
<1>19. CASE Accept
    BY <1>19 DEF Accept, tables
<1>20. CASE Reject
    BY <1>20 DEF Reject, tables
<1>21. CASE Kill
    BY <1>21 DEF Kill, tables
<1>22. CASE ScriptNext
    BY <1>22 DEF ScriptNext, tables
<1>23. CASE ScriptStart
    BY <1>23 DEF ScriptStart, tables
<1>24. CASE ManualCommand
    BY <1>24 DEF ManualCommand, tables
<1>25. CASE NewDatabase
    BY <1>25 DEF NewDatabase, tables
<1>26. CASE UNCHANGED vars
    BY <1>26 DEF vars, tables, tables
<1> QED
    BY <1>1, <1>2, <1>3, <1>4, <1>5, <1>6, <1>7, <1>8, <1>9, <1>10, <1>11, <1>12, <1>13, <1>14, <1>15, <1>16, <1>17, <1>18, <1>19, <1>20, <1>21, <1>22, <1>23, <1>24, <1>25, <1>26 DEF Next, Command
-----------------------------------------------------------------------------
(* The script *)

Alone == hr' = hr /\ loc' = loc /\ code' = code /\ hier' = hier /\ map' = map

LEMMA WholeStays == ASSUME Alone, Whole PROVE Whole'
BY RowsSame DEF Whole, Alone

LEMMA ProgressStep ==
    ASSUME TypeOK, Running, Fill, Progress, [Next]_vars
    PROVE  Progress'
<1> USE SevenCommands
<1>t. place \in 1..8 /\ hier \subseteq Official /\ code \in [Act -> Official \cup {RawCode[a] : a \in Act}]
    BY DEF TypeOK
<1>w. Alone => (Whole => Whole')
    BY WholeStays
<1>1. CASE BeginFails
    BY <1>1, <1>t, <1>w DEF BeginFails, Progress, Running, Behind, Alone, To, At, Succeeds, Fails, Stops, Begin, Idle, tables, Script
<1>2. CASE WriteStats
    BY <1>2, <1>t, <1>w DEF WriteStats, Progress, Running, Behind, Alone, To, At, Succeeds, Fails, Stops, Begin, Idle, tables, Script
<1>3. CASE MksStart
    BY <1>3, <1>t, <1>w DEF MksStart, Progress, Running, Behind, Alone, To, At, Succeeds, Fails, Stops, Begin, Idle, tables, Script
<1>4. CASE MksConvert
    BY <1>4, <1>t, <1>w DEF MksConvert, Progress, Running, Behind, Alone, To, At, Succeeds, Fails, Stops, Begin, Idle, tables, Script
<1>5. CASE MksAssert
    BY <1>5, <1>t, <1>w DEF MksAssert, Progress, Running, Behind, Alone, To, At, Succeeds, Fails, Stops, Begin, Idle, tables, Script
<1>6. CASE FillWithBag
    BY <1>6, <1>t, <1>w DEF FillWithBag, Progress, Running, Behind, Alone, To, At, Succeeds, Fails, Stops, Begin, Idle, tables, Script
<1>7. CASE ClearSearch
    BY <1>7, <1>t, <1>w DEF ClearSearch, Progress, Running, Behind, Alone, To, At, Succeeds, Fails, Stops, Begin, Idle, tables, Script
<1>8. CASE SearchOne
    BY <1>8, <1>t, <1>w DEF SearchOne, Progress, Running, Behind, Alone, To, At, Succeeds, Fails, Stops, Begin, Idle, tables, Script
<1>9. CASE SearchEnd
    BY <1>9, <1>t, <1>w DEF SearchEnd, Progress, Running, Behind, Alone, To, At, Succeeds, Fails, Stops, Begin, Idle, tables, Script
<1>10. CASE SbiClear
    BY <1>10, <1>t, <1>w DEF SbiClear, Progress, Running, Behind, Alone, To, At, Succeeds, Fails, Stops, Begin, Idle, tables, Script
<1>11. CASE SbiLoad
    BY <1>11, <1>t, <1>w DEF SbiLoad, Progress, Running, Behind, Alone, To, At, Succeeds, Fails, Stops, Begin, Idle, tables, Script
<1>12. CASE SbiRepair
    <2>1. CASE Repairable = {} /\ Succeeds /\ UNCHANGED code
        <3>1. hr = "full" /\ hier = Official => code = RepairedCodes
            <4> SUFFICES ASSUME hr = "full", hier = Official PROVE code = RepairedCodes
                OBVIOUS
            <4>1. \A a \in Act : code[a] = Repaired[a] \/ Repaired[a] \notin Official
                BY <2>1 DEF Repairable
            <4>2. \A a \in Act : code[a] \in {RawCode[a], Repaired[a]}
                BY DEF TypeOK
            <4>3. \A a \in Act : Repaired[a] \in Official \cup {RawCode[a]}
                BY PipelineAssumption
            <4>4. \A a \in Act : code[a] = Repaired[a]
                BY <4>1, <4>2, <4>3
            <4> QED
                BY <4>4, <1>t DEF RepairedCodes
        <3>2. Alone
            BY <1>12, <2>1 DEF SbiRepair, Alone
        <3> QED
            BY <1>12, <2>1, <3>1, <3>2, <1>t, <1>w DEF SbiRepair, Progress, Running, Behind, At, Succeeds, Script
    <2>2. CASE To("start")
        BY <1>12, <2>2, <1>t DEF SbiRepair, Progress, Running, Behind, At, To, Script
    <2> QED
        BY <1>12, <2>1, <2>2 DEF SbiRepair
<1>13. CASE GeoNoCodes
    BY <1>13, <1>t, <1>w DEF GeoNoCodes, Progress, Running, Behind, Alone, To, At, Succeeds, Fails, Stops, Begin, Idle, tables, Script
<1>14. CASE GeoDelete
    BY <1>14, <1>t, <1>w DEF GeoDelete, Progress, Running, Behind, Alone, To, At, Succeeds, Fails, Stops, Begin, Idle, tables, Script
<1>15. CASE GeoVes
    BY <1>15, <1>t, <1>w DEF GeoVes, Progress, Running, Behind, Alone, To, At, Succeeds, Fails, Stops, Begin, Idle, tables, Script
<1>16. CASE GeoMac
    BY <1>16, RowsSame, <1>t, <1>w DEF GeoMac, Fill, Whole, Progress, Running, Behind, Alone, To, At, Succeeds, Fails, Stops, Begin, Idle, tables, Script
<1>17. CASE DsStart
    BY <1>17, <1>t, <1>w DEF DsStart, Progress, Running, Behind, Alone, To, At, Succeeds, Fails, Stops, Begin, Idle, tables, Script
<1>18. CASE DsStore
    BY <1>18, <1>t, <1>w DEF DsStore, Wanted, Progress, Running, Behind, Alone, To, At, Succeeds, Fails, Stops, Begin, Idle, tables, Script
<1>19. CASE Accept
    BY <1>19, <1>t, <1>w DEF Accept, Progress, Running, Behind, Alone, To, At, Succeeds, Fails, Stops, Begin, Idle, tables, Script
<1>20. CASE Reject
    BY <1>20, <1>t, <1>w DEF Reject, Progress, Running, Behind, Alone, To, At, Succeeds, Fails, Stops, Begin, Idle, tables, Script
<1>21. CASE Kill
    BY <1>21, <1>t, <1>w DEF Kill, Progress, Running, Behind, Alone, To, At, Succeeds, Fails, Stops, Begin, Idle, tables, Script
<1>22. CASE ScriptNext
    BY <1>22, <1>t, <1>w DEF ScriptNext, Progress, Running, Behind, Alone, To, At, Succeeds, Fails, Stops, Begin, Idle, tables, Script
<1>23. CASE ScriptStart
    BY <1>23, <1>t, <1>w DEF ScriptStart, Progress, Running, Behind, Alone, To, At, Succeeds, Fails, Stops, Begin, Idle, tables, Script
<1>24. CASE ManualCommand
    BY <1>24, <1>t, <1>w DEF ManualCommand, Progress, Running, Behind, Alone, To, At, Succeeds, Fails, Stops, Begin, Idle, tables, Script
<1>25. CASE NewDatabase
    BY <1>25, <1>t, <1>w DEF NewDatabase, Progress, Running, Behind, Alone, To, At, Succeeds, Fails, Stops, Begin, Idle, tables, Script
<1>26. CASE UNCHANGED vars
    BY <1>26, <1>t, <1>w DEF vars, tables, Progress, Running, Behind, Alone, To, At, Succeeds, Fails, Stops, Begin, Idle, tables, Script
<1> QED
    BY <1>1, <1>2, <1>3, <1>4, <1>5, <1>6, <1>7, <1>8, <1>9, <1>10, <1>11, <1>12, <1>13, <1>14, <1>15, <1>16, <1>17, <1>18, <1>19, <1>20, <1>21, <1>22, <1>23, <1>24, <1>25, <1>26 DEF Next, Command

-----------------------------------------------------------------------------
(* A torn file of counts *)

\* Once the file is torn a command only starts in order to fail, and the script does not
\* come further than its first one.
Torn ==
    stats = "torn" => /\ cmd = "none" \/ at = "fails"
                      /\ script # "done"
                      /\ script = "running" => place = 1

\* What a step does when the file is torn.
Halted == Empty' \/ (UNCHANGED <<hr, loc, code, hier, map, ds, stats>> /\ script' # "done")

LEMMA TornStep ==
    ASSUME Running, Torn, [Next]_vars
    PROVE  Torn' /\ (stats = "torn" => Halted)
<1> USE SevenCommands DEF Torn
<1>1. CASE Command /\ stats = "torn"
    <2>1. cmd # "none" => at = "fails"
        BY <1>1
    <2>2. BeginFails
        BY <1>1, <2>1 DEF Command, WriteStats, MksStart, MksConvert, MksAssert, FillWithBag, ClearSearch, SearchOne, SearchEnd, SbiClear, SbiLoad, SbiRepair, GeoNoCodes, GeoDelete, GeoVes, GeoMac, DsStart, DsStore, Accept, Reject, At
    <2> QED
        BY <2>2 DEF BeginFails, Fails, Stops, Halted, tables
<1>2. CASE Command /\ stats # "torn"
    BY <1>2 DEF Command, BeginFails, WriteStats, MksStart, MksConvert, MksAssert, FillWithBag, ClearSearch, SearchOne, SearchEnd, SbiClear, SbiLoad, SbiRepair, GeoNoCodes, GeoDelete, GeoVes, GeoMac, DsStart, DsStore, Accept, Reject, tables
<1>3. CASE Kill
    BY <1>3 DEF Kill, At, Fails, Stops, Running, Halted
<1>4. CASE ScriptNext
    BY <1>4 DEF ScriptNext, Begin, Halted, tables
<1>5. CASE ScriptStart
    BY <1>5 DEF ScriptStart, Idle, Halted, tables
<1>6. CASE ManualCommand
    BY <1>6 DEF ManualCommand, Begin, Idle, Halted, tables
<1>7. CASE NewDatabase
    BY <1>7 DEF NewDatabase, Halted, Empty
<1>8. CASE UNCHANGED vars
    BY <1>8 DEF vars, Halted
<1> QED
    BY <1>1, <1>2, <1>3, <1>4, <1>5, <1>6, <1>7, <1>8 DEF Next

-----------------------------------------------------------------------------
(* Theorems *)

IInv == TypeOK /\ Fill /\ Running /\ MapIsOneFill /\ Progress /\ Torn

LEMMA InitIInv == ASSUME Init PROVE IInv
<1> USE DEF Init, Empty
<1>1. TypeOK
    <2>1. ControlOK
        BY SevenCommands DEF ControlOK
    <2>2. TablesOK
        BY PipelineAssumption, EmptyIsBag DEF TablesOK, Row
    <2> QED
        BY <2>1, <2>2, TypeParts
<1>2. Fill /\ Running /\ MapIsOneFill /\ Progress /\ Torn
    BY DEF Fill, Running, MapIsOneFill, Progress, Torn
<1> QED
    BY <1>1, <1>2 DEF IInv

LEMMA NextIInv == ASSUME IInv, [Next]_vars PROVE IInv'
<1>1. ControlOK' /\ Running'
    BY ControlStep, TypeParts DEF IInv
<1>2. TablesOK'
    BY TablesStep, TypeParts DEF IInv
<1>3. TypeOK'
    BY <1>1, <1>2 DEF TypeOK, ControlOK, TablesOK
<1>4. Fill' /\ MapIsOneFill' /\ Progress' /\ Torn'
    BY FillStep, OneFillStep, ProgressStep, TornStep DEF IInv
<1> QED
    BY <1>1, <1>3, <1>4 DEF IInv

\* Every variable stays in its range, whatever is killed and whatever commands are given.
THEOREM TypeCorrect == Spec => []TypeOK
<1>1. Init => IInv
    BY InitIInv
<1>2. IInv /\ [Next]_vars => IInv'
    BY NextIInv
<1>3. IInv => TypeOK
    BY DEF IInv
<1> QED
    BY <1>1, <1>2, <1>3, PTL DEF Spec

\* The map is one fill of the geo table (743, 820, 897), for any dump and any commands.
THEOREM OneFill == Spec => []MapIsOneFill
<1>1. Init => IInv
    BY InitIInv
<1>2. IInv /\ [Next]_vars => IInv'
    BY NextIInv
<1>3. IInv => MapIsOneFill
    BY DEF IInv
<1> QED
    BY <1>1, <1>2, <1>3, PTL DEF Spec

\* A script that ends well leaves the join of the present tables, however often it and
\* the commands of run_import were given or killed before (docker-import.sh 18-59).
THEOREM DoneIsFresh == Spec => []DoneMeansFresh
<1>1. Init => IInv
    BY InitIInv
<1>2. IInv /\ [Next]_vars => IInv'
    BY NextIInv
<1>3. IInv => DoneMeansFresh
    BY DEF IInv, Progress, Behind, DoneMeansFresh, RepairedCodes
<1> QED
    BY <1>1, <1>2, <1>3, PTL DEF Spec

\* A torn file of counts (handelsregister_stats.py 344, 16-21) stops everything until a
\* new database: no table is changed and no script ends well, for any dump.
THEOREM TornStopsAll == Spec => TornStops
<1>1. Init => IInv
    BY InitIInv
<1>2. IInv /\ [Next]_vars => IInv'
    BY NextIInv
<1>3. IInv /\ [Next]_vars => [stats = "torn" =>
          Empty' \/ (UNCHANGED <<hr, loc, code, hier, map, ds, stats>> /\ script' # "done")]_vars
    BY TornStep DEF IInv, Halted
<1> QED
    BY <1>1, <1>2, <1>3, PTL DEF Spec, TornStops
=============================================================================
