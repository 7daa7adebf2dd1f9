----------------------------- MODULE CostLedger -----------------------------
(***************************************************************************)
(* The cost books of one contract: extension_history, the daily snapshots   *)
(* every daemon makes of the days that are over, and the reports that read  *)
(* both. A daemon queries the rows of the closed days and then stores them  *)
(* in a transaction of its own; another process may record an extension or  *)
(* import a backup in between, and a day may end at any moment.            *)
(*                                                                         *)
(* Every sum of XLM in the code runs over the rows its COUNT counts, and    *)
(* extendEntries leaves cost_xlm NULL; the counts stand for the sums.      *)
(***************************************************************************)
EXTENDS Integers, Sequences, FiniteSets, FiniteSetsExt, SequencesExt, RentProjection

CONSTANTS
    Entries,        \* rows of contract_entries
    EntryOrder,     \* in the order the table has them
    TypeOf,         \* their entry_type
    LabelOf,        \* their label or, without one, their type; discovery gives
                    \* one label to rows of every durability
    Sizes,          \* values of mem_bytes
    NoSize,         \* mem_bytes is NULL
    DefaultSize,    \* DEFAULT_ENTRY_SIZE_BYTES
    DayLength,      \* moments in a day
    Daemons,        \* daemon processes on this database
    MaxNow,         \* bound: moments
    MaxRows,        \* bound: extensions
    MaxRestores,    \* bound: imports
    MaxFailures     \* bound: failed or killed aggregations

Types == {TypeOf[e] : e \in Entries}

ASSUME CostAssumption ==
    /\ IsFiniteSet(Entries)
    /\ EntryOrder \in Seq(Entries)
    /\ ToSet(EntryOrder) = Entries
    /\ DayLength \in Nat \ {0}
    /\ {MaxNow, MaxRows, MaxRestores, MaxFailures, DefaultSize} \subseteq Nat
    /\ Sizes \subseteq Nat \ {0}
    /\ NoSize \notin Nat

VARIABLES
    now,        \* moments since the first day began
    executed,   \* every extension recorded so far, in order
    history,    \* the ids of the rows extension_history still has
    snapshots,  \* cost_daily_snapshots: day -> extensions by type
    reading,    \* the daemons between the query and the transaction
    rows,       \* what they read
    raced,      \* a backup was imported between such a read and its write
    restores,   \* imports so far, for the bound
    failures    \* failed aggregations so far, for the bound

costVars == <<now, executed, history, snapshots, reading, rows, raced, restores, failures>>

Day(moment) == moment \div DayLength
Today == Day(now)

ExtensionRow == [entry : Entries, at : Nat, size : Sizes \cup {NoSize}]
Counts == [Types -> Nat]
IsSnapshots(s) == DOMAIN s \subseteq Nat /\ \A d \in DOMAIN s : s[d] \in Counts

CostTypeOK ==
    /\ now \in 0 .. MaxNow
    /\ executed \in Seq(ExtensionRow)
    /\ history \subseteq DOMAIN executed
    /\ IsSnapshots(snapshots)
    /\ reading \subseteq Daemons
    /\ \A p \in Daemons : IsSnapshots(rows[p])
    /\ raced \in BOOLEAN
    /\ restores \in 0 .. MaxRestores
    /\ failures \in 0 .. MaxFailures

CostInit ==
    /\ now = 0
    /\ executed = << >>
    /\ history = {}
    /\ snapshots = << >>
    /\ reading = {}
    /\ rows = [p \in Daemons |-> << >>]
    /\ raced = FALSE
    /\ restores = 0
    /\ failures = 0

-----------------------------------------------------------------------------
(* Writers.                                                                *)

Tick ==
    /\ now < MaxNow
    /\ now' = now + 1
    /\ UNCHANGED <<executed, history, snapshots, reading, rows, raced, restores, failures>>

\* extendEntries: one transaction, a row for each entry that was answered.
RecordExtension(S, size) ==
    /\ Len(executed) + Cardinality(S) <= MaxRows
    /\ executed' = executed \o
           [i \in 1 .. Cardinality(S) |->
               [entry |-> SetToSeq(S)[i], at |-> now, size |-> size]]
    /\ history' = history \cup (DOMAIN executed' \ DOMAIN executed)
    /\ UNCHANGED <<now, snapshots, reading, rows, raced, restores, failures>>

\* The rows S by the type of their entry.
ByType(S) == [t \in Types |-> Cardinality({i \in S : TypeOf[executed[i].entry] = t})]

OfDay(d) == {i \in history : Day(executed[i].at) = d}

\* Mutant of IsClosed: only yesterday is.
IsClosedYesterday(d) == d = Today - 1

IsClosed(d) == d < Today

\* The query of aggregateDailyCostSnapshots, outside its transaction.
AggregateReads(p) ==
    /\ p \notin reading
    /\ reading' = reading \cup {p}
    /\ rows' = [rows EXCEPT ![p] =
           [d \in {Day(executed[i].at) : i \in {j \in history : IsClosed(Day(executed[j].at))}}
               |-> ByType(OfDay(d))]]
    /\ UNCHANGED <<now, executed, history, snapshots, raced, restores, failures>>

\* Mutant of Updated: the conflict adds to the row instead of replacing it.
UpdatedByAdding(old, new) == [t \in Types |-> old[t] + new[t]]

Updated(old, new) == new

\* Its transaction: one upsert per row read.
AggregateWrites(p) ==
    /\ p \in reading
    /\ reading' = reading \ {p}
    /\ snapshots' = [d \in DOMAIN rows[p] \cup DOMAIN snapshots |->
           CASE d \notin DOMAIN rows[p] -> snapshots[d]
             [] d \notin DOMAIN snapshots -> rows[p][d]
             [] OTHER -> Updated(snapshots[d], rows[p][d])]
    /\ rows' = [rows EXCEPT ![p] = << >>]
    /\ UNCHANGED <<now, executed, history, raced, restores, failures>>

\* The transaction throws (the cycle catches it) or the process dies.
AggregateFails(p) ==
    /\ p \in reading
    /\ reading' = reading \ {p}
    /\ failures < MaxFailures
    /\ failures' = failures + 1
    /\ rows' = [rows EXCEPT ![p] = << >>]
    /\ UNCHANGED <<now, executed, history, snapshots, raced, restores>>

\* importDatabase of a backup that has the contract: the rows it deletes take
\* extension_history and cost_daily_snapshots with them.
ImportBackup ==
    /\ restores < MaxRestores
    /\ restores' = restores + 1
    /\ history' = {}
    /\ snapshots' = << >>
    /\ raced' = (raced \/ reading # {})
    /\ UNCHANGED <<now, executed, reading, rows, failures>>

CostNext ==
    \/ Tick
    \/ \E S \in SUBSET Entries \ {{}}, size \in Sizes \cup {NoSize} : RecordExtension(S, size)
    \/ ImportBackup
    \/ \E p \in Daemons : AggregateReads(p) \/ AggregateWrites(p) \/ AggregateFails(p)

CostSpec == CostInit /\ [][CostNext]_costVars

\* A daemon ends its cycle with an aggregation, cycle after cycle.
CostFairness ==
    \A p \in Daemons : WF_costVars(AggregateReads(p)) /\ WF_costVars(AggregateWrites(p))

CostFairSpec == CostSpec /\ CostFairness

-----------------------------------------------------------------------------
(* Readers.                                                                *)

All == 0    \* no number of days: the whole table

\* getExtensionHistory: a window that rolls with the clock.
ExtensionHistory(days) ==
    IF days = All THEN history
    ELSE {i \in history : executed[i].at >= now - days * DayLength}

\* Mutant of FirstDay: one day too many.
FirstDayEarly(days) == Today - days

\* The first calendar day of a summary over so many days.
FirstDay(days) == Today - Max({days - 1, 0})

\* getCostDailySnapshots: the days of the snapshots in the window.
DailySnapshots(days) == {d \in DOMAIN snapshots : days = All \/ d >= FirstDay(days)}

\* The sum over the days D of what their snapshots count of type t: each count
\* as so many numbers, told apart by the day.
SnapshotSum(D, t) == Cardinality(UNION {{d} \X (1 .. snapshots[d][t]) : d \in D})

\* getContractCostSummary: the snapshots of the window and the rows of today.
CostSummary(days) ==
    [t \in Types |-> SnapshotSum(DailySnapshots(days), t) + ByType(OfDay(Today))[t]]

\* getExtensionCosts, for a period of the costs command or all time. Its
\* recentExtensions are the rows themselves, newest first.
ExtensionCosts(days) ==
    [total |-> Cardinality(ExtensionHistory(days)),
     byEntryType |-> ByType(ExtensionHistory(days))]

\* ORDER BY executed_at DESC: of rows of one moment any may come first.
Newest(S) == CHOOSE i \in S : \A j \in S : executed[i].at >= executed[j].at

\* The last mem_bytes stored for an entry, or the default.
KnownSizes(e) == {i \in history : executed[i].entry = e /\ executed[i].size # NoSize}
SizeOf(e) == IF KnownSizes(e) = {} THEN DefaultSize ELSE executed[Newest(KnownSizes(e))].size

\* entries.find
FirstOf(S) == EntryOrder[Min({k \in DOMAIN EntryOrder : EntryOrder[k] \in S})]

\* The entry the costs command takes a row for: the first that shows under the
\* label of the extended one. It need not be of the same type.
ShownAs(i) == FirstOf({e \in Entries : LabelOf[e] = LabelOf[executed[i].entry]})

\* Mutant of SizedBy: what is found for a row counts for the type of that row.
SizedByRow(days, type) ==
    ShownAs(Newest({i \in ExtensionHistory(days) : TypeOf[executed[i].entry] = type}))

\* The entry a type is forecast with: by the first loop, the one that the newest
\* row taken for an entry of that type is taken for; where there is no such row, by
\* the second loop, the first entry of the type.
SizedBy(days, type) ==
    LET shown == {i \in ExtensionHistory(days) : TypeOf[ShownAs(i)] = type}
    IN  IF shown # {} THEN ShownAs(Newest(shown))
        ELSE FirstOf({e \in Entries : TypeOf[e] = type})

EntrySize(days, type) == SizeOf(SizedBy(days, type))

ActiveTypes(days) == {t \in Types : ExtensionCosts(days).byEntryType[t] > 0}

\* The Forecasted Rent section of the costs command, which --all does not show.
Forecast(days) == [t \in ActiveTypes(days) |-> RentWindows(EntrySize(days, t), t)]

-----------------------------------------------------------------------------

Leq(a, b) == \A t \in Types : a[t] <= b[t]

\* Budgets are judged by the summary, so it must never count an extension that
\* was not executed in its window, or twice: not while two daemons aggregate,
\* an aggregation is cut short or a backup is imported, nor at midnight.
NeverOverstates ==
    \A days \in Windows \cup {All} :
        Leq(CostSummary(days),
            ByType({i \in DOMAIN executed : days = All \/ Day(executed[i].at) >= FirstDay(days)}))

\* What the two reports say of the same period fits: budget status counts
\* calendar days and costs counts hours, so the one lies between the other's
\* totals for the period and the period less a day. This is so whenever every
\* closed day is stored.
Stored == ~ raced /\ \A i \in history : Day(executed[i].at) \in DOMAIN snapshots \cup {Today}
ReportsAgree ==
    Stored => \A days \in Windows :
                  /\ Leq(CostSummary(days), ExtensionCosts(days).byEntryType)
                  /\ Leq(ExtensionCosts(days).byEntryType, CostSummary(days + 1))
                  /\ Leq(CostSummary(All), ExtensionCosts(All).byEntryType)
                  /\ Leq(ExtensionCosts(All).byEntryType, CostSummary(All))

\* What the table has seen of the sizes of entries of a type.
SeenSizes(t) ==
    {executed[i].size : i \in {j \in history : TypeOf[executed[j].entry] = t}} \ {NoSize}

\* The forecast of a type goes by the default or by a size that was observed at
\* an entry of that very type, although sizes are looked up by labels and labels
\* are shared between types. It is never below the rent formula for that size; a
\* budget that a window exceeds is exceeded by every longer one; and a window is
\* never dearer than the shorter windows it is made of.
ForecastIsSound ==
    \A days \in Windows : \A t \in ActiveTypes(days) :
        LET fee == Forecast(days)[t]
            size == EntrySize(days, t)
        IN  /\ \A w \in Windows :
                   fee[w] * (IF IsCode(t) THEN CodeDiscount ELSE 1)
                       * Increment * Rate(t) * LedgersDen
                       >= size * FeePerIncrement * w * LedgersNum
            /\ size \in SeenSizes(t) \cup {DefaultSize}
            /\ \A u, v, w \in Windows :
                   v < w /\ v \in OverBudget(size, t, fee[u]) => w \in OverBudget(size, t, fee[u])
            /\ \A v, w \in Windows : w % v = 0 => fee[w] <= (w \div v) * fee[v]

\* Every closed day with extensions is stored in the end, however many days
\* the daemons were down or failed, or a backup replaced the table.
DaysAreClosed ==
    \A d \in 0 .. Day(MaxNow) :
        (d < Today /\ OfDay(d) # {}) ~> (d \in DOMAIN snapshots \/ OfDay(d) = {})

=============================================================================
