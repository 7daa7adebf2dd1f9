------------------------------- MODULE Status -------------------------------
(***************************************************************************)
(* What `sorokeep status`, `sorokeep check` and the MCP tools say of a       *)
(* contract. They ask no node: they subtract the ledger the contract was     *)
(* last checked at from the live-until ledger of its rows. Watches and the   *)
(* daemon write the two in statements of their own, in opposite orders: a    *)
(* check stores its ledger before the entries, a watch after them.           *)
(*                                                                         *)
(* The steps are those of Watch; here they carry the ledger of the answer.   *)
(* An extension and a restoration, which read their entries again and write   *)
(* the ledger after them, are left out.                                      *)
(***************************************************************************)
EXTENDS Watch

CONSTANTS
    FailUnder,          \* --fail-under of `sorokeep check`
    Critical, Warning   \* the bounds of classifyTTL: 5000 and 20000 ledgers

ASSUME StatusAssumption ==
    /\ FailUnder \in Nat
    /\ Critical \in Nat /\ Warning \in Nat /\ Critical <= Warning
    /\ Watchers \cap Daemons = {}

VARIABLES
    checked,    \* contracts.last_checked_ledger
    latest      \* latestLedger of an answer whose ledger is not stored yet

statusVars == <<vars, checked, latest>>

Callers == Watchers \cup Daemons

StatusTypeOK ==
    /\ TypeOK
    /\ checked \in Ledger
    /\ latest \in [Callers -> Ledger]

StatusInit ==
    /\ Init
    /\ checked = Null
    /\ latest = [c \in Callers |-> Null]

Holds(c, ledger) == latest' = [latest EXCEPT ![c] = ledger]

\* updateLastCheckedLedger: whoever writes last, with the older answer or the newer.
UpdateLastCheckedLedger(c) ==
    /\ latest[c] # Null
    /\ checked' = latest[c]
    /\ Holds(c, Null)
    /\ UNCHANGED vars

-----------------------------------------------------------------------------
(* A watch holds the ledger of its first answer until all rows are stored.   *)

WatchReads(w) ==
    /\ \E r \in Reads :
        /\ EntriesArrive(w, r)
        /\ Holds(w, IF watch'[w].at = "done" THEN Null
                    ELSE IF r = "instance" THEN now ELSE latest[w])
    /\ UNCHANGED checked

WatchActs(w) ==
    /\ \/ WatchRefused(w) \/ WatchCached(w) \/ WatchStarts(w)
       \/ DeclaredSkipped(w)
       \/ StoresContract(w)
       \/ \E k \in Keys : StoresEntry(w, k)
       \/ Stamps(w) /\ latest[w] = Null
    /\ UNCHANGED <<checked, latest>>

WatchStoresLedger(w) ==
    /\ watch[w].at = "stamp"
    /\ UpdateLastCheckedLedger(w)

WatchStops(w) ==
    /\ WatchFails(w)
    /\ Holds(w, Null)
    /\ UNCHANGED checked

-----------------------------------------------------------------------------
(* A check stores the ledger of its answer first, with no entries as well.   *)

CheckBegins(n) ==
    /\ CheckStarts(n)
    /\ latest[n] = Null
    /\ UNCHANGED <<checked, latest>>

CheckReads(n) ==
    /\ CheckAnswered(n)
    /\ Holds(n, now)
    /\ UNCHANGED checked

CheckStoresLedger(n) == UpdateLastCheckedLedger(n)

CheckStores(n, k) ==
    /\ CheckStoresEntry(n, k)
    /\ latest[n] = Null
    /\ UNCHANGED <<checked, latest>>

CheckStops(n) ==
    /\ CheckFails(n)
    /\ Holds(n, Null)
    /\ UNCHANGED checked

-----------------------------------------------------------------------------
(* The reports.                                                             *)

RemainingTTL(k) == rows[k].ledger - checked

ClassifyTTL(remaining) ==
    IF remaining <= 0 THEN "expired"
    ELSE IF remaining < Critical THEN "critical"
    ELSE IF remaining < Warning THEN "warning"
    ELSE "ok"

\* getContractStatus, for a contract that is registered: the status of each entry.
ContractStatus ==
    [k \in Tracked |-> IF checked = Null THEN "unknown" ELSE ClassifyTTL(RemainingTTL(k))]

Statuses == {ContractStatus[k] : k \in Tracked}

\* list_watched_contracts: the worst status of the entries.
Health ==
    IF "expired" \in Statuses THEN "expired"
    ELSE IF "critical" \in Statuses THEN "critical"
    ELSE IF "warning" \in Statuses THEN "warning"
    ELSE IF "ok" \in Statuses THEN "ok"
    ELSE "unknown"

\* `sorokeep check --fail-under` exits with 0. Before a first check nothing is known,
\* and that passes.
CheckPasses ==
    /\ contract.network # NoNetwork
    /\ checked = Null \/ \A k \in Tracked : RemainingTTL(k) >= FailUnder

-----------------------------------------------------------------------------
Outside ==
    /\ \/ LedgerCloses
       \/ \E d \in Scans : ScanStep(d)
    /\ UNCHANGED <<checked, latest>>

StatusNext ==
    \/ Outside
    \/ \E w \in Watchers :
           WatchReads(w) \/ WatchActs(w) \/ WatchStoresLedger(w) \/ WatchStops(w)
    \/ \E n \in Daemons :
           \/ CheckBegins(n) \/ CheckReads(n) \/ CheckStoresLedger(n) \/ CheckStops(n)
           \/ \E k \in Keys : CheckStores(n, k)

StatusSpec == StatusInit /\ [][StatusNext]_statusVars

\* As in Watch: a daemon checks again and again, and a node that is asked for ever
\* answers for ever.
FairStatusSpec ==
    /\ StatusSpec
    /\ \A n \in Daemons :
        /\ WF_statusVars(CheckBegins(n))
        /\ SF_statusVars(CheckReads(n))
        /\ SF_statusVars(CheckStoresLedger(n))
        /\ \A k \in Keys : SF_statusVars(CheckStores(n, k))

-----------------------------------------------------------------------------
(* Properties.                                                              *)

TTLNow(k) == until[contract.network][k] - now

\* Rows and ledgers from stale answers, rows blanked by a discovery that had not seen
\* them, and a ledger newer than the rows do not stay: where a daemon runs, the TTL of
\* every live entry is in the end the one that is shown, the check fails if and only if
\* an entry is below the limit, and the health that is listed tells entries that run out.
ReportsConverge ==
    <>[](contract.network \in Daemons /\ Tracked # {} =>
            /\ \A k \in Tracked :
                   Alive(contract.network, k) => RemainingTTL(k) = TTLNow(k)
            /\ CheckPasses <=> \A k \in Tracked : TTLNow(k) >= FailUnder
            /\ Health = "expired" <=> \E k \in Tracked : TTLNow(k) <= 0)
=============================================================================
