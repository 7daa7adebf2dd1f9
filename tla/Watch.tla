------------------------------- MODULE Watch --------------------------------
(***************************************************************************)
(* How one contract gets into the database and stays true there: calls of   *)
(* watchContract, the checks of the daemon, which refresh its entries, and  *)
(* the discovery of keys from footprints. Each is a process of its own on   *)
(* the same tables, and no transaction joins their statements: a process    *)
(* may fail, or another one act, between any two of them.                   *)
(*                                                                         *)
(* The contract may exist on several networks under the same keys. A row    *)
(* carries, as history, the network its TTL was read from. The ledger that   *)
(* the contract was last checked at, and who reads it, are in module Status. *)
(***************************************************************************)
EXTENDS Integers, FiniteSets

CONSTANTS
    Networks, NoNetwork,
    Keys, Instance, Wasm,   \* entries of the contract; Wasm need not be one
    Watchers,               \* calls of watchContract
    NetworkOf,              \* the network each call is for
    ManualKeys,             \* storageKeys of each call
    Forced,                 \* calls with forceRefresh
    NoIntrospection,        \* calls with noIntrospection
    Scans,                  \* calls of discoverStorageKeys
    ScanNetwork,
    Daemons,                \* the networks a daemon runs for
    Footprints,             \* keys of the contract in each recent transaction
    CacheAge,               \* 24 hours, in ledgers
    FirstTTL,               \* live-until ledger of every entry at first
    Extendable,             \* bound: the entries that somebody extends
    MaxNow, MaxInFlight     \* bounds: ledgers, watches under way together

ASSUME WatchAssumption ==
    /\ NoNetwork \notin Networks
    /\ Instance \in Keys
    /\ NetworkOf \in [Watchers -> Networks]
    /\ ManualKeys \in [Watchers -> SUBSET Keys]
    /\ Daemons \subseteq Networks
    /\ Extendable \subseteq Networks \X Keys
    /\ ScanNetwork \in [Scans -> Networks]
    /\ Footprints \subseteq SUBSET Keys
    /\ CacheAge \in Nat /\ FirstTTL \in Nat
    /\ MaxNow \in Nat /\ MaxInFlight \in Nat

VARIABLES
    now,        \* the current ledger
    until,      \* the chain: live-until ledger of each entry on each network
    contract,   \* the row of table contracts
    rows,       \* table contract_entries
    watch,      \* locals and result of each call of watchContract
    check,      \* each daemon: locals of processContract
    scan,       \* locals of each discovery
    mixed       \* history: watches of two networks were under way together

vars == <<now, until, contract, rows, watch, check, scan, mixed>>

Null == -1
Ledger == Nat \cup {Null}

NoRow == [ledger |-> Null, of |-> NoNetwork]
Tracked == {k \in Keys : rows[k].of # NoNetwork}
NothingRead == [k \in Keys |-> Null]

Reads == {"instance", "wasm", "manual", "declared"}

\* The call reads, then stores the contract, its entries and the stamp.
Stages == {"idle", "read", "contract", "entries", "stamp", "done"}
Results == {"none", "failed", "cached", "fresh"}

WatchType ==
    [at : Stages, pending : SUBSET Reads, got : [Keys -> Ledger],
     left : SUBSET Keys, result : Results]

CheckType ==
    [at : {"idle", "asked", "entries"}, keys : SUBSET Keys, got : [Keys -> Ledger]]

ScanType == [at : {"idle", "scanning", "done"}, known : SUBSET Keys, left : SUBSET Footprints]

TypeOK ==
    /\ now \in 0 .. MaxNow
    /\ until \in [Networks -> [Keys -> Nat]]
    /\ contract \in [network : Networks \cup {NoNetwork}, stamp : Ledger]
    /\ rows \in [Keys -> {NoRow} \cup [ledger : Nat, of : Networks]]
    /\ watch \in [Watchers -> WatchType]
    /\ check \in [Daemons -> CheckType]
    /\ scan \in [Scans -> ScanType]
    /\ mixed \in BOOLEAN

NoCall == [at |-> "idle", pending |-> {}, got |-> NothingRead,
           left |-> {}, result |-> "none"]
NoCheck == [at |-> "idle", keys |-> {}, got |-> NothingRead]

Init ==
    /\ now = 0
    /\ until = [n \in Networks |-> [k \in Keys |-> FirstTTL]]
    /\ contract = [network |-> NoNetwork, stamp |-> Null]
    /\ rows = [k \in Keys |-> NoRow]
    /\ watch = [w \in Watchers |-> NoCall]
    /\ check = [n \in Daemons |-> NoCheck]
    /\ scan = [d \in Scans |-> [at |-> "idle", known |-> {}, left |-> {}]]
    /\ mixed = FALSE

chain == <<now, until>>
tables == <<contract, rows>>

-----------------------------------------------------------------------------
(* The chain (external).                                                    *)

\* In each ledger somebody may extend some entries, or restore them.
LedgerCloses ==
    /\ now < MaxNow
    /\ now' = now + 1
    /\ \E S \in SUBSET Extendable :
           until' = [n \in Networks |-> [k \in Keys |->
                        IF <<n, k>> \in S THEN now + 1 + FirstTTL ELSE until[n][k]]]
    /\ UNCHANGED <<tables, watch, check, scan, mixed>>

Alive(n, k) == until[n][k] >= now

\* What getLedgerEntries may answer about K: live entries, and archived ones or not.
Answers(n, K) ==
    {[k \in Keys |-> IF k \in S THEN until[n][k] ELSE Null] :
        S \in {T \in SUBSET K : \A k \in K : Alive(n, k) => k \in T}}

Merged(f, g) == [k \in Keys |-> IF g[k] # Null THEN g[k] ELSE f[k]]

Got(f) == {k \in Keys : f[k] # Null}

-----------------------------------------------------------------------------
(* The tables.                                                              *)

\* Mutant of Upsert: a row that exists is left as it is.
UpsertIgnores(k, ledger, n) ==
    rows' = [rows EXCEPT ![k] = IF k \in Tracked THEN @ ELSE [ledger |-> ledger, of |-> n]]

\* INSERT ... ON CONFLICT DO UPDATE: the last writer wins.
Upsert(k, ledger, n) == rows' = [rows EXCEPT ![k] = [ledger |-> ledger, of |-> n]]

\* The stamp is less than CacheAge old.
IsIntrospectionCacheValid == contract.stamp # Null /\ now - contract.stamp < CacheAge

-----------------------------------------------------------------------------
(* watchContract.                                                           *)

Wanted(w) ==
    {"instance"} \cup
    (IF Wasm \in Keys /\ w \notin NoIntrospection THEN {"wasm"} ELSE {}) \cup
    (IF ManualKeys[w] # {} THEN {"manual"} ELSE {}) \cup
    (IF w \notin NoIntrospection THEN {"declared"} ELSE {})

KeysOf(w, r) ==
    CASE r = "instance" -> {Instance}
      [] r = "wasm"     -> {Wasm}
      [] r = "manual"   -> ManualKeys[w]

Before == [instance |-> {}, wasm |-> {"instance"}, manual |-> {"instance", "wasm"},
           declared |-> {"instance", "wasm", "manual"}]

Awaits(w, r) ==
    /\ watch[w].at = "read"
    /\ r \in watch[w].pending
    /\ Before[r] \cap watch[w].pending = {}

InFlight(w) == watch[w].at \notin {"idle", "done"}

Continues(w, locals) == watch' = [watch EXCEPT ![w] = locals]

Returns(w, result) == Continues(w, [NoCall EXCEPT !.at = "done", !.result = result])

WatchRefused(w) ==
    /\ watch[w].at = "idle"
    /\ contract.network \notin {NoNetwork, NetworkOf[w]}
    /\ Returns(w, "failed")
    /\ UNCHANGED <<chain, tables, check, scan, mixed>>

WatchCached(w) ==
    /\ watch[w].at = "idle"
    /\ contract.network = NetworkOf[w]
    /\ w \notin Forced
    /\ IsIntrospectionCacheValid
    /\ Returns(w, "cached")
    /\ UNCHANGED <<chain, tables, check, scan, mixed>>

\* Mutant of MayWatch: the network of the registration is not looked at.
MayWatchAnywhere(w) == w \in Forced \/ ~ IsIntrospectionCacheValid

MayWatch(w) ==
    /\ contract.network \in {NoNetwork, NetworkOf[w]}
    /\ w \in Forced \/ ~ IsIntrospectionCacheValid

WatchStarts(w) ==
    /\ watch[w].at = "idle"
    /\ MayWatch(w)
    /\ Cardinality({v \in Watchers : InFlight(v)}) < MaxInFlight
    /\ Continues(w, [watch[w] EXCEPT !.at = "read", !.pending = Wanted(w)])
    /\ mixed' = (mixed \/ \E v \in Watchers : InFlight(v) /\ NetworkOf[v] # NetworkOf[w])
    /\ UNCHANGED <<chain, tables, check, scan>>

\* The next await, or, after the last one, the first statement.
Reading(w, r, got) ==
    [watch[w] EXCEPT
        !.pending = @ \ {r},
        !.got = Merged(@, got),
        !.at = IF watch[w].pending = {r} THEN "contract" ELSE "read"]

EntriesArrive(w, r) ==
    /\ Awaits(w, r)
    /\ r # "declared"
    /\ \E got \in Answers(NetworkOf[w], KeysOf(w, r)) :
           \/ r = "instance" /\ got[Instance] = Null /\ Returns(w, "failed")
           \/ /\ r = "instance" => got[Instance] # Null
              /\ Continues(w, Reading(w, r, got))
    /\ UNCHANGED <<chain, tables, check, scan, mixed>>

\* get_monitored_keys returns values (ScVal); getEntryTTLs decodes ledger keys, which
\* no value is, so it throws and introspection is skipped, as it is when the
\* contract has no such function or the simulation fails.
DeclaredSkipped(w) ==
    /\ Awaits(w, "declared")
    /\ Continues(w, Reading(w, "declared", NothingRead))
    /\ UNCHANGED <<chain, tables, check, scan, mixed>>

\* Mutant of StoresContract: the stamp is written with the contract.
StoresContractStamped(w) ==
    /\ watch[w].at = "contract"
    /\ contract' = [contract EXCEPT !.network = NetworkOf[w], !.stamp = now]
    /\ Continues(w, [watch[w] EXCEPT !.at = "entries", !.left = Got(watch[w].got)])
    /\ UNCHANGED <<chain, rows, check, scan, mixed>>

StoresContract(w) ==
    /\ watch[w].at = "contract"
    /\ contract' = [contract EXCEPT !.network = NetworkOf[w]]
    /\ Continues(w, [watch[w] EXCEPT !.at = "entries", !.left = Got(watch[w].got)])
    /\ UNCHANGED <<chain, rows, check, scan, mixed>>

\* The instance first, then the code, then the manual keys in the order given.
StoresEntry(w, k) ==
    /\ watch[w].at = "entries"
    /\ k \in watch[w].left
    /\ k # Instance => Instance \notin watch[w].left
    /\ k \notin {Instance, Wasm} => Wasm \notin watch[w].left
    /\ Upsert(k, watch[w].got[k], NetworkOf[w])
    /\ Continues(w, [watch[w] EXCEPT !.left = @ \ {k},
                                      !.at = IF watch[w].left = {k} THEN "stamp" ELSE @])
    /\ UNCHANGED <<chain, contract, check, scan, mixed>>

Stamps(w) ==
    /\ watch[w].at = "stamp"
    /\ contract' = [contract EXCEPT !.stamp = now]
    /\ Continues(w, [watch[w] EXCEPT !.at = "done", !.result = "fresh"])
    /\ UNCHANGED <<chain, rows, check, scan, mixed>>

\* An await rejects, a statement throws, or the process ends. The await of declared
\* keys is in a try of its own, but the process may end there too.
WatchFails(w) ==
    /\ InFlight(w)
    /\ Returns(w, "failed")
    /\ UNCHANGED <<chain, tables, check, scan, mixed>>

-----------------------------------------------------------------------------
(* The daemon: processContract without its alerts.                          *)

CheckStarts(n) ==
    /\ check[n].at = "idle"
    /\ contract.network = n
    /\ Tracked # {}
    /\ check' = [check EXCEPT ![n] = [NoCheck EXCEPT !.at = "asked", !.keys = Tracked]]
    /\ UNCHANGED <<chain, tables, watch, scan, mixed>>

CheckAnswered(n) ==
    /\ check[n].at = "asked"
    /\ \E got \in Answers(n, check[n].keys) :
           check' = [check EXCEPT ![n] =
                        IF Got(got) = {} THEN NoCheck
                        ELSE [at |-> "entries", keys |-> Got(got), got |-> got]]
    /\ UNCHANGED <<chain, tables, watch, scan, mixed>>

CheckStoresEntry(n, k) ==
    /\ check[n].at = "entries"
    /\ k \in check[n].keys
    /\ Upsert(k, check[n].got[k], n)
    /\ check' = [check EXCEPT ![n] =
                    IF check[n].keys = {k} THEN NoCheck
                    ELSE [check[n] EXCEPT !.keys = @ \ {k}]]
    /\ UNCHANGED <<chain, contract, watch, scan, mixed>>

\* The request rejects, a statement throws, or the daemon is restarted.
CheckFails(n) ==
    /\ check[n].at # "idle"
    /\ check' = [check EXCEPT ![n] = NoCheck]
    /\ UNCHANGED <<chain, tables, watch, scan, mixed>>

-----------------------------------------------------------------------------
(* discoverStorageKeys.                                                     *)

\* The known keys are read before the events and transactions are awaited.
ScanStarts(d) ==
    /\ scan[d].at = "idle"
    /\ contract.network = ScanNetwork[d]
    /\ scan' = [scan EXCEPT ![d] = [at |-> "scanning", known |-> Tracked, left |-> Footprints]]
    /\ UNCHANGED <<chain, tables, watch, check, mixed>>

\* The unknown keys of a footprint get a row with a TTL of 0. The last insert may
\* throw; its key counts as known all the same, and the rest is skipped. A transaction
\* that cannot be fetched or decoded is skipped as well. The last one ends the scan.
FootprintArrives(d, f) ==
    /\ scan[d].at = "scanning"
    /\ f \in scan[d].left
    /\ \E stored \in SUBSET (f \ scan[d].known) :
       \E known \in SUBSET (f \ scan[d].known) :
           /\ stored \subseteq known
           /\ \/ stored = f \ scan[d].known
              \/ Cardinality(known \ stored) = 1
              \/ known = {}
           /\ rows' = [k \in Keys |->
                          IF k \in stored THEN [ledger |-> 0, of |-> ScanNetwork[d]] ELSE rows[k]]
           /\ scan' = [scan EXCEPT ![d] =
                        IF scan[d].left = {f} THEN [at |-> "done", known |-> {}, left |-> {}]
                        ELSE [scan[d] EXCEPT !.known = @ \cup known, !.left = @ \ {f}]]
    /\ UNCHANGED <<chain, contract, watch, check, mixed>>

\* There were no transactions, or a request rejects, or the process ends.
ScanEnds(d) ==
    /\ scan[d].at = "scanning"
    /\ scan' = [scan EXCEPT ![d] = [at |-> "done", known |-> {}, left |-> {}]]
    /\ UNCHANGED <<chain, tables, watch, check, mixed>>

-----------------------------------------------------------------------------
WatchStep(w) ==
    \/ WatchRefused(w) \/ WatchCached(w) \/ WatchStarts(w)
    \/ \E r \in Reads : EntriesArrive(w, r)
    \/ DeclaredSkipped(w)
    \/ StoresContract(w)
    \/ \E k \in Keys : StoresEntry(w, k)
    \/ Stamps(w)

CheckStep(n) ==
    \/ CheckStarts(n) \/ CheckAnswered(n)
    \/ \E k \in Keys : CheckStoresEntry(n, k)

ScanStep(d) ==
    \/ ScanStarts(d)
    \/ \E f \in Footprints : FootprintArrives(d, f)
    \/ ScanEnds(d)

Next ==
    \/ LedgerCloses
    \/ \E w \in Watchers : WatchStep(w) \/ WatchFails(w)
    \/ \E n \in Daemons : CheckStep(n) \/ CheckFails(n)
    \/ \E d \in Scans : ScanStep(d)

Spec == Init /\ [][Next]_vars

-----------------------------------------------------------------------------
(* Properties.                                                              *)

Completed(w) ==
    /\ watch[w].result = "fresh"
    /\ Instance \in Got(watch[w].got)
    /\ Got(watch[w].got) \subseteq Tracked

\* A contract is not taken for introspected before some watch stored all it had
\* read, the instance at least, wherever other watches failed: the stamp is the
\* last statement, and an answer from the cache rests on it.
CacheIsEarned ==
    (contract.stamp # Null \/ \E w \in Watchers : watch[w].result = "cached")
        => \E w \in Watchers : Completed(w) /\ (mixed \/ NetworkOf[w] = contract.network)

\* "rejects re-watch on a different network" (tests/core/watch.test.ts): a contract
\* and all its rows are of one network, unless watches of two networks overlap, both
\* begun before either had registered it.
NetworkIsolation ==
    ~ mixed => \A k \in Tracked : rows[k].of = contract.network

\* A registered contract does not move to another network.
NetworkStays ==
    [][~ mixed' /\ contract.network # NoNetwork => contract'.network = contract.network]_vars
=============================================================================
