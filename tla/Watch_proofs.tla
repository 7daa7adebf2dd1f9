---------------------------- MODULE Watch_proofs ----------------------------
(* Proofs about Watch, for any keys, watches, discoveries, daemons and       *)
(* networks: what the cache stamp promises, and that a contract stays on its *)
(* network while watches of two networks do not overlap.                     *)
EXTENDS Status, TLAPS

USE DEF vars, chain, tables, Null

-----------------------------------------------------------------------------
(* What a step of a watch does to the locals of that call.                   *)

WatchesTyped == watch \in [Watchers -> WatchType]

\* Entries are stored with the TTL that was answered for them.
StoresAnswered ==
    /\ \A w \in Watchers : watch[w].left \subseteq Got(watch[w].got)
    /\ \A n \in Daemons : check[n].at = "entries" => check[n].keys \subseteq Got(check[n].got)

LEMMA ContinuesOne ==
  ASSUME WatchesTyped, NEW w \in Watchers, NEW r \in WatchType, Continues(w, r)
  PROVE  /\ WatchesTyped'
         /\ watch'[w] = r
         /\ \A v \in Watchers \ {w} : watch'[v] = watch[v]
BY DEF WatchesTyped, Continues

LEMMA ReturnsOne ==
  ASSUME WatchesTyped, NEW w \in Watchers, NEW res \in Results, Returns(w, res)
  PROVE  /\ WatchesTyped'
         /\ watch'[w].at = "done" /\ watch'[w].result = res
         /\ watch'[w].left = {} /\ watch'[w].got = NothingRead
         /\ \A v \in Watchers \ {w} : watch'[v] = watch[v]
<1>. DEFINE r == [NoCall EXCEPT !.at = "done", !.result = res]
<1>1. NothingRead \in [Keys -> Ledger]
  BY DEF NothingRead, Ledger
<1>2. /\ r \in WatchType /\ r.at = "done" /\ r.result = res
      /\ r.left = {} /\ r.got = NothingRead
  BY <1>1 DEF NoCall, WatchType, Stages, Results
<1>3. Continues(w, r)
  BY DEF Returns
<1>. HIDE DEF r
<1> QED
  BY <1>2, <1>3, ContinuesOne

\* The call starts to read.
Started(w) ==
    /\ watch[w].at = "idle" /\ MayWatch(w)
    /\ watch'[w].at = "read"
    /\ watch'[w].pending = Wanted(w)
    /\ watch'[w].got = watch[w].got
    /\ watch'[w].left = watch[w].left
    /\ watch'[w].result = watch[w].result
    /\ mixed' = (mixed \/ \E v \in Watchers : InFlight(v) /\ NetworkOf[v] # NetworkOf[w])
    /\ UNCHANGED <<contract, rows>>

\* It gets an answer.
Read(w) ==
    /\ watch[w].at = "read"
    /\ watch'[w].at \in {"read", "contract"}
    /\ watch'[w].at = "contract" => watch'[w].pending = {}
    /\ \E r \in watch[w].pending :
           /\ watch'[w].pending = watch[w].pending \ {r}
           /\ r = "instance" => watch'[w].got[Instance] # Null
    /\ watch[w].got[Instance] # Null => watch'[w].got[Instance] # Null
    /\ watch'[w].left = watch[w].left
    /\ Got(watch[w].got) \subseteq Got(watch'[w].got)
    /\ watch'[w].result = watch[w].result
    /\ UNCHANGED <<contract, rows, mixed>>

\* It stores the contract, an entry, the stamp.
StoredContract(w) ==
    /\ watch[w].at = "contract"
    /\ watch'[w].at = "entries"
    /\ watch'[w].got = watch[w].got
    /\ watch'[w].left = Got(watch[w].got)
    /\ watch'[w].result = watch[w].result
    /\ contract' = [contract EXCEPT !.network = NetworkOf[w]]
    /\ UNCHANGED <<rows, mixed>>

StoredEntry(w, k) ==
    /\ watch[w].at = "entries"
    /\ k \in watch[w].left
    /\ rows' = [rows EXCEPT ![k] = [ledger |-> watch[w].got[k], of |-> NetworkOf[w]]]
    /\ watch'[w].got = watch[w].got
    /\ watch'[w].left = watch[w].left \ {k}
    /\ \/ watch'[w].at = "entries"
       \/ watch'[w].at = "stamp" /\ watch'[w].left = {}
    /\ watch'[w].result = watch[w].result
    /\ UNCHANGED <<contract, mixed>>

Stamped(w) ==
    /\ watch[w].at = "stamp"
    /\ watch'[w].at = "done"
    /\ watch'[w].result = "fresh"
    /\ watch'[w].got = watch[w].got
    /\ watch'[w].left = watch[w].left
    /\ contract' = [contract EXCEPT !.stamp = now]
    /\ UNCHANGED <<rows, mixed>>

\* It returns without having stored everything.
Returned(w) ==
    /\ watch[w].at # "done"
    /\ watch'[w].at = "done"
    /\ watch'[w].result # "fresh"
    /\ watch'[w].result = "cached" =>
           contract.network = NetworkOf[w] /\ contract.stamp # Null
    /\ watch'[w].left = {}
    /\ UNCHANGED <<contract, rows, mixed>>

LEMMA AnswersTyped ==
  ASSUME TypeOK, NEW n \in Networks, NEW K, NEW got \in Answers(n, K)
  PROVE  got \in [Keys -> Ledger]
<1>1. PICK S \in SUBSET K : got = [k \in Keys |-> IF k \in S THEN until[n][k] ELSE Null]
  BY DEF Answers
<1>2. \A k \in Keys : until[n][k] \in Nat
  BY DEF TypeOK
<1> QED
  BY <1>1, <1>2 DEF Ledger

LEMMA ReadingTyped ==
  ASSUME TypeOK, NEW w \in Watchers, NEW r \in Reads, Awaits(w, r), NEW got \in [Keys -> Ledger],
         r = "instance" => got[Instance] # Null, Continues(w, Reading(w, r, got)),
         UNCHANGED <<contract, rows, mixed>>
  PROVE  WatchesTyped' /\ Read(w) /\ \A v \in Watchers \ {w} : watch'[v] = watch[v]
<1>. DEFINE q == Reading(w, r, got)
<1>1. watch[w] \in WatchType
  BY DEF TypeOK
<1>2. watch[w].got \in [Keys -> Ledger]
  BY <1>1 DEF WatchType
<1>3. Merged(watch[w].got, got) \in [Keys -> Ledger]
  BY <1>2 DEF Merged
<1>4. Got(watch[w].got) \subseteq Got(Merged(watch[w].got, got))
  BY DEF Merged, Got
<1>5. /\ r = "instance" => Merged(watch[w].got, got)[Instance] # Null
      /\ watch[w].got[Instance] # Null => Merged(watch[w].got, got)[Instance] # Null
  BY WatchAssumption DEF Merged
<1>6. /\ q \in WatchType
      /\ q.at = IF watch[w].pending = {r} THEN "contract" ELSE "read"
      /\ q.pending = watch[w].pending \ {r}
      /\ q.got = Merged(watch[w].got, got)
      /\ q.left = watch[w].left /\ q.result = watch[w].result
  BY <1>1, <1>3 DEF Reading, WatchType, Stages
<1>. HIDE DEF q
<1>7. Continues(w, q)
  BY DEF q
<1>8. /\ WatchesTyped' /\ watch'[w] = q
      /\ \A v \in Watchers \ {w} : watch'[v] = watch[v]
  BY <1>6, <1>7, ContinuesOne DEF TypeOK, WatchesTyped
<1>9. Read(w)
  BY <1>4, <1>5, <1>6, <1>8 DEF Read, Awaits
<1> QED
  BY <1>8, <1>9

LEMMA WatchEffect ==
  ASSUME TypeOK, NEW w \in Watchers, WatchStep(w) \/ WatchFails(w)
  PROVE  /\ WatchesTyped'
         /\ \A v \in Watchers \ {w} : watch'[v] = watch[v]
         /\ \/ Started(w) \/ Read(w) \/ StoredContract(w)
            \/ \E k \in Keys : StoredEntry(w, k)
            \/ Stamped(w) \/ Returned(w)
         /\ UNCHANGED <<now, until, check, scan>>
<1>0. WatchesTyped /\ watch[w] \in WatchType
  BY DEF TypeOK, WatchesTyped
<1>1. CASE WatchRefused(w)
  <2>1. Returned(w)
    BY <1>0, <1>1, ReturnsOne DEF WatchRefused, Returned, Results
  <2> QED
    BY <1>0, <1>1, <2>1, ReturnsOne DEF WatchRefused, Results
<1>2. CASE WatchCached(w)
  <2>1. Returned(w)
    BY <1>0, <1>2, ReturnsOne DEF WatchCached, Returned, Results, IsIntrospectionCacheValid
  <2> QED
    BY <1>0, <1>2, <2>1, ReturnsOne DEF WatchCached, Results
<1>3. CASE WatchFails(w)
  <2>1. Returned(w)
    BY <1>0, <1>3, ReturnsOne DEF WatchFails, InFlight, Returned, Results
  <2> QED
    BY <1>0, <1>3, <2>1, ReturnsOne DEF WatchFails, Results
<1>4. CASE WatchStarts(w)
  <2>. DEFINE r == [watch[w] EXCEPT !.at = "read", !.pending = Wanted(w)]
  <2>1. Wanted(w) \subseteq Reads
    BY DEF Wanted, Reads
  <2>2. /\ r \in WatchType /\ r.at = "read" /\ r.pending = Wanted(w)
        /\ r.got = watch[w].got /\ r.left = watch[w].left /\ r.result = watch[w].result
    BY <1>0, <2>1 DEF WatchType, Stages
  <2>3. Continues(w, r)
    BY <1>4 DEF WatchStarts
  <2>. HIDE DEF r
  <2>4. Started(w)
    BY <1>0, <1>4, <2>2, <2>3, ContinuesOne DEF WatchStarts, Started
  <2> QED
    BY <1>0, <1>4, <2>2, <2>3, <2>4, ContinuesOne DEF WatchStarts
<1>5. ASSUME NEW r \in Reads, EntriesArrive(w, r)
      PROVE  /\ WatchesTyped' /\ (Read(w) \/ Returned(w))
             /\ \A v \in Watchers \ {w} : watch'[v] = watch[v]
  <2>1. PICK got \in Answers(NetworkOf[w], KeysOf(w, r)) :
            \/ Returns(w, "failed")
            \/ /\ r = "instance" => got[Instance] # Null
               /\ Continues(w, Reading(w, r, got))
    BY <1>5 DEF EntriesArrive
  <2>2. got \in [Keys -> Ledger]
    BY <2>1, AnswersTyped, WatchAssumption
  <2>3. CASE Returns(w, "failed")
    BY <1>0, <1>5, <2>3, ReturnsOne DEF EntriesArrive, Awaits, Returned, Results
  <2>4. CASE /\ r = "instance" => got[Instance] # Null
             /\ Continues(w, Reading(w, r, got))
    <3>1. Awaits(w, r) /\ UNCHANGED <<contract, rows, mixed>>
      BY <1>5 DEF EntriesArrive
    <3> QED
      BY <2>2, <2>4, <3>1, ReadingTyped
  <2> QED
    BY <2>1, <2>3, <2>4
<1>6. CASE DeclaredSkipped(w)
  <2>1. "declared" \in Reads /\ NothingRead \in [Keys -> Ledger]
    BY DEF Reads, NothingRead, Ledger
  <2>2. /\ Awaits(w, "declared") /\ UNCHANGED <<contract, rows, mixed>>
        /\ Continues(w, Reading(w, "declared", NothingRead))
    BY <1>6 DEF DeclaredSkipped
  <2>3. WatchesTyped' /\ Read(w) /\ \A v \in Watchers \ {w} : watch'[v] = watch[v]
    BY <2>1, <2>2, ReadingTyped
  <2> QED
    BY <1>6, <2>3 DEF DeclaredSkipped
<1>7. CASE StoresContract(w)
  <2>. DEFINE r == [watch[w] EXCEPT !.at = "entries", !.left = Got(watch[w].got)]
  <2>1. /\ r \in WatchType /\ r.at = "entries" /\ r.left = Got(watch[w].got)
        /\ r.got = watch[w].got /\ r.result = watch[w].result
    BY <1>0 DEF WatchType, Stages, Got
  <2>2. Continues(w, r)
    BY <1>7 DEF StoresContract
  <2>. HIDE DEF r
  <2>3. StoredContract(w)
    BY <1>0, <1>7, <2>1, <2>2, ContinuesOne DEF StoresContract, StoredContract
  <2> QED
    BY <1>0, <1>7, <2>1, <2>2, <2>3, ContinuesOne DEF StoresContract
<1>8. ASSUME NEW k \in Keys, StoresEntry(w, k)
      PROVE  WatchesTyped' /\ StoredEntry(w, k) /\ \A v \in Watchers \ {w} : watch'[v] = watch[v]
  <2>. DEFINE r == [watch[w] EXCEPT !.left = @ \ {k},
                       !.at = IF watch[w].left = {k} THEN "stamp" ELSE @]
  <2>1. /\ r \in WatchType /\ r.left = watch[w].left \ {k}
        /\ r.at = IF watch[w].left = {k} THEN "stamp" ELSE watch[w].at
        /\ r.got = watch[w].got /\ r.result = watch[w].result
    BY <1>0 DEF WatchType, Stages
  <2>2. Continues(w, r)
    BY <1>8 DEF StoresEntry
  <2>. HIDE DEF r
  <2>3. StoredEntry(w, k)
    BY <1>0, <1>8, <2>1, <2>2, ContinuesOne DEF StoresEntry, StoredEntry, Upsert
  <2> QED
    BY <1>0, <2>1, <2>2, <2>3, ContinuesOne
<1>9. CASE Stamps(w)
  <2>. DEFINE r == [watch[w] EXCEPT !.at = "done", !.result = "fresh"]
  <2>1. /\ r \in WatchType /\ r.at = "done" /\ r.result = "fresh"
        /\ r.got = watch[w].got /\ r.left = watch[w].left
    BY <1>0 DEF WatchType, Stages, Results
  <2>2. Continues(w, r)
    BY <1>9 DEF Stamps
  <2>. HIDE DEF r
  <2>3. Stamped(w)
    BY <1>0, <1>9, <2>1, <2>2, ContinuesOne DEF Stamps, Stamped
  <2> QED
    BY <1>0, <1>9, <2>1, <2>2, <2>3, ContinuesOne DEF Stamps
<1>10. UNCHANGED <<now, until, check, scan>>
  BY DEF WatchStep, WatchRefused, WatchCached, WatchStarts, WatchFails, EntriesArrive,
     DeclaredSkipped, StoresContract, StoresEntry, Stamps
<1> QED
  BY <1>1, <1>2, <1>3, <1>4, <1>5, <1>6, <1>7, <1>8, <1>9, <1>10 DEF WatchStep

-----------------------------------------------------------------------------
(* Types.                                                                   *)

RowType == {NoRow} \cup [ledger : Nat, of : Networks]
ContractType == [network : Networks \cup {NoNetwork}, stamp : Ledger]

LEMMA GotIsLedger ==
  ASSUME NEW got \in [Keys -> Ledger], NEW k \in Got(got)
  PROVE  got[k] \in Nat
BY DEF Got, Ledger

LEMMA UpsertTyped ==
  ASSUME rows \in [Keys -> RowType], NEW k \in Keys, NEW l \in Nat, NEW n \in Networks,
         rows' = [rows EXCEPT ![k] = [ledger |-> l, of |-> n]]
  PROVE  rows' \in [Keys -> RowType]
BY DEF RowType

LEMMA TypesOfWatch ==
  ASSUME TypeOK, StoresAnswered, NEW w \in Watchers, WatchStep(w) \/ WatchFails(w)
  PROVE  TypeOK' /\ StoresAnswered'
<1>1. /\ WatchesTyped'
      /\ \A v \in Watchers \ {w} : watch'[v] = watch[v]
      /\ \/ Started(w) \/ Read(w) \/ StoredContract(w)
         \/ \E k \in Keys : StoredEntry(w, k)
         \/ Stamped(w) \/ Returned(w)
      /\ UNCHANGED <<now, until, check, scan>>
  BY WatchEffect
<1>2. mixed' \in BOOLEAN
  BY <1>1 DEF TypeOK, Started, Read, StoredContract, StoredEntry, Stamped, Returned
<1>3. contract' \in ContractType
  <2>1. contract \in ContractType /\ now \in Nat /\ NetworkOf[w] \in Networks
    BY WatchAssumption DEF TypeOK, ContractType
  <2>2. CASE StoredContract(w)
    BY <2>1, <2>2 DEF StoredContract, ContractType
  <2>3. CASE Stamped(w)
    BY <2>1, <2>3 DEF Stamped, ContractType, Ledger
  <2> QED
    BY <1>1, <2>1, <2>2, <2>3 DEF Started, Read, StoredEntry, Returned
<1>4. rows' \in [Keys -> RowType]
  <2>1. rows \in [Keys -> RowType]
    BY DEF TypeOK, RowType
  <2>2. ASSUME NEW k \in Keys, StoredEntry(w, k)
        PROVE  rows' \in [Keys -> RowType]
    <3>1. watch[w].got \in [Keys -> Ledger] /\ k \in Got(watch[w].got)
      BY <2>2 DEF TypeOK, WatchType, StoredEntry, StoresAnswered
    <3>2. watch[w].got[k] \in Nat /\ NetworkOf[w] \in Networks
      BY <3>1, GotIsLedger, WatchAssumption
    <3> QED
      BY <2>1, <2>2, <3>2, UpsertTyped DEF StoredEntry
  <2> QED
    BY <1>1, <2>1, <2>2 DEF Started, Read, StoredContract, Stamped, Returned
<1>5. watch'[w].left \subseteq Got(watch'[w].got)
  BY <1>1 DEF StoresAnswered, Started, Read, StoredContract, StoredEntry, Stamped, Returned
<1>6. StoresAnswered'
  BY <1>1, <1>5 DEF StoresAnswered, Got
<1> QED
  BY <1>1, <1>2, <1>3, <1>4, <1>6 DEF TypeOK, WatchesTyped, ContractType, RowType

-----------------------------------------------------------------------------
(* What daemons, discoveries and the chain do.                               *)

\* A step changes only rows it says to be of network n.
WritesOnly(n) == \A k \in Keys : rows'[k] = rows[k] \/ rows'[k].of = n

LEMMA CheckEffect ==
  ASSUME TypeOK, StoresAnswered, NEW n \in Daemons, CheckStep(n) \/ CheckFails(n)
  PROVE  /\ TypeOK' /\ StoresAnswered'
         /\ UNCHANGED <<contract, watch, scan, mixed>>
         /\ \A m \in Daemons \ {n} : check'[m] = check[m]
         /\ check'[n].at # "idle" => (check[n].at # "idle" \/ contract.network = n)
         /\ UNCHANGED rows \/ (check[n].at # "idle" /\ WritesOnly(n))
<1>0. /\ check \in [Daemons -> CheckType] /\ check[n] \in CheckType
      /\ n \in Networks /\ rows \in [Keys -> RowType]
  BY WatchAssumption DEF TypeOK, RowType
<1>1. ASSUME NEW r \in CheckType, check' = [check EXCEPT ![n] = r],
             r.at = "entries" => r.keys \subseteq Got(r.got),
             rows' \in [Keys -> RowType],
             UNCHANGED <<now, until, contract, watch, scan, mixed>>
      PROVE  /\ TypeOK' /\ StoresAnswered'
             /\ \A m \in Daemons \ {n} : check'[m] = check[m]
             /\ check'[n] = r
  <2>1. check' \in [Daemons -> CheckType] /\ check'[n] = r
        /\ \A m \in Daemons \ {n} : check'[m] = check[m]
    BY <1>0, <1>1
  <2>2. TypeOK'
    BY <1>1, <2>1 DEF TypeOK, RowType
  <2>3. StoresAnswered'
    BY <1>1, <2>1 DEF StoresAnswered, Got
  <2> QED
    BY <2>1, <2>2, <2>3
<1>2. NoCheck \in CheckType /\ NoCheck.at = "idle"
  BY DEF NoCheck, CheckType, NothingRead, Ledger
<1>3. CASE CheckStarts(n)
  <2>. DEFINE r == [NoCheck EXCEPT !.at = "asked", !.keys = Tracked]
  <2>1. r \in CheckType /\ r.at = "asked"
    BY <1>2 DEF NoCheck, CheckType, Tracked
  <2>2. /\ check' = [check EXCEPT ![n] = r] /\ contract.network = n
        /\ UNCHANGED <<now, until, contract, rows, watch, scan, mixed>>
    BY <1>3 DEF CheckStarts
  <2>. HIDE DEF r
  <2>3. rows' \in [Keys -> RowType]
    BY <1>0, <2>2
  <2>4. /\ TypeOK' /\ StoresAnswered'
        /\ \A m \in Daemons \ {n} : check'[m] = check[m]
    BY <1>1, <2>1, <2>2, <2>3
  <2> QED
    BY <2>2, <2>4
<1>4. CASE CheckAnswered(n)
  <2>1. PICK got \in Answers(n, check[n].keys) :
            check' = [check EXCEPT ![n] =
                        IF Got(got) = {} THEN NoCheck
                        ELSE [at |-> "entries", keys |-> Got(got), got |-> got]]
    BY <1>4 DEF CheckAnswered
  <2>. DEFINE r == [at |-> "entries", keys |-> Got(got), got |-> got]
  <2>2. r \in CheckType /\ r.keys \subseteq Got(r.got)
    BY <1>0, <2>1, AnswersTyped DEF CheckType, Got
  <2>3. UNCHANGED <<now, until, contract, rows, watch, scan, mixed>> /\ check[n].at # "idle"
    BY <1>4 DEF CheckAnswered
  <2>4. check' = [check EXCEPT ![n] = NoCheck] \/ check' = [check EXCEPT ![n] = r]
    BY <2>1
  <2>. HIDE DEF r
  <2>5. rows' \in [Keys -> RowType]
    BY <1>0, <2>3
  <2>6. /\ TypeOK' /\ StoresAnswered'
        /\ \A m \in Daemons \ {n} : check'[m] = check[m]
    <3>1. CASE check' = [check EXCEPT ![n] = NoCheck]
      BY <1>1, <1>2, <2>3, <2>5, <3>1
    <3>2. CASE check' = [check EXCEPT ![n] = r]
      BY <1>1, <2>2, <2>3, <2>5, <3>2
    <3> QED
      BY <2>4, <3>1, <3>2
  <2> QED
    BY <2>3, <2>6
<1>5. ASSUME NEW k \in Keys, CheckStoresEntry(n, k)
      PROVE  /\ TypeOK' /\ StoresAnswered'
             /\ UNCHANGED <<contract, watch, scan, mixed>>
             /\ \A m \in Daemons \ {n} : check'[m] = check[m]
             /\ check[n].at # "idle" /\ WritesOnly(n)
  <2>. DEFINE r == [check[n] EXCEPT !.keys = @ \ {k}]
  <2>1. /\ check[n].at = "entries" /\ k \in check[n].keys
        /\ UNCHANGED <<now, until, contract, watch, scan, mixed>>
        /\ check' = [check EXCEPT ![n] = NoCheck] \/ check' = [check EXCEPT ![n] = r]
    BY <1>5 DEF CheckStoresEntry
  <2>2. rows' = [rows EXCEPT ![k] = [ledger |-> check[n].got[k], of |-> n]]
    BY <1>5 DEF CheckStoresEntry, Upsert
  <2>3. check[n].got[k] \in Nat /\ check[n].keys \subseteq Got(check[n].got)
    <3>1. check[n].got \in [Keys -> Ledger] /\ check[n].keys \subseteq Got(check[n].got)
      BY <1>0, <2>1 DEF CheckType, StoresAnswered
    <3> QED
      BY <2>1, <3>1, GotIsLedger
  <2>4. rows' \in [Keys -> RowType] /\ WritesOnly(n)
    <3>1. rows' \in [Keys -> RowType]
      BY <1>0, <2>2, <2>3, UpsertTyped
    <3>2. WritesOnly(n)
      BY <1>0, <2>2 DEF WritesOnly
    <3> QED
      BY <3>1, <3>2
  <2>5. r \in CheckType /\ r.keys \subseteq Got(r.got)
    BY <1>0, <2>3 DEF CheckType
  <2>. HIDE DEF r
  <2>6. CASE check' = [check EXCEPT ![n] = NoCheck]
    BY <1>1, <1>2, <2>1, <2>4, <2>6
  <2>7. CASE check' = [check EXCEPT ![n] = r]
    BY <1>1, <2>1, <2>4, <2>5, <2>7
  <2> QED
    BY <2>1, <2>6, <2>7
<1>6. CASE CheckFails(n)
  <2>1. /\ check' = [check EXCEPT ![n] = NoCheck] /\ check[n].at # "idle"
        /\ UNCHANGED <<now, until, contract, rows, watch, scan, mixed>>
    BY <1>6 DEF CheckFails
  <2>2. rows' \in [Keys -> RowType]
    BY <1>0, <2>1
  <2>3. /\ TypeOK' /\ StoresAnswered'
        /\ \A m \in Daemons \ {n} : check'[m] = check[m]
    BY <1>1, <1>2, <2>1, <2>2
  <2> QED
    BY <2>1, <2>3
<1> QED
  BY <1>3, <1>4, <1>5, <1>6 DEF CheckStep

LEMMA ScanEffect ==
  ASSUME TypeOK, StoresAnswered, NEW d \in Scans, ScanStep(d)
  PROVE  /\ TypeOK' /\ StoresAnswered'
         /\ UNCHANGED <<contract, watch, check, mixed>>
         /\ \A e \in Scans \ {d} : scan'[e] = scan[e]
         /\ scan'[d].at = "scanning" =>
                (scan[d].at = "scanning" \/ contract.network = ScanNetwork[d])
         /\ UNCHANGED rows \/ (scan[d].at = "scanning" /\ WritesOnly(ScanNetwork[d]))
<1>0. /\ scan \in [Scans -> ScanType] /\ scan[d] \in ScanType
      /\ ScanNetwork[d] \in Networks /\ rows \in [Keys -> RowType]
  BY WatchAssumption DEF TypeOK, RowType
<1>1. ASSUME NEW r \in ScanType, scan' = [scan EXCEPT ![d] = r], rows' \in [Keys -> RowType],
             UNCHANGED <<now, until, contract, watch, check, mixed>>
      PROVE  /\ TypeOK' /\ StoresAnswered'
             /\ \A e \in Scans \ {d} : scan'[e] = scan[e]
             /\ scan'[d] = r
  <2>1. scan' \in [Scans -> ScanType] /\ scan'[d] = r
        /\ \A e \in Scans \ {d} : scan'[e] = scan[e]
    BY <1>0, <1>1
  <2>2. TypeOK'
    BY <1>1, <2>1 DEF TypeOK, RowType
  <2>3. StoresAnswered'
    BY <1>1 DEF StoresAnswered, Got
  <2> QED
    BY <2>1, <2>2, <2>3
<1>2. CASE ScanStarts(d)
  <2>. DEFINE r == [at |-> "scanning", known |-> Tracked, left |-> Footprints]
  <2>1. r \in ScanType
    BY DEF ScanType, Tracked
  <2>2. /\ scan' = [scan EXCEPT ![d] = r] /\ contract.network = ScanNetwork[d]
        /\ UNCHANGED <<now, until, contract, rows, watch, check, mixed>>
    BY <1>2 DEF ScanStarts
  <2>. HIDE DEF r
  <2>3. rows' \in [Keys -> RowType]
    BY <1>0, <2>2
  <2>4. /\ TypeOK' /\ StoresAnswered'
        /\ \A e \in Scans \ {d} : scan'[e] = scan[e]
    BY <1>1, <2>1, <2>2, <2>3
  <2> QED
    BY <2>2, <2>4
<1>3. ASSUME NEW f \in Footprints, FootprintArrives(d, f)
      PROVE  /\ TypeOK' /\ StoresAnswered'
             /\ UNCHANGED <<contract, watch, check, mixed>>
             /\ \A e \in Scans \ {d} : scan'[e] = scan[e]
             /\ scan[d].at = "scanning" /\ WritesOnly(ScanNetwork[d])
  <2>1. PICK stored \in SUBSET (f \ scan[d].known), known \in SUBSET (f \ scan[d].known) :
            /\ rows' = [k \in Keys |->
                          IF k \in stored THEN [ledger |-> 0, of |-> ScanNetwork[d]] ELSE rows[k]]
            /\ scan' = [scan EXCEPT ![d] =
                          IF scan[d].left = {f} THEN [at |-> "done", known |-> {}, left |-> {}]
                          ELSE [scan[d] EXCEPT !.known = @ \cup known, !.left = @ \ {f}]]
    BY <1>3 DEF FootprintArrives
  <2>. DEFINE r == IF scan[d].left = {f} THEN [at |-> "done", known |-> {}, left |-> {}]
                   ELSE [scan[d] EXCEPT !.known = @ \cup known, !.left = @ \ {f}]
  <2>2. known \in SUBSET Keys
    BY <1>3, WatchAssumption
  <2>3. r \in ScanType
    BY <1>0, <2>2 DEF ScanType
  <2>4. scan' = [scan EXCEPT ![d] = r]
    BY <2>1
  <2>. HIDE DEF r
  <2>5. rows' \in [Keys -> RowType]
    BY <1>0, <2>1 DEF RowType
  <2>6. WritesOnly(ScanNetwork[d])
    BY <2>1 DEF WritesOnly
  <2> QED
    BY <1>1, <1>3, <2>3, <2>4, <2>5, <2>6 DEF FootprintArrives
<1>4. CASE ScanEnds(d)
  <2>. DEFINE r == [at |-> "done", known |-> {}, left |-> {}]
  <2>1. r \in ScanType /\ r.at = "done"
    BY DEF ScanType
  <2>2. /\ scan' = [scan EXCEPT ![d] = r] /\ scan[d].at = "scanning"
        /\ UNCHANGED <<now, until, contract, rows, watch, check, mixed>>
    BY <1>4 DEF ScanEnds
  <2>. HIDE DEF r
  <2>3. rows' \in [Keys -> RowType]
    BY <1>0, <2>2
  <2>4. /\ TypeOK' /\ StoresAnswered'
        /\ \A e \in Scans \ {d} : scan'[e] = scan[e]
    BY <1>1, <2>1, <2>2, <2>3
  <2> QED
    BY <2>2, <2>4
<1> QED
  BY <1>2, <1>3, <1>4 DEF ScanStep

LEMMA ChainEffect ==
  ASSUME TypeOK, StoresAnswered, LedgerCloses
  PROVE  /\ TypeOK' /\ StoresAnswered'
         /\ UNCHANGED <<contract, rows, watch, check, scan, mixed>>
<1>1. UNCHANGED <<contract, rows, watch, check, scan, mixed>>
  BY DEF LedgerCloses
<1>2. StoresAnswered'
  BY <1>1 DEF StoresAnswered, Got
<1>3. now' \in 0 .. MaxNow
  BY WatchAssumption DEF LedgerCloses, TypeOK
<1>4. until' \in [Networks -> [Keys -> Nat]]
  <2>1. PICK S \in SUBSET Extendable :
            until' = [n \in Networks |-> [k \in Keys |->
                          IF <<n, k>> \in S THEN now + 1 + FirstTTL ELSE until[n][k]]]
    BY DEF LedgerCloses
  <2>2. now + 1 + FirstTTL \in Nat /\ until \in [Networks -> [Keys -> Nat]]
    BY WatchAssumption DEF TypeOK
  <2> QED
    BY <2>1, <2>2
<1> QED
  BY <1>1, <1>2, <1>3, <1>4 DEF TypeOK

TypesInv == TypeOK /\ StoresAnswered

LEMMA TypesInvHolds == Spec => []TypesInv
<1>1. Init => TypesInv
  <2>. SUFFICES ASSUME Init
                PROVE  TypesInv
    OBVIOUS
  <2>1. NothingRead \in [Keys -> Ledger]
    BY DEF NothingRead, Ledger
  <2>2. NoCall \in WatchType /\ NoCheck \in CheckType
    BY <2>1 DEF NoCall, WatchType, NoCheck, CheckType, Stages, Results
  <2>3. [at |-> "idle", known |-> {}, left |-> {}] \in ScanType
    BY DEF ScanType
  <2>4. TypeOK
    <3>1. now \in 0 .. MaxNow
      BY WatchAssumption DEF Init
    <3>5. until \in [Networks -> [Keys -> Nat]]
      BY WatchAssumption DEF Init
    <3>6. mixed \in BOOLEAN
      BY Zenon DEF Init
    <3>2. /\ contract \in [network : Networks \cup {NoNetwork}, stamp : Ledger]
          /\ rows \in [Keys -> {NoRow} \cup [ledger : Nat, of : Networks]]
      BY DEF Init, Ledger
    <3>3. /\ watch \in [Watchers -> WatchType]
          /\ check \in [Daemons -> CheckType]
      BY <2>2 DEF Init
    <3>4. scan \in [Scans -> ScanType]
      BY <2>3 DEF Init
    <3> QED
      BY <3>1, <3>2, <3>3, <3>4, <3>5, <3>6 DEF TypeOK
  <2>5. StoresAnswered
    BY DEF Init, StoresAnswered, NoCall, NoCheck
  <2> QED
    BY <2>4, <2>5 DEF TypesInv
<1>2. TypesInv /\ [Next]_vars => TypesInv'
  <2>. SUFFICES ASSUME TypesInv, [Next]_vars
                PROVE  TypesInv'
    OBVIOUS
  <2>1. CASE UNCHANGED vars
    BY <2>1 DEF TypesInv, TypeOK, StoresAnswered, Got
  <2>2. CASE Next
    BY <2>2, TypesOfWatch, CheckEffect, ScanEffect, ChainEffect DEF TypesInv, Next
  <2> QED
    BY <2>1, <2>2
<1> QED
  BY <1>1, <1>2, PTL DEF Spec

\* The tables and the locals keep their types; no row is written without a TTL that was
\* answered for it.
THEOREM TypesHold == Spec => []TypeOK
BY TypesInvHolds, PTL DEF TypesInv

-----------------------------------------------------------------------------
(* Networks.                                                                *)

Storing == {"entries", "stamp"}

\* Whoever is about to write, writes for the network the contract is registered on, and
\* all watches under way are for one network: the one of the contract, if it has one.
Isolated ==
    /\ \A w \in Watchers : InFlight(w) => contract.network \in {NoNetwork, NetworkOf[w]}
    /\ \A w \in Watchers : watch[w].at \in Storing => contract.network = NetworkOf[w]
    /\ \A v, w \in Watchers : InFlight(v) /\ InFlight(w) => NetworkOf[v] = NetworkOf[w]
    /\ \A n \in Daemons : check[n].at # "idle" => contract.network = n
    /\ \A d \in Scans : scan[d].at = "scanning" => contract.network = ScanNetwork[d]
    /\ \A k \in Tracked : rows[k].of = contract.network

IsolatedUnlessMixed == ~ mixed => Isolated

StaysNow == (~ mixed' /\ contract.network # NoNetwork) => contract'.network = contract.network

\* A step that moves nothing and writes for the network of the contract only.
LEMMA QuietStep ==
  ASSUME Isolated, contract'.network = contract.network,
         \A w \in Watchers : InFlight(w)' => InFlight(w),
         \A w \in Watchers : watch'[w].at \in Storing => watch[w].at \in Storing,
         \A n \in Daemons : check'[n].at # "idle" =>
             (check[n].at # "idle" \/ contract.network = n),
         \A d \in Scans : scan'[d].at = "scanning" =>
             (scan[d].at = "scanning" \/ contract.network = ScanNetwork[d]),
         UNCHANGED rows \/ WritesOnly(contract.network)
  PROVE  Isolated'
<1>1. /\ \A w \in Watchers : InFlight(w)' => contract'.network \in {NoNetwork, NetworkOf[w]}
      /\ \A w \in Watchers : watch'[w].at \in Storing => contract'.network = NetworkOf[w]
      /\ \A v, w \in Watchers : InFlight(v)' /\ InFlight(w)' => NetworkOf[v] = NetworkOf[w]
  BY DEF Isolated
<1>2. /\ \A n \in Daemons : check'[n].at # "idle" => contract'.network = n
      /\ \A d \in Scans : scan'[d].at = "scanning" => contract'.network = ScanNetwork[d]
  BY DEF Isolated
<1>3. \A k \in Tracked' : rows'[k].of = contract'.network
  BY DEF Isolated, Tracked, WritesOnly
<1> QED
  BY <1>1, <1>2, <1>3 DEF Isolated

LEMMA WatchIsolates ==
  ASSUME TypeOK, IsolatedUnlessMixed, NEW w \in Watchers, WatchStep(w) \/ WatchFails(w)
  PROVE  IsolatedUnlessMixed' /\ StaysNow
<1>1. /\ \A v \in Watchers \ {w} : watch'[v] = watch[v]
      /\ \/ Started(w) \/ Read(w) \/ StoredContract(w)
         \/ \E k \in Keys : StoredEntry(w, k)
         \/ Stamped(w) \/ Returned(w)
      /\ UNCHANGED <<check, scan>>
  BY WatchEffect
<1>2. mixed => mixed'
  BY <1>1 DEF Started, Read, StoredContract, StoredEntry, Stamped, Returned
<1>. SUFFICES ASSUME ~ mixed'
              PROVE  /\ Isolated'
                     /\ contract.network # NoNetwork => contract'.network = contract.network
  BY DEF IsolatedUnlessMixed, StaysNow
<1>3. Isolated
  BY <1>2 DEF IsolatedUnlessMixed
<1>4. /\ contract \in ContractType
      /\ NetworkOf[w] \in Networks /\ NoNetwork \notin Networks /\ Daemons \subseteq Networks
      /\ \A d \in Scans : ScanNetwork[d] \in Networks
  BY WatchAssumption DEF TypeOK, ContractType
<1>5. CASE Started(w)
  <2>1. /\ \A v \in Watchers : InFlight(v) => NetworkOf[v] = NetworkOf[w]
        /\ contract.network \in {NoNetwork, NetworkOf[w]}
        /\ watch'[w].at = "read" /\ UNCHANGED <<contract, rows>>
    BY <1>5 DEF Started, MayWatch
  <2>2. \A v \in Watchers : InFlight(v)' => (InFlight(v) \/ v = w)
    BY <1>1 DEF InFlight
  <2>3. \A v \in Watchers : watch'[v].at \in Storing => watch[v].at \in Storing
    BY <1>1, <2>1 DEF Storing
  <2>4. /\ \A v \in Watchers : InFlight(v)' => contract'.network \in {NoNetwork, NetworkOf[v]}
        /\ \A v, u \in Watchers : InFlight(v)' /\ InFlight(u)' => NetworkOf[v] = NetworkOf[u]
    BY <1>3, <2>1, <2>2 DEF Isolated
  <2>5. /\ \A v \in Watchers : watch'[v].at \in Storing => contract'.network = NetworkOf[v]
        /\ \A n \in Daemons : check'[n].at # "idle" => contract'.network = n
        /\ \A d \in Scans : scan'[d].at = "scanning" => contract'.network = ScanNetwork[d]
        /\ \A k \in Tracked' : rows'[k].of = contract'.network
    BY <1>1, <1>3, <2>1, <2>3 DEF Isolated, Tracked
  <2> QED
    BY <2>1, <2>4, <2>5 DEF Isolated
<1>6. CASE StoredContract(w)
  <2>1. /\ contract.network \in {NoNetwork, NetworkOf[w]}
        /\ \A v \in Watchers : InFlight(v) => NetworkOf[v] = NetworkOf[w]
    BY <1>3, <1>6 DEF Isolated, StoredContract, InFlight
  <2>2. contract'.network = NetworkOf[w] /\ UNCHANGED rows /\ watch'[w].at = "entries"
    BY <1>4, <1>6 DEF StoredContract, ContractType
  <2>3. \A v \in Watchers : InFlight(v)' => NetworkOf[v] = NetworkOf[w]
    BY <1>1, <2>1 DEF InFlight
  <2>4. \A v \in Watchers : watch'[v].at \in Storing => InFlight(v)'
    BY DEF Storing, InFlight
  <2>5. /\ \A n \in Daemons : check'[n].at # "idle" => contract'.network = n
        /\ \A d \in Scans : scan'[d].at = "scanning" => contract'.network = ScanNetwork[d]
    BY <1>1, <1>3, <1>4, <2>1, <2>2 DEF Isolated
  <2>6. \A k \in Tracked' : rows'[k].of = contract'.network
    BY <1>3, <2>1, <2>2 DEF Isolated, Tracked
  <2> QED
    BY <2>1, <2>2, <2>3, <2>4, <2>5, <2>6 DEF Isolated
<1>7. CASE \/ Read(w) \/ (\E k \in Keys : StoredEntry(w, k)) \/ Stamped(w) \/ Returned(w)
  <2>1. contract'.network = contract.network
    BY <1>4, <1>7 DEF ContractType, Read, StoredEntry, Stamped, Returned
  <2>2. /\ InFlight(w)' => InFlight(w)
        /\ watch'[w].at \in Storing => watch[w].at \in Storing
    BY <1>7 DEF InFlight, Storing, Read, StoredEntry, Stamped, Returned
  <2>3. /\ \A v \in Watchers : InFlight(v)' => InFlight(v)
        /\ \A v \in Watchers : watch'[v].at \in Storing => watch[v].at \in Storing
    BY <1>1, <2>2 DEF InFlight
  <2>4. ASSUME NEW k \in Keys, StoredEntry(w, k)
        PROVE  WritesOnly(contract.network)
    <3>1. contract.network = NetworkOf[w]
      BY <1>3, <2>4 DEF Isolated, StoredEntry, Storing
    <3>2. rows \in [Keys -> RowType]
      BY DEF TypeOK, RowType
    <3> QED
      BY <2>4, <3>1, <3>2 DEF StoredEntry, WritesOnly
  <2>5. UNCHANGED rows \/ WritesOnly(contract.network)
    BY <1>7, <2>4 DEF Read, Stamped, Returned
  <2>6. Isolated'
    BY <1>1, <1>3, <2>1, <2>3, <2>5, QuietStep
  <2> QED
    BY <2>1, <2>6
<1> QED
  BY <1>1, <1>5, <1>6, <1>7

LEMMA OthersIsolate ==
  ASSUME TypeOK, StoresAnswered, IsolatedUnlessMixed,
         \/ LedgerCloses
         \/ \E n \in Daemons : CheckStep(n) \/ CheckFails(n)
         \/ \E d \in Scans : ScanStep(d)
  PROVE  IsolatedUnlessMixed' /\ StaysNow
<1>. SUFFICES ASSUME ~ mixed'
              PROVE  Isolated' /\ UNCHANGED contract
  BY DEF IsolatedUnlessMixed, StaysNow
<1>1. CASE LedgerCloses
  <2>1. UNCHANGED <<contract, rows, watch, check, scan, mixed>>
    BY <1>1, ChainEffect
  <2>2. \A v \in Watchers : InFlight(v)' => InFlight(v)
    BY <2>1 DEF InFlight
  <2> QED
    BY <2>1, <2>2, QuietStep DEF IsolatedUnlessMixed
<1>2. ASSUME NEW n \in Daemons, CheckStep(n) \/ CheckFails(n)
      PROVE  Isolated' /\ UNCHANGED contract
  <2>1. /\ UNCHANGED <<contract, watch, scan, mixed>>
        /\ \A m \in Daemons \ {n} : check'[m] = check[m]
        /\ check'[n].at # "idle" => (check[n].at # "idle" \/ contract.network = n)
        /\ UNCHANGED rows \/ (check[n].at # "idle" /\ WritesOnly(n))
    BY <1>2, CheckEffect
  <2>2. Isolated
    BY <2>1 DEF IsolatedUnlessMixed
  <2>3. UNCHANGED rows \/ WritesOnly(contract.network)
    BY <2>1, <2>2 DEF Isolated
  <2>4. \A v \in Watchers : InFlight(v)' => InFlight(v)
    BY <2>1 DEF InFlight
  <2> QED
    BY <2>1, <2>2, <2>3, <2>4, QuietStep
<1>3. ASSUME NEW d \in Scans, ScanStep(d)
      PROVE  Isolated' /\ UNCHANGED contract
  <2>1. /\ UNCHANGED <<contract, watch, check, mixed>>
        /\ \A e \in Scans \ {d} : scan'[e] = scan[e]
        /\ scan'[d].at = "scanning" =>
               (scan[d].at = "scanning" \/ contract.network = ScanNetwork[d])
        /\ UNCHANGED rows \/ (scan[d].at = "scanning" /\ WritesOnly(ScanNetwork[d]))
    BY <1>3, ScanEffect
  <2>2. Isolated
    BY <2>1 DEF IsolatedUnlessMixed
  <2>3. UNCHANGED rows \/ WritesOnly(contract.network)
    BY <2>1, <2>2 DEF Isolated
  <2>4. \A v \in Watchers : InFlight(v)' => InFlight(v)
    BY <2>1 DEF InFlight
  <2> QED
    BY <2>1, <2>2, <2>3, <2>4, QuietStep
<1> QED
  BY <1>1, <1>2, <1>3

LEMMA StepIsolates == TypesInv /\ IsolatedUnlessMixed /\ [Next]_vars => IsolatedUnlessMixed' /\ StaysNow
<1>. SUFFICES ASSUME TypesInv, IsolatedUnlessMixed, [Next]_vars
              PROVE  IsolatedUnlessMixed' /\ StaysNow
  OBVIOUS
<1>1. CASE UNCHANGED vars
  BY <1>1 DEF IsolatedUnlessMixed, Isolated, InFlight, Tracked, StaysNow
<1>2. CASE Next
  BY <1>2, WatchIsolates, OthersIsolate DEF TypesInv, Next
<1> QED
  BY <1>1, <1>2

LEMMA IsolatedHolds == Spec => []IsolatedUnlessMixed
<1>1. Init => IsolatedUnlessMixed
  BY DEF Init, IsolatedUnlessMixed, Isolated, InFlight, Tracked, NoCall, NoCheck, NoRow, Storing
<1> QED
  BY <1>1, StepIsolates, TypesInvHolds, PTL DEF Spec

\* A contract and all its rows are of one network while watches of two networks have not
\* overlapped, whatever daemons and discoveries write.
THEOREM NetworkIsolationHolds == Spec => []NetworkIsolation
<1>1. IsolatedUnlessMixed => NetworkIsolation
  BY DEF IsolatedUnlessMixed, Isolated, NetworkIsolation
<1> QED
  BY <1>1, IsolatedHolds, PTL

\* A registered contract does not move to another network.
THEOREM NetworkStaysHolds == Spec => NetworkStays
<1>1. TypesInv /\ IsolatedUnlessMixed /\ [Next]_vars =>
          [~ mixed' /\ contract.network # NoNetwork => contract'.network = contract.network]_vars
  BY StepIsolates DEF StaysNow
<1> QED
  BY <1>1, IsolatedHolds, TypesInvHolds, PTL DEF Spec, NetworkStays

-----------------------------------------------------------------------------
(* The stamp.                                                               *)

\* What a call has read and stored by the stage it is in.
Progress(w) ==
    /\ watch[w].at = "read" /\ "instance" \notin watch[w].pending
           => watch[w].got[Instance] # Null
    /\ watch[w].at \in {"contract"} \cup Storing => watch[w].got[Instance] # Null
    /\ watch[w].at = "entries" => Got(watch[w].got) \ watch[w].left \subseteq Tracked
    /\ watch[w].at = "stamp" => Got(watch[w].got) \subseteq Tracked
    /\ watch[w].result = "fresh" => watch[w].at = "done" /\ Completed(w)
    /\ watch[w].result = "cached" => contract.stamp # Null

Earner(w) == Completed(w) /\ (mixed \/ NetworkOf[w] = contract.network)

Earned ==
    /\ \A w \in Watchers : Progress(w)
    /\ contract.stamp # Null => \E w \in Watchers : Earner(w)

\* Rows are never deleted, and never lose their network.
LEMMA TrackedGrows ==
  ASSUME NEW n \in Networks, UNCHANGED rows \/ WritesOnly(n)
  PROVE  Tracked \subseteq Tracked'
BY WatchAssumption DEF Tracked, WritesOnly

\* A call that does not step keeps what it has.
LEMMA OthersProgress ==
  ASSUME NEW w \in Watchers, Progress(w), UNCHANGED watch[w], Tracked \subseteq Tracked',
         contract.stamp # Null => contract'.stamp # Null
  PROVE  Progress(w)' /\ (Completed(w) => Completed(w)')
<1>1. Completed(w) => Completed(w)'
  BY DEF Completed, Got
<1> QED
  BY <1>1 DEF Progress, Got

LEMMA WatchEarns ==
  ASSUME TypeOK, StoresAnswered, IsolatedUnlessMixed, Earned,
         NEW w \in Watchers, WatchStep(w) \/ WatchFails(w)
  PROVE  Earned'
<1>1. /\ \A v \in Watchers \ {w} : watch'[v] = watch[v]
      /\ \/ Started(w) \/ Read(w) \/ StoredContract(w)
         \/ \E k \in Keys : StoredEntry(w, k)
         \/ Stamped(w) \/ Returned(w)
  BY WatchEffect
<1>2. /\ watch[w] \in WatchType /\ contract \in ContractType /\ rows \in [Keys -> RowType]
      /\ now \in Nat /\ NoNetwork \notin Networks /\ \A v \in Watchers : NetworkOf[v] \in Networks
      /\ Progress(w)
  BY WatchAssumption DEF TypeOK, ContractType, RowType, Earned
<1>3. mixed => mixed'
  BY <1>1 DEF Started, Read, StoredContract, StoredEntry, Stamped, Returned
<1>4. Tracked \subseteq Tracked'
  <2>1. ASSUME NEW k \in Keys, StoredEntry(w, k)
        PROVE  WritesOnly(NetworkOf[w])
    BY <1>2, <2>1 DEF StoredEntry, WritesOnly
  <2>2. UNCHANGED rows \/ WritesOnly(NetworkOf[w])
    BY <1>1, <2>1 DEF Started, Read, StoredContract, Stamped, Returned
  <2> QED
    BY <1>2, <2>2, TrackedGrows
<1>5. contract.stamp # Null => contract'.stamp # Null
  BY <1>1, <1>2 DEF ContractType, Started, Read, StoredContract, StoredEntry, Stamped, Returned
<1>6. \A v \in Watchers \ {w} : Progress(v)' /\ (Completed(v) => Completed(v)')
  BY <1>1, <1>4, <1>5, OthersProgress DEF Earned
<1>7. Progress(w)'
  <2>1. CASE Started(w)
    BY <1>2, <2>1 DEF Started, Progress, Storing, Wanted
  <2>2. CASE Read(w)
    BY <1>2, <2>2 DEF Read, Progress, Storing
  <2>3. CASE StoredContract(w)
    BY <1>2, <2>3 DEF StoredContract, Progress, Storing, Got
  <2>4. ASSUME NEW k \in Keys, StoredEntry(w, k)
        PROVE  Progress(w)'
    <3>1. k \in Tracked'
      BY <1>2, <2>4 DEF StoredEntry, Tracked
    <3>2. Got(watch'[w].got) \ watch'[w].left \subseteq Tracked'
      BY <1>2, <1>4, <2>4, <3>1 DEF StoredEntry, Progress, Got
    <3>3. watch'[w].at = "stamp" => Got(watch'[w].got) \subseteq Tracked'
      BY <2>4, <3>2 DEF StoredEntry
    <3> QED
      BY <1>2, <2>4, <3>2, <3>3 DEF StoredEntry, Progress, Storing, Got
  <2>5. CASE Stamped(w)
    <3>2. Instance \in Got(watch[w].got) /\ Got(watch[w].got) \subseteq Tracked
      BY <1>2, <2>5, WatchAssumption DEF Stamped, Progress, Storing, Got
    <3>3. watch'[w].result = "fresh" /\ Got(watch'[w].got) = Got(watch[w].got)
      BY <2>5 DEF Stamped, Got
    <3>1. Completed(w)'
      BY <1>4, <3>2, <3>3 DEF Completed, Got
    <3> QED
      BY <1>2, <2>5, <3>1 DEF Stamped, Progress, Storing
  <2>6. CASE Returned(w)
    BY <1>2, <2>6 DEF Returned, Progress, Storing
  <2> QED
    BY <1>1, <2>1, <2>2, <2>3, <2>4, <2>5, <2>6
<1>8. ASSUME contract'.stamp # Null
      PROVE  \E v \in Watchers : Earner(v)'
  <2>1. CASE Stamped(w)
    <3>1. Completed(w)'
      BY <1>7, <2>1 DEF Progress, Stamped
    <3>2. mixed \/ contract.network = NetworkOf[w]
      BY <2>1 DEF IsolatedUnlessMixed, Isolated, Stamped, Storing
    <3>3. mixed' \/ NetworkOf[w] = contract'.network
      BY <1>2, <2>1, <3>2 DEF Stamped, ContractType
    <3> QED
      BY <3>1, <3>3 DEF Earner
  <2>2. CASE ~ Stamped(w)
    <3>1. contract.stamp # Null
      BY <1>1, <1>2, <1>8, <2>2
      DEF ContractType, Started, Read, StoredContract, StoredEntry, Returned
    <3>2. PICK v \in Watchers : Earner(v)
      BY <3>1 DEF Earned
    <3>3. Completed(v)'
      <4>1. watch[w].at # "done" \/ Stamped(w)
        BY <1>1 DEF Started, Read, StoredContract, StoredEntry, Returned
      <4>2. watch[w].result # "fresh"
        BY <1>2, <2>2, <4>1 DEF Progress
      <4>3. v # w
        BY <3>2, <4>2 DEF Earner, Completed
      <4> QED
        BY <1>6, <3>2, <4>3 DEF Earner
    <3>4. mixed' \/ NetworkOf[v] = contract'.network
      <4>1. CASE mixed
        BY <1>3, <4>1
      <4>2. CASE ~ mixed /\ StoredContract(w)
        <5>1. contract.network \in {NoNetwork, NetworkOf[w]} /\ contract.network = NetworkOf[v]
          BY <3>2, <4>2 DEF IsolatedUnlessMixed, Isolated, InFlight, StoredContract, Earner
        <5>2. contract'.network = NetworkOf[w]
          BY <1>2, <4>2 DEF StoredContract, ContractType
        <5> QED
          BY <1>2, <5>1, <5>2
      <4>3. CASE ~ mixed /\ ~ StoredContract(w)
        <5>1. contract' = contract
          BY <1>1, <2>2, <4>3 DEF Started, Read, StoredEntry, Returned
        <5> QED
          BY <3>2, <4>3, <5>1 DEF Earner
      <4> QED
        BY <4>1, <4>2, <4>3
    <3> QED
      BY <3>3, <3>4 DEF Earner
  <2> QED
    BY <2>1, <2>2
<1> QED
  BY <1>6, <1>7, <1>8 DEF Earned

LEMMA OthersEarn ==
  ASSUME TypeOK, StoresAnswered, Earned,
         \/ LedgerCloses
         \/ \E n \in Daemons : CheckStep(n) \/ CheckFails(n)
         \/ \E d \in Scans : ScanStep(d)
  PROVE  Earned'
<1>1. /\ UNCHANGED <<contract, watch, mixed>>
      /\ UNCHANGED rows \/ \E n \in Networks : WritesOnly(n)
  <2>1. ASSUME NEW n \in Daemons, CheckStep(n) \/ CheckFails(n)
        PROVE  UNCHANGED <<contract, watch, mixed>> /\ (UNCHANGED rows \/ WritesOnly(n))
    BY <2>1, CheckEffect
  <2>2. ASSUME NEW d \in Scans, ScanStep(d)
        PROVE  /\ UNCHANGED <<contract, watch, mixed>>
               /\ UNCHANGED rows \/ WritesOnly(ScanNetwork[d])
    BY <2>2, ScanEffect
  <2> QED
    BY <2>1, <2>2, ChainEffect, WatchAssumption
<1>2. Tracked \subseteq Tracked'
  BY <1>1, TrackedGrows DEF Tracked
<1>3. \A w \in Watchers : Progress(w)' /\ (Completed(w) => Completed(w)')
  BY <1>1, <1>2, OthersProgress DEF Earned
<1> QED
  BY <1>1, <1>3 DEF Earned, Earner

LEMMA EarnedHolds == Spec => []Earned
<1>1. Init => Earned
  <2>. SUFFICES ASSUME Init
                PROVE  Earned
    OBVIOUS
  <2>1. contract.stamp = Null
    BY DEF Init
  <2>2. \A w \in Watchers : watch[w].at = "idle" /\ watch[w].result = "none"
    BY DEF Init, NoCall
  <2> QED
    BY <2>1, <2>2 DEF Earned, Progress, Storing
<1>2. TypesInv /\ IsolatedUnlessMixed /\ Earned /\ [Next]_vars => Earned'
  <2>. SUFFICES ASSUME TypesInv, IsolatedUnlessMixed, Earned, [Next]_vars
                PROVE  Earned'
    OBVIOUS
  <2>1. CASE UNCHANGED vars
    BY <2>1 DEF Earned, Progress, Earner, Completed, Got, Tracked, Storing
  <2>2. CASE Next
    BY <2>2, WatchEarns, OthersEarn DEF TypesInv, Next
  <2> QED
    BY <2>1, <2>2
<1> QED
  BY <1>1, <1>2, TypesInvHolds, IsolatedHolds, PTL DEF Spec

\* A contract is not taken for introspected before some watch stored all it had read, the
\* instance at least, wherever watches and checks failed.
THEOREM CacheIsEarnedHolds == Spec => []CacheIsEarned
<1>1. Earned => CacheIsEarned
  BY DEF Earned, Progress, Earner, CacheIsEarned
<1> QED
  BY <1>1, EarnedHolds, PTL

-----------------------------------------------------------------------------
(* The ledgers that Status adds.                                             *)

\* Storing the ledger of an answer disturbs nothing that the theorems above are about:
\* they hold for watches and checks that store it as well.
THEOREM StatusImplementsWatch == StatusSpec => Spec
<1>1. StatusInit => Init
  BY DEF StatusInit
<1>2. [StatusNext]_statusVars => [Next]_vars
  <2>. SUFFICES ASSUME [StatusNext]_statusVars
                PROVE  [Next]_vars
    OBVIOUS
  <2>1. CASE UNCHANGED statusVars
    BY <2>1 DEF statusVars
  <2>2. CASE Outside
    BY <2>2 DEF Outside, Next
  <2>3. ASSUME NEW w \in Watchers,
               WatchReads(w) \/ WatchActs(w) \/ WatchStoresLedger(w) \/ WatchStops(w)
        PROVE  [Next]_vars
    <3>1. WatchReads(w) \/ WatchActs(w) => WatchStep(w)
      BY DEF WatchReads, WatchActs, WatchStep
    <3>2. WatchStoresLedger(w) => UNCHANGED vars
      BY DEF WatchStoresLedger, UpdateLastCheckedLedger
    <3> QED
      BY <2>3, <3>1, <3>2 DEF WatchStops, Next
  <2>4. ASSUME NEW n \in Daemons,
               \/ CheckBegins(n) \/ CheckReads(n) \/ CheckStoresLedger(n) \/ CheckStops(n)
               \/ \E k \in Keys : CheckStores(n, k)
        PROVE  [Next]_vars
    <3>1. CheckBegins(n) \/ CheckReads(n) \/ (\E k \in Keys : CheckStores(n, k)) => CheckStep(n)
      BY DEF CheckBegins, CheckReads, CheckStores, CheckStep
    <3>2. CheckStoresLedger(n) => UNCHANGED vars
      BY DEF CheckStoresLedger, UpdateLastCheckedLedger
    <3> QED
      BY <2>4, <3>1, <3>2 DEF CheckStops, Next
  <2> QED
    BY <2>1, <2>2, <2>3, <2>4 DEF StatusNext
<1> QED
  BY <1>1, <1>2, PTL DEF StatusSpec, Spec
=============================================================================
