------------------------------ MODULE Operator ------------------------------
(***************************************************************************)
(* Operators at their terminals, beside the daemon: guard, restore and the  *)
(* channels commands for one contract and one network. They share the       *)
(* database with the cycles of the daemon and the ledger with everybody.    *)
(*                                                                         *)
(* A step is the code between two awaits. Submission is what TxSubmit has   *)
(* it to be, a transaction on its way and an answer that may not come; an   *)
(* attempt of the daemon may end early for all the reasons AutoExtension    *)
(* models (rate limit, budget). channels add stores no keypair_source, so   *)
(* that channel accounts never sign.                                       *)
(***************************************************************************)
EXTENDS Integers, FiniteSets, FiniteSetsExt, Secrets

CONSTANTS
    Entries,        \* the contract's rows of contract_entries
    Accounts,       \* public keys that channels add may register
    Terminals,      \* each runs one command at a time
    Daemon,
    Sources,        \* keypair sources the operators name
    Limits,         \* pairs of --threshold and --target-ttl
    FirstPolicies,  \* extension_policies when the model starts
    FirstChannels,  \* channel_accounts then, none of them funded
    MinTTL,         \* life of a restored entry
    MaxLedger,      \* bound: the last ledger that closes
    MaxCommands,    \* bound: commands
    MaxFaults       \* bound: failed awaits, late polls, crashes

Limit == [below : Nat, target : Nat]
Policy == [enabled : BOOLEAN, below : Nat, target : Nat, source : Sources \cup {Null}]

ASSUME OperatorAssumption ==
    /\ Limits \subseteq Limit
    /\ FirstPolicies \subseteq Policy \cup {Null}
    /\ FirstChannels \subseteq Accounts
    /\ IsFiniteSet(Terminals) /\ Daemon \notin Terminals
    /\ Null \notin Terminals \cup Secrets
    /\ EmptyText \in Texts \ Secrets
    /\ MinTTL \in Nat \ {0}
    /\ {MaxLedger, MaxCommands, MaxFaults} \subseteq Nat

VARIABLES
    now,        \* the chain: latest closed ledger
    until,      \* the chain: live_until_ledger
    masterSeq,  \* the chain: sequence number of the master wallet
    paid,       \* the chain: payments to each account
    pending,    \* transactions on their way, with who waits for them
    fate,       \* what became of the transaction each actor waits for
    known,      \* contract_entries.live_until_ledger
    policy,     \* the row of extension_policies, or Null
    registered, \* channel_accounts
    funded,     \* those of them with funded = 1
    command,    \* the command each terminal runs
    run,        \* the daemon's cycle
    told,       \* times an operator was told that an account is funded
    unsure,     \* times a run that may have paid it ended without an answer
    commands,   \* for the bounds
    faults

chain == <<now, until, masterSeq, paid, pending, fate>>
rows == <<known, policy, registered, funded>>
answers == <<told, unsure>>
counters == <<commands, faults>>
vars == <<chain, rows, command, run, answers, counters>>

Nobody == Null
Actors == Terminals \cup {Daemon}

Stages == {"idle", "resolve", "save", "simulate", "submit", "poll", "refresh",
           "account", "send", "mark"}

\* The locals of a command at its start.
Locals(stage, goal, source, limit, what) ==
    [at |-> stage, goal |-> goal, source |-> source, limit |-> limit, what |-> what,
     seq |-> 0]
NoCommand == Locals("idle", Null, Null, Null, {})
NoRun == [at |-> "idle", policy |-> Null, latest |-> 0, what |-> {}, key |-> Null]

TypeOK ==
    /\ now \in 0 .. MaxLedger
    /\ until \in [Entries -> Nat]
    /\ masterSeq \in Nat
    /\ {paid, told, unsure} \subseteq [Accounts -> Nat]
    /\ fate \in [Actors -> {"none", "pending", "landed", "failed"}]
    /\ known \in [Entries -> Nat]
    /\ policy \in Policy \cup {Null}
    /\ funded \subseteq registered /\ registered \subseteq Accounts
    /\ \A t \in Terminals : command[t].at \in Stages

Init ==
    /\ now = 1
    /\ until \in [Entries -> {0, 2}]
    /\ masterSeq = 0
    /\ pending = {}
    /\ fate = [a \in Actors |-> "none"]
    /\ known = until
    /\ policy \in FirstPolicies
    /\ registered = FirstChannels
    /\ funded = {}
    /\ command = [t \in Terminals |-> NoCommand]
    /\ run = NoRun
    /\ paid = [a \in Accounts |-> 0]
    /\ told = [a \in Accounts |-> 0]
    /\ unsure = [a \in Accounts |-> 0]
    /\ commands = 0
    /\ faults = 0

Fault == faults < MaxFaults /\ faults' = faults + 1

Increased(count, keys) == [k \in DOMAIN count |-> count[k] + (IF k \in keys THEN 1 ELSE 0)]

-----------------------------------------------------------------------------
(* The chain (external).                                                   *)

Alive == {e \in Entries : until[e] >= now}

LedgerCloses ==
    /\ now < MaxLedger
    /\ now' = now + 1
    /\ UNCHANGED <<until, masterSeq, paid, pending, fate, rows, command, run, answers, counters>>

Settles(x, outcome) ==
    /\ pending' = pending \ {x}
    /\ fate' = IF x.who = Nobody THEN fate ELSE [fate EXCEPT ![x.who] = outcome]
    /\ masterSeq' = IF x.goal = "fund" THEN masterSeq + 1 ELSE masterSeq

\* A transaction succeeds: all of its operations do.
Lands(x) ==
    /\ x.goal = "fund" => x.seq = masterSeq + 1
    /\ Settles(x, "landed")
    /\ until' = [e \in Entries |->
           CASE x.goal = "extend" /\ e \in x.what \cap Alive -> Max({until[e], now + x.target})
             [] x.goal = "restore" /\ e \in x.what \ Alive -> now + MinTTL
             [] OTHER -> until[e]]
    /\ paid' = IF x.goal = "fund" THEN Increased(paid, x.what) ELSE paid
    /\ UNCHANGED <<now, rows, command, run, answers, counters>>

\* It fails in a ledger: nothing is done, its number is used.
FailsOnChain(x) ==
    /\ x.goal = "fund" => x.seq = masterSeq + 1
    /\ Fault
    /\ Settles(x, "failed")
    /\ UNCHANGED <<now, until, paid, rows, command, run, answers, commands>>

\* Its time bound passes, or its sequence number is used by another.
Expires(x) ==
    /\ Fault \/ (x.goal = "fund" /\ x.seq <= masterSeq /\ UNCHANGED faults)
    /\ pending' = pending \ {x}
    /\ UNCHANGED <<now, until, masterSeq, paid, fate, rows, command, run, answers, commands>>

\* The node takes a transaction; an orphan is one that nobody waits for.
Sends(who, x) ==
    /\ pending' = pending \cup {[x EXCEPT !.who = who]}
    /\ fate' = IF who = Nobody THEN fate ELSE [fate EXCEPT ![who] = "pending"]

\* What an actor that goes away leaves behind.
Abandons(who) ==
    /\ pending' = {[x EXCEPT !.who = IF x.who = who THEN Nobody ELSE x.who] : x \in pending}
    /\ fate' = [fate EXCEPT ![who] = "none"]

-----------------------------------------------------------------------------
(* The commands.                                                           *)

\* A command starts, and is at a new stage, or done if it awaits nothing.
Runs(t, locals) ==
    /\ command[t].at = "idle"
    /\ commands < MaxCommands
    /\ commands' = commands + 1
    /\ command' = [command EXCEPT ![t] = locals]
    /\ UNCHANGED <<chain, run, answers, faults>>

Goes(t, from, to) ==
    /\ command[t].at = from
    /\ command' = [command EXCEPT ![t] = IF to = "idle" THEN NoCommand
                                         ELSE [@ EXCEPT !.at = to]]

Ends(t, from) == Goes(t, from, "idle")

\* Mutant of Upserted: a keypair that is not given is kept.
UpsertedKeepingKey(enabled, limit, source) ==
    [enabled |-> enabled, below |-> limit.below, target |-> limit.target,
     source |-> IF source = Null /\ policy # Null THEN policy.source ELSE source]

\* upsertExtensionPolicy replaces every column.
Upserted(enabled, limit, source) ==
    [enabled |-> enabled, below |-> limit.below, target |-> limit.target,
     source |-> source]

\* The checks of guard on its options come before everything else.
Accepted(limit) == limit.below > 0 /\ limit.below < limit.target

\* guard --disable: no await.
GuardDisables(t, limit) ==
    /\ Accepted(limit)
    /\ Runs(t, NoCommand)
    /\ policy' = Upserted(FALSE, limit, Null)
    /\ UNCHANGED <<known, registered, funded>>

\* guard with a keypair: its secret is resolved before anything is decided.
GuardStarts(t, goal, limit, source) ==
    /\ Accepted(limit)
    /\ Runs(t, Locals("resolve", goal, source, limit, {}))
    /\ UNCHANGED rows

\* --auto-extend wants a source the daemon can resolve.
Storable(source) == source.kind \in {"env", "vault"}

GuardResolves(t) ==
    LET c == command[t] IN
    /\ c.at = "resolve"
    /\ ResolveSecretKey(c.source) \in Secrets
    /\ CASE c.goal = "enable" -> Goes(t, "resolve", IF Storable(c.source) THEN "save" ELSE "idle")
         [] c.goal = "dry-run" -> Goes(t, "resolve", "simulate")
         [] c.goal = "extend" ->
                command' = [command EXCEPT ![t] = [c EXCEPT !.at = "submit", !.what = Entries]]
    /\ UNCHANGED <<chain, rows, run, answers, counters>>

\* No key, or a text that Keypair.fromSecret throws for, or Vault does not answer.
GuardUnresolved(t) ==
    /\ Ends(t, "resolve")
    /\ \/ ResolveSecretKey(command[t].source) \notin Secrets /\ UNCHANGED faults
       \/ command[t].source.kind = "vault" /\ Fault
    /\ UNCHANGED <<chain, rows, run, answers, commands>>

GuardEnables(t) ==
    /\ Ends(t, "save")
    /\ policy' = Upserted(TRUE, command[t].limit, command[t].source)
    /\ UNCHANGED <<chain, known, registered, funded, run, answers, counters>>

\* --dry-run prints what the simulation answers.
GuardSimulates(t) ==
    /\ Ends(t, "simulate")
    /\ UNCHANGED <<chain, rows, run, answers, counters>>

\* restore: the key is at hand; --entry picks entries, --all is all of them.
RestoreStarts(t, keys) ==
    /\ keys # {}
    /\ Runs(t, Locals("submit", "restore", Null, Null, keys))
    /\ UNCHANGED rows

Transaction(t) ==
    [who |-> t, goal |-> command[t].goal, what |-> command[t].what, seq |-> command[t].seq,
     target |-> IF command[t].goal = "extend" THEN command[t].limit.target ELSE 0]

Submits(t) ==
    /\ Goes(t, "submit", "poll")
    /\ Sends(t, Transaction(t))
    /\ UNCHANGED <<now, until, masterSeq, paid, rows, run, answers, counters>>

SeesSuccess(t) ==
    /\ fate[t] = "landed"
    /\ Goes(t, "poll", IF command[t].goal = "fund" THEN "mark" ELSE "refresh")
    /\ fate' = [fate EXCEPT ![t] = "none"]
    /\ UNCHANGED <<now, until, masterSeq, paid, pending, rows, run, answers, counters>>

SeesFailure(t) ==
    /\ fate[t] = "failed"
    /\ Ends(t, "poll")
    /\ fate' = [fate EXCEPT ![t] = "none"]
    /\ UNCHANGED <<now, until, masterSeq, paid, pending, rows, run, answers, counters>>

\* getEntryTTLs answers for the entries that live, and their rows are written.
KnownOf(keys) == [e \in Entries |-> IF e \in keys \cap Alive THEN until[e] ELSE known[e]]

Refreshes(t) ==
    /\ Ends(t, "refresh")
    /\ known' = KnownOf(command[t].what)
    /\ UNCHANGED <<chain, policy, registered, funded, run, answers, counters>>

\* A run of fund that cannot know whether it paid.
Unsure(t) == unsure' = IF command[t].goal = "fund" /\ command[t].at # "account"
                       THEN Increased(unsure, command[t].what) ELSE unsure

\* An await rejects or the terminal is closed. A send that rejects may have
\* reached the node.
GivesUp(t) ==
    /\ command[t].at \notin {"idle", "resolve", "save"}
    /\ Fault
    /\ command' = [command EXCEPT ![t] = NoCommand]
    /\ Unsure(t)
    /\ \/ Abandons(t)
       \/ command[t].at \in {"submit", "send"} /\ Sends(Nobody, Transaction(t))
    /\ UNCHANGED <<now, until, masterSeq, paid, rows, run, told, commands>>

\* Mutant of TimesOut: the transaction is built and sent once more.
TriesAgain(t) ==
    /\ fate[t] \notin {"landed", "failed"}
    /\ Goes(t, "poll", IF command[t].goal = "fund" THEN "account" ELSE "submit")
    /\ Abandons(t)
    /\ UNCHANGED <<now, until, masterSeq, paid, rows, run, answers, counters>>

\* 30 polls do not find it: the command fails, although it may land yet.
TimesOut(t) ==
    /\ fate[t] \notin {"landed", "failed"}
    /\ Ends(t, "poll")
    /\ Unsure(t)
    /\ Abandons(t)
    /\ UNCHANGED <<now, until, masterSeq, paid, rows, run, told, counters>>

-----------------------------------------------------------------------------
(* The channels commands.                                                  *)

ChannelsAdd(t, a) ==
    /\ a \notin registered
    /\ Runs(t, NoCommand)
    /\ registered' = registered \cup {a}
    /\ UNCHANGED <<known, policy, funded>>

\* fundChannels reads the accounts, funded or not, before it awaits anything.
FundStarts(t) ==
    /\ registered # {}
    /\ Runs(t, Locals("account", "fund", Null, Null, registered))
    /\ UNCHANGED rows

\* sendPayments: getAccount of the master wallet.
FundReadsMaster(t) ==
    /\ command[t].at = "account"
    /\ command' = [command EXCEPT ![t] = [@ EXCEPT !.at = "send", !.seq = masterSeq + 1]]
    /\ UNCHANGED <<chain, rows, run, answers, counters>>

MasterQueue == {x \in pending : x.goal = "fund"}

\* The node queues it, or has one of the account in its queue and asks to try
\* again later, which is polled for all the same.
FundSends(t) ==
    /\ Goes(t, "send", "poll")
    /\ command[t].seq = masterSeq + 1
    /\ IF MasterQueue = {} THEN Sends(t, Transaction(t)) ELSE UNCHANGED <<pending, fate>>
    /\ UNCHANGED <<now, until, masterSeq, paid, rows, run, answers, counters>>

\* txBad_SEQ, and no second attempt.
FundRefused(t) ==
    /\ Ends(t, "send")
    /\ command[t].seq # masterSeq + 1
    /\ UNCHANGED <<chain, rows, run, answers, counters>>

\* Mutant of ToMark: the accounts are read again after the payment.
RegisteredNow(t) == registered

ToMark(t) == command[t].what

\* markChannelFunded, an update per account, and the report at the end.
FundMarks(t, a) ==
    /\ command[t].at = "mark"
    /\ a \in ToMark(t) \ funded
    /\ funded' = funded \cup {a}
    /\ UNCHANGED <<chain, known, policy, registered, command, run, answers, counters>>

FundReports(t) ==
    /\ ToMark(t) \subseteq funded
    /\ Ends(t, "mark")
    /\ told' = Increased(told, ToMark(t))
    /\ UNCHANGED <<chain, rows, run, unsure, counters>>

-----------------------------------------------------------------------------
(* The daemon: processContract, then runAutoExtensions for this contract.   *)

Cycle(from, locals) ==
    /\ run.at = from
    /\ run' = locals
    /\ UNCHANGED <<policy, registered, funded, command, answers, commands>>

\* Mutant of Asked: entries whose row says they are archived are left out.
AskedIfAlive == {e \in Entries : known[e] >= now}

\* processContract asks for all rows of the contract.
Asked == Entries

\* The rows are refreshed, or that fails; then the policy is looked at.
Checks ==
    /\ \/ known' = KnownOf(Asked) /\ UNCHANGED faults
       \/ UNCHANGED known /\ Fault
    /\ Cycle("idle", IF policy # Null /\ policy.enabled
                     THEN [NoRun EXCEPT !.at = "ledger"] ELSE NoRun)
    /\ UNCHANGED chain

NeedsExtension(p, latest) ==
    {e \in Entries : known[e] - latest >= 0 /\ known[e] - latest < p.below}

\* getCurrentLedger has answered. The policy is read again, and not asked
\* whether it is still enabled.
RunReads ==
    /\ LET needed == NeedsExtension(policy, now) IN
       Cycle("ledger", IF needed = {} THEN NoRun
                       ELSE [NoRun EXCEPT !.at = "resolve", !.policy = policy,
                                          !.latest = now, !.what = needed])
    /\ UNCHANGED <<chain, known, faults>>

RunResolves ==
    /\ run.at = "resolve"
    /\ LET key == ResolveSecretKey(run.policy.source)
       IN  key \in Secrets /\ Cycle("resolve", [run EXCEPT !.at = "submit", !.key = key])
    /\ UNCHANGED <<chain, known, faults>>

\* No usable key, the hourly limit or a budget ends the attempt.
RunSkips ==
    /\ Cycle("resolve", NoRun)
    /\ UNCHANGED <<chain, known, faults>>

RunSubmits ==
    /\ Cycle("submit", [run EXCEPT !.at = "poll"])
    /\ Sends(Daemon, [who |-> Daemon, goal |-> "extend", what |-> run.what, seq |-> 0,
                      target |-> run.policy.target])
    /\ UNCHANGED <<now, until, masterSeq, paid, known, faults>>

RunPolls ==
    /\ fate[Daemon] \in {"landed", "failed"}
    /\ Cycle("poll", IF fate[Daemon] = "landed" THEN [run EXCEPT !.at = "refresh"] ELSE NoRun)
    /\ fate' = [fate EXCEPT ![Daemon] = "none"]
    /\ UNCHANGED <<now, until, masterSeq, paid, pending, known, faults>>

RunRecords ==
    /\ known' = KnownOf(run.what)
    /\ Cycle("refresh", NoRun)
    /\ UNCHANGED <<chain, faults>>

\* Polling ends without an answer.
RunTimesOut ==
    /\ fate[Daemon] \in {"none", "pending"}
    /\ Cycle("poll", NoRun)
    /\ Abandons(Daemon)
    /\ UNCHANGED <<now, until, masterSeq, paid, known, faults>>

\* An await rejects, or the process is killed and started again.
RunFails ==
    /\ run.at # "idle"
    /\ Fault
    /\ Cycle(run.at, NoRun)
    /\ Abandons(Daemon)
    /\ UNCHANGED <<now, until, masterSeq, paid, known>>

DaemonStep == \/ Checks \/ RunReads \/ RunResolves \/ RunSkips \/ RunSubmits \/ RunPolls
              \/ RunTimesOut \/ RunRecords

Command(t) ==
    \/ \E l \in Limits : GuardDisables(t, l)
    \/ \E goal \in {"enable", "dry-run", "extend"}, l \in Limits, s \in Sources :
           GuardStarts(t, goal, l, s)
    \/ \E keys \in SUBSET Entries : RestoreStarts(t, keys)
    \/ \E a \in Accounts : ChannelsAdd(t, a)
    \/ FundStarts(t)

Continues(t) ==
    \/ GuardResolves(t) \/ GuardUnresolved(t) \/ GuardEnables(t) \/ GuardSimulates(t)
    \/ Submits(t) \/ SeesSuccess(t) \/ SeesFailure(t) \/ TimesOut(t)
    \/ Refreshes(t)
    \/ FundReadsMaster(t) \/ FundSends(t) \/ FundRefused(t)
    \/ \E a \in Accounts : FundMarks(t, a)
    \/ FundReports(t)

Next ==
    \/ LedgerCloses
    \/ \E x \in pending : Lands(x) \/ FailsOnChain(x) \/ Expires(x)
    \/ \E t \in Terminals : Command(t) \/ Continues(t) \/ GivesUp(t)
    \/ DaemonStep \/ RunFails

Spec == Init /\ [][Next]_vars

\* The daemon keeps cycling: its awaits settle, since polling is bounded.
FairSpec == Spec /\ WF_vars(DaemonStep)

-----------------------------------------------------------------------------

\* The daemon signs nothing for a contract whose policy it read as disabled,
\* although it does not look at enabled again after it awaited the ledger:
\* guard --disable takes the key away as well.
SignsOnlyEnabled == run.at \in {"submit", "poll", "refresh"} => run.policy.enabled

\* An account is marked as funded only if the chain paid it, although accounts
\* are registered and funded by others while a payment is awaited.
FundedIsPaid == \A a \in funded : paid[a] > 0

\* Who counts the runs that said an account is funded, and those that ended
\* without an answer, knows how often it was paid: at least once for each of the
\* former, at most once more for each of the latter. A run that was refused or
\* failed has paid nothing and can be repeated.
PaidAsReported ==
    \A a \in Accounts :
        LET open == {t \in Terminals : command[t].goal = "fund" /\ a \in command[t].what}
        IN  told[a] <= paid[a] /\ paid[a] <= told[a] + unsure[a] + Cardinality(open)

\* An entry that was restored comes back under the eyes of the daemon even if
\* the command ended before it could refresh the row, unless it is archived
\* again.
RestoredIsSeen ==
    \A e \in Entries :
        (until[e] >= now /\ known[e] < now) ~> (known[e] >= now \/ until[e] < now)

=============================================================================
