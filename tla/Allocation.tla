----------------------------- MODULE Allocation -----------------------------
(***************************************************************************)
(* Where the route table and the policy priorities of an installation come *)
(* from (allocate_resources of core.py) and what router recovery reserves  *)
(* next to them (router.py).  An installation without a record takes the   *)
(* first free table and the first free window of priorities of the pool;   *)
(* a run whose health check passed records them in runtime.json, and every *)
(* later run takes them from there.  Others own rules and tables as well.  *)
(*                                                                         *)
(* A transaction is coarser here than in module Transaction, which shows   *)
(* that runs exclude each other and what a rollback does: here it is one   *)
(* step, which takes back what the run has done, or leaves what inverses   *)
(* that fail could not take back.                                          *)
(***************************************************************************)
EXTENDS Integers, FiniteSets

CONSTANTS
    LANs,            \* how many routed LANs the configuration has
    TablePool,       \* route tables that may be allocated (10000 .. 10999)
    BasePool,        \* priorities that may be allocated (20000 .. 20999)
    RouterPref,      \* the priority right behind the main table (32001)
    RouterRecovery,  \* router_recovery.enabled
    Unset,           \* a resource that the configuration leaves open
    Configs,         \* the configurations an operator may choose
    OthersMay,       \* rules and routes that others may add
    MaxMeddling      \* bound on what others and the operator do

ASSUME PoolAssumption ==
    /\ LANs \in Nat \ {0}
    /\ TablePool \subseteq Nat /\ BasePool \subseteq Nat \ {0}
    /\ IsFiniteSet(TablePool) /\ IsFiniteSet(BasePool)
    /\ RouterPref \in Nat /\ RouterRecovery \in BOOLEAN
    /\ Unset \notin Nat
    /\ \A c \in Configs : c.table \in Nat \cup {Unset} /\ c.base \in (Nat \ {0}) \cup {Unset}
    /\ MaxMeddling \in Nat

(* Assets *****************************************************************)

\* Whose packets a rule selects: those of a LAN (the last one: the fixed source
\* address), of the router, of its marked DNS, of somebody else.
ForLAN(i) == <<"lan", i>>
ForRouter == <<"router">>
ForDns    == <<"dns">>
Others    == <<"others">>

\* What one priority, one table, router-recovery.json and the UDAPI flags hold.
Rule(pref, role, table) == [kind |-> "rule", pref |-> pref, role |-> role, table |-> table]
Route(table, owner)     == [kind |-> "route", table |-> table, owner |-> owner]
Identity(res)           == [kind |-> "identity", table |-> res.table, base |-> res.base]
Bindings                == [kind |-> "flags"]

Foreign(a) == \/ a.kind = "rule" /\ a.role = Others
              \/ a.kind = "route" /\ a.owner = "other"

ASSUME OthersAssumption == \A a \in OthersMay : Foreign(a)

VARIABLES
    config,    \* resources of the configuration: [table, base]
    assets,    \* everything in the kernel, in UDAPI and in router-recovery.json
    runtime,   \* resources in runtime.json, or NoRecord
    pc,        \* idle, apply or verify
    tx,        \* the running transaction: resources, actions left, actions done
    leaked,    \* history: what runs that died and inverses that failed left behind
    meddling   \* how much others and the operator have done

vars == <<config, assets, runtime, pc, tx, leaked, meddling>>

NoRecord == [table |-> Unset, base |-> Unset]

NoTx == [res |-> NoRecord, todo |-> {}, done |-> {}, replans |-> 0]

Init ==
    /\ config \in Configs
    /\ assets \in {{}, {Bindings}}
    /\ runtime = NoRecord
    /\ pc = "idle" /\ tx = NoTx
    /\ leaked = {} /\ meddling = 0

(* allocate_resources *****************************************************)

UsedTables == {a.table : a \in {x \in assets : x.kind = "route"}}
UsedPrefs  == {a.pref : a \in {x \in assets : x.kind = "rule"}}

\* Bases whose whole window lies in the pool; bases whose window is free.
Windows(pool) == {b \in pool : \A i \in 0 .. LANs : b + i \in pool}
FreeWindows(pool, used) == {b \in Windows(pool) : \A i \in 0 .. LANs : b + i \notin used}

Lowest(x, S) == x \in S /\ \A y \in S : x <= y

\* The resources a plan uses, if it finds any: the recorded ones as long as
\* the configuration agrees, else configured or first free ones.
Allocation(use) ==
    IF runtime # NoRecord
    THEN /\ use = runtime
         /\ IF config.table # Unset THEN use.table = config.table ELSE use.table \in TablePool
         /\ IF config.base # Unset THEN use.base = config.base ELSE use.base \in BasePool
    ELSE /\ IF config.table # Unset THEN use.table = config.table
            ELSE Lowest(use.table, TablePool \ UsedTables)
         /\ IF config.base # Unset THEN use.base = config.base
            ELSE Lowest(use.base, FreeWindows(BasePool, UsedPrefs))

(* The plan ***************************************************************)

\* One rule per LAN, then the one for the fixed source address.
WindowRules(res) == {Rule(res.base + i, ForLAN(i), res.table) : i \in 0 .. LANs}

\* The two rules of router recovery: behind main, and right before the window.
ReservedRules(res) ==
    IF RouterRecovery
    THEN {Rule(RouterPref, ForRouter, res.table), Rule(res.base - 1, ForDns, res.table)}
    ELSE {}

\* Everything a plan with these resources wants.
Wanted(res) ==
    {Route(res.table, "ours")} \cup WindowRules(res) \cup ReservedRules(res)
      \cup (IF RouterRecovery THEN {Identity(res), Bindings} ELSE {})

\* The order of the actions.
Stage(a) ==
    CASE a.kind = "route"                          -> 1
      [] a.kind = "rule" /\ a.role[1] = "lan"      -> 2
      [] a.kind = "identity"                       -> 3
      [] a.kind = "rule" /\ a.role[1] # "lan"      -> 4
      [] a.kind = "flags"                          -> 5

RulesAt(pref) == {a \in assets : a.kind = "rule" /\ a.pref = pref}

\* Fault: router-recovery.json of other resources is taken for ours.
Unowned_WithoutIdentity(res) ==
    \/ Route(res.table, "other") \in assets
    \/ \E r \in WindowRules(res) : RulesAt(r.pref) # {} /\ r \notin assets
    \/ \E r \in ReservedRules(res) : RulesAt(r.pref) \notin {{}, {r}}

\* Ownership checks; when one of them holds the plan is refused.
Unowned(res) ==
    \/ Route(res.table, "other") \in assets
    \/ \E r \in WindowRules(res) : RulesAt(r.pref) # {} /\ r \notin assets
    \/ \E r \in ReservedRules(res) : RulesAt(r.pref) \notin {{}, {r}}
    \/ RouterRecovery /\ \E a \in assets : a.kind = "identity" /\ a # Identity(res)

\* The actions a plan holds.
Missing(res) == Wanted(res) \ assets

Planned(use) == Allocation(use) /\ ~Unowned(use)

Tables == TablePool \cup {c.table : c \in Configs}
Bases  == BasePool \cup {c.base : c \in Configs}
Resources == [table : Tables \ {Unset}, base : Bases \ {Unset}]

\* Standalone mode replans once when the plan corrects the monitors' flags.
Replans(res) == IF Bindings \in Missing(res) THEN 1 ELSE 0

Plan ==
    \E use \in Resources :
        /\ pc = "idle"
        /\ Planned(use)
        /\ tx' = [NoTx EXCEPT !.res = use, !.todo = Missing(use),
                              !.replans = Replans(use)]
        /\ pc' = "apply"
        /\ UNCHANGED <<config, assets, runtime, leaked, meddling>>

\* The actions whose turn it can be.
Due == {a \in tx.todo : \A later \in tx.todo : Stage(a) <= Stage(later)}

Apply ==
    \E a \in Due :
        /\ pc = "apply"
        /\ assets' = assets \cup {a}
        /\ tx' = [tx EXCEPT !.todo = @ \ {a}, !.done = @ \cup {a}]
        /\ UNCHANGED <<config, runtime, pc, leaked, meddling>>

\* The replan allocates again, as runtime.json is not written yet; it may not
\* ask for another callback.
Resettled(use) ==
    /\ Planned(use)
    /\ \A a \in Missing(use) : a.kind \notin {"identity", "flags"}

\* Fault: the replan is not counted.
Settle_Again ==
    \E use \in Resources :
        /\ pc = "apply" /\ tx.todo = {} /\ tx.replans > 0
        /\ Resettled(use)
        /\ tx' = [tx EXCEPT !.res = use, !.todo = Missing(use)]
        /\ UNCHANGED <<config, assets, runtime, pc, leaked, meddling>>

\* Fault: the replan also happens when none is due.
Settle_Undue ==
    \E use \in Resources :
        /\ pc = "apply" /\ tx.todo = {}
        /\ Resettled(use)
        /\ tx' = [tx EXCEPT !.res = use, !.todo = Missing(use), !.replans = @ - 1]
        /\ UNCHANGED <<config, assets, runtime, pc, leaked, meddling>>

Settle ==
    \E use \in Resources :
        /\ pc = "apply" /\ tx.todo = {} /\ tx.replans > 0
        /\ Resettled(use)
        /\ tx' = [tx EXCEPT !.res = use, !.todo = Missing(use), !.replans = @ - 1]
        /\ UNCHANGED <<config, assets, runtime, pc, leaked, meddling>>

ApplyDone ==
    /\ pc = "apply" /\ tx.todo = {} /\ tx.replans = 0
    /\ pc' = "verify"
    /\ UNCHANGED <<config, assets, runtime, tx, leaked, meddling>>

\* The health check passes and runtime.json is written.
Record ==
    /\ pc = "verify"
    /\ runtime' = tx.res
    /\ pc' = "idle" /\ tx' = NoTx
    /\ UNCHANGED <<config, assets, leaked, meddling>>

\* Fault: the reserved priority is not given back.
Undone_WithoutReserved(left) ==
    (assets \ {a \in tx.done : a.kind # "rule" \/ a.role # ForDns}) \cup left

\* What is there after the inverses, when some of them failed.
Undone(left) == (assets \ tx.done) \cup left

\* Fault: the record is taken back as well.
Rollback_Forgetting(left) ==
    /\ assets' = Undone(left)
    /\ runtime' = NoRecord
    /\ pc' = "idle" /\ tx' = NoTx
    /\ leaked' = leaked \cup left
    /\ UNCHANGED config

\* The inverses run in reverse; one that fails leaves its asset, and the
\* rollback goes on.
Rollback(left) ==
    /\ assets' = Undone(left)
    /\ pc' = "idle" /\ tx' = NoTx
    /\ leaked' = leaked \cup left
    /\ UNCHANGED <<config, runtime>>

SettleRefused ==
    /\ pc = "apply" /\ tx.todo = {} /\ tx.replans > 0
    /\ \A use \in Resources : ~Resettled(use)
    /\ Rollback({})
    /\ UNCHANGED meddling

(* Failures, others, the operator *****************************************)

Meddle == meddling < MaxMeddling /\ meddling' = meddling + 1

\* A command, the replan or the health check fails, or a signal arrives; a
\* command that was under way may have had its effect.  Inverses may fail too.
Fail ==
    /\ pc # "idle" /\ Meddle
    /\ \E begun \in SUBSET Due :
          /\ Cardinality(begun) <= 1
          /\ \E left \in SUBSET ((tx.done \cap assets) \cup begun) : Rollback(left)

Die ==
    /\ pc # "idle" /\ Meddle
    /\ pc' = "idle" /\ tx' = NoTx
    /\ leaked' = leaked \cup tx.done
    /\ UNCHANGED <<config, assets, runtime>>

\* The kernel is empty after a boot, files and UDAPI configuration are not.
Reboot ==
    /\ Meddle
    /\ assets' = {a \in assets : a.kind \in {"identity", "flags"}}
    /\ pc' = "idle" /\ tx' = NoTx
    /\ leaked' = {}
    /\ UNCHANGED <<config, runtime>>

\* Others add what is theirs, withdraw it, or lose what is the project's.
Claim ==
    /\ Meddle
    /\ \E a \in OthersMay \ assets : assets' = assets \cup {a}
    /\ UNCHANGED <<config, runtime, pc, tx, leaked>>

Withdraw ==
    /\ Meddle
    /\ \E a \in {x \in assets : x.kind # "identity"} : assets' = assets \ {a}
    /\ UNCHANGED <<config, runtime, pc, tx, leaked>>

\* A process keeps the configuration it has loaded.
Reconfigure ==
    /\ pc = "idle" /\ Meddle
    /\ config' \in Configs \ {config}
    /\ UNCHANGED <<assets, runtime, pc, tx, leaked>>

Step == Plan \/ Apply \/ Settle \/ SettleRefused \/ ApplyDone \/ Record

Next ==
    \/ Step \/ Fail \/ Die
    \/ Reboot \/ Claim \/ Withdraw \/ Reconfigure

Spec == Init /\ [][Next]_vars

\* A run that started goes on; the timer starts the next one.
FairSpec == Spec /\ WF_vars(Step)

(* Properties *************************************************************)

\* The record and the running transaction hold resources of the pools or of
\* the configuration, and at most one replan is due.
TypeOK ==
    /\ config \in Configs /\ runtime \in Resources \cup {NoRecord}
    /\ pc \in {"idle", "apply", "verify"}
    /\ tx.res \in Resources \cup {NoRecord} /\ tx.replans \in {0, 1}
    /\ (tx.res = NoRecord) = (pc = "idle")
    /\ meddling \in 0 .. MaxMeddling

\* Once a table and a window are recorded they are kept: through reboots,
\* whatever others take in the meantime and whatever the operator configures.
ResourcesStable ==
    [][runtime # NoRecord => runtime' = runtime]_vars

\* router-recovery.json never names other resources than runtime.json, even
\* when a first run died between the two.
IdentityAgrees ==
    \A a \in assets :
        a.kind = "identity" /\ runtime # NoRecord => a = Identity(runtime)

Own(a) == a.kind \in {"rule", "route"} /\ ~Foreign(a)

\* Between runs, every rule and every table the project has in the kernel belongs
\* to the recorded resources or was left by a run that died, or by an inverse that
\* failed, since the last boot: a failed first run gives its window and its
\* reserved priorities back, however many other inverses fail.
NoOrphans ==
    pc = "idle" =>
        \A a \in assets : Own(a) =>
            \/ runtime # NoRecord /\ a \in Wanted(runtime)
            \/ a \in leaked

Served == runtime # NoRecord /\ Wanted(runtime) \subseteq assets

\* The configuration names resources that nobody else has.
Clear ==
    /\ config.table # Unset /\ config.base # Unset
    /\ runtime \in {NoRecord, config}
    /\ ~Unowned(config)

\* With resources named by the configuration, everything the project wants is
\* in place from some time on and stays there.
EventuallyServed == <>[]Clear => <>[]Served

\* A fresh installation that leaves its resources open gets recorded ones.
FreshStartServed == <>(runtime # NoRecord)
=============================================================================
